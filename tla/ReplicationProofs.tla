-------------------------- MODULE ReplicationProofs --------------------------
(***************************************************************************)
(* Proofs about Replication.                                               *)
(***************************************************************************)
EXTENDS Replication, SequenceTheorems, FunctionTheorems, FiniteSetTheorems, TLAPS

Slots == 0..repl_backlog_size-1
Backlogs == [on : BOOLEAN, buf : [Slots -> Writes], idx : Slots,
             histlen : 0..repl_backlog_size, off : Nat]

\* What a struct redisServer and a connection can hold.
ServerSet == [data : Seq(Writes), disk : Snapshots, masterhost : Servers \cup {None},
              replid : Nat, off : Nat, replid2 : Nat \cup {None}, second_replid_offset : Int,
              backlog : Backlogs, master : Positions \cup {None},
              master_initial : Positions \cup {None},
              slaves : [Servers -> {"none", "wait_start", "wait_end", "online"}],
              bgsave : Snapshots \cup {None}, cached_master : Positions \cup {None},
              repl_state : {"none", "connect", "psync", "transfer", "connected"}]
LinkSet == [peer : Servers \cup {None}, reply : Replies \cup {None},
            rdb : Snapshots \cup {None}, stream : Seq(Writes)]
-----------------------------------------------------------------------------
(* The circular buffer. *)

\* The place of the k-th last write of a buffer that goes on at idx.
Back(idx, k) == IF k <= idx THEN idx - k ELSE idx - k + repl_backlog_size

\* The backlog holds the last histlen writes of the data set.
BacklogOK(s) ==
    s.backlog.on =>
        /\ s.backlog.off + s.backlog.histlen = s.off + 1
        /\ s.backlog.histlen <= Len(s.data)
        /\ \A k \in 1..s.backlog.histlen :
              s.backlog.buf[Back(s.backlog.idx, k)] = s.data[Len(s.data) + 1 - k]

\* One step further on in the buffer.
LEMMA BackStep ==
    ASSUME NEW i \in Slots, NEW k \in 1..repl_backlog_size, NEW j, j = (i + 1) % repl_backlog_size
    PROVE  /\ j \in Slots /\ Back(j, 1) = i /\ Back(i, k) \in Slots
           /\ k # 1 => Back(j, k) = Back(i, k - 1) /\ Back(j, k) # i /\ Back(j, k) \in Slots
<1>1. repl_backlog_size \in Nat \ {0} /\ i \in Nat /\ i < repl_backlog_size /\ k \in Nat
  BY ReplicationAssumption DEF Slots
<1>2. j = IF i + 1 < repl_backlog_size THEN i + 1 ELSE 0
  <2>1. CASE i + 1 < repl_backlog_size
    BY <1>1, <2>1
  <2>2. CASE i + 1 = repl_backlog_size
    BY <1>1, <2>2
  <2> QED
    BY <1>1, <2>1, <2>2
<1>3. j \in Slots /\ j \in Nat /\ Back(j, 1) = i
  BY <1>1, <1>2 DEF Slots, Back
<1>4. Back(i, k) \in Slots
  BY <1>1 DEF Slots, Back
<1>5. k # 1 => Back(j, k) = Back(i, k - 1) /\ Back(j, k) # i /\ Back(j, k) \in Slots
  BY <1>1, <1>2 DEF Slots, Back
<1> QED
  BY <1>3, <1>4, <1>5

\* What an operation leaves alone.
SameIds(x, s) ==
    /\ x.replid = s.replid /\ x.replid2 = s.replid2
    /\ x.second_replid_offset = s.second_replid_offset
SameFiles(x, s) == x.disk = s.disk /\ x.bgsave = s.bgsave
SameRole(x, s) ==
    /\ x.masterhost = s.masterhost /\ x.repl_state = s.repl_state /\ x.master = s.master
    /\ x.master_initial = s.master_initial /\ x.cached_master = s.cached_master

LEMMA BacklogSame ==
    ASSUME NEW s, BacklogOK(s), NEW x, x.backlog = s.backlog, x.data = s.data, x.off = s.off
    PROVE  BacklogOK(x)
  BY DEF BacklogOK

LEMMA EmptyBacklog == NoBacklog \in Backlogs /\ NoBacklog.histlen = 0 /\ ~NoBacklog.on
<1>1. repl_backlog_size \in Nat \ {0}
  BY ReplicationAssumption
<1>2. 0 \in Slots /\ 0 \in 0..repl_backlog_size
  BY <1>1 DEF Slots
<1>3. [i \in Slots |-> 0] \in [Slots -> Writes]
  BY DEF Writes
<1>4. [i \in 0..repl_backlog_size-1 |-> 0] = [i \in Slots |-> 0]
  BY DEF Slots
<1> DEFINE z == [i \in Slots |-> 0]
<1> HIDE DEF z
<1>5. NoBacklog = [on |-> FALSE, buf |-> z, idx |-> 0, histlen |-> 0, off |-> 0]
  BY <1>4 DEF NoBacklog, z
<1> QED
  BY <1>2, <1>3, <1>5 DEF Backlogs, z

\* A server with a new backlog.
LEMMA CreateFacts ==
    ASSUME NEW s \in ServerSet, NEW x, x = createReplicationBacklog(s)
    PROVE  /\ x \in ServerSet /\ BacklogOK(x) /\ x.backlog.on
           /\ SameIds(x, s) /\ SameFiles(x, s) /\ SameRole(x, s)
           /\ x.data = s.data /\ x.off = s.off /\ x.slaves = s.slaves
<1> DEFINE b == [NoBacklog EXCEPT !.on = TRUE, !.off = s.off + 1]
<1>1. NoBacklog \in Backlogs /\ NoBacklog.histlen = 0
  BY EmptyBacklog
<1>2. b \in Backlogs /\ b.on /\ b.off = s.off + 1 /\ b.histlen = 0
  <2>1. s.off + 1 \in Nat
    BY DEF ServerSet
  <2> QED
    BY <1>1, <2>1 DEF Backlogs
<1> HIDE DEF b
<1>3. x = [s EXCEPT !.backlog = b]
  BY DEF createReplicationBacklog, b
<1>4. /\ x \in ServerSet /\ x.backlog = b
      /\ SameIds(x, s) /\ SameFiles(x, s) /\ SameRole(x, s)
      /\ x.data = s.data /\ x.off = s.off /\ x.slaves = s.slaves
  BY <1>2, <1>3, SMTT(20) DEF ServerSet, SameIds, SameFiles, SameRole
<1>5. s.off \in Nat /\ Len(s.data) \in Nat
  BY DEF ServerSet
<1>6. BacklogOK(x)
  BY <1>2, <1>4, <1>5 DEF BacklogOK
<1> QED
  BY <1>2, <1>4, <1>6

\* What feedReplicationBacklog() has made of t, which is s with one more write.
Fed(s, t, x) ==
    /\ x \in ServerSet /\ BacklogOK(x) /\ x.backlog.on = s.backlog.on
    /\ SameIds(x, t) /\ SameFiles(x, t) /\ SameRole(x, t)
    /\ x.data = t.data /\ x.slaves = t.slaves
    /\ x.off = IF s.backlog.on THEN s.off + 1 ELSE s.off

LEMMA FeedFacts ==
    ASSUME NEW s \in ServerSet, BacklogOK(s), NEW w \in Writes, NEW t \in ServerSet,
           t.data = Append(s.data, w), t.backlog = s.backlog, t.off = s.off,
           NEW x, x = feedReplicationBacklog(t, w)
    PROVE  Fed(s, t, x)
<1> USE DEF Fed
<1>1. CASE ~s.backlog.on
  <2>1. x = t
    BY <1>1 DEF feedReplicationBacklog
  <2> QED
    BY <1>1, <2>1 DEF BacklogOK, SameIds, SameFiles, SameRole
<1>2. CASE s.backlog.on
  <2> DEFINE b == s.backlog
             h == IF b.histlen < repl_backlog_size THEN b.histlen + 1 ELSE b.histlen
             buf == [b.buf EXCEPT ![b.idx] = w]
             idx == (b.idx + 1) % repl_backlog_size
             o == s.off + 1 - h + 1
             c == [on |-> TRUE, buf |-> buf, idx |-> idx, histlen |-> h, off |-> o]
  <2>1. x = [t EXCEPT !.off = s.off + 1, !.backlog = c]
    BY <1>2 DEF feedReplicationBacklog, ServerSet
  <2>2. /\ b \in Backlogs /\ b.buf \in [Slots -> Writes] /\ b.idx \in Slots
        /\ b.histlen \in 0..repl_backlog_size /\ b.off \in Nat
        /\ repl_backlog_size \in Nat \ {0}
        /\ s.data \in Seq(Writes) /\ Len(s.data) \in Nat /\ s.off \in Nat
    BY ReplicationAssumption DEF ServerSet, Backlogs
  <2>3. /\ b.off + b.histlen = s.off + 1 /\ b.histlen <= Len(s.data)
        /\ \A k \in 1..b.histlen : b.buf[Back(b.idx, k)] = s.data[Len(s.data) + 1 - k]
    BY <1>2 DEF BacklogOK
  <2> HIDE DEF b
  <2>5. h \in 1..repl_backlog_size /\ h <= b.histlen + 1 /\ h \in Nat
    BY <2>2
  <2>6. /\ buf \in [Slots -> Writes] /\ buf[b.idx] = w
        /\ \A i \in Slots : i # b.idx => buf[i] = b.buf[i]
    BY <2>2
  <2>7. o \in Nat /\ o + h = s.off + 2
    <3> HIDE DEF h
    <3>1. b.off \in Nat /\ b.histlen \in Nat /\ s.off \in Nat /\ h \in Nat
      BY <2>2, <2>5
    <3>2. b.off + b.histlen = s.off + 1 /\ h <= b.histlen + 1
      BY <2>3, <2>5
    <3> QED
      BY <3>1, <3>2, SMTT(20)
  <2>8. /\ idx \in Slots /\ Back(idx, 1) = b.idx
        /\ \A k \in 1..repl_backlog_size : k # 1 =>
              Back(idx, k) = Back(b.idx, k - 1) /\ Back(idx, k) # b.idx /\ Back(idx, k) \in Slots
    <3>1. 1 \in 1..repl_backlog_size
      BY <2>2
    <3> QED
      BY <2>2, <3>1, BackStep
  <2> HIDE DEF h, buf, idx, o
  <2>9. c \in Backlogs /\ c.on = TRUE /\ c.histlen = h /\ c.off = o /\ c.idx = idx /\ c.buf = buf
    BY <2>5, <2>6, <2>7, <2>8 DEF Backlogs
  <2> HIDE DEF c
  <2>10. /\ Append(s.data, w) \in Seq(Writes) /\ Len(Append(s.data, w)) = Len(s.data) + 1
         /\ Append(s.data, w)[Len(s.data) + 1] = w
         /\ \A i \in 1..Len(s.data) : Append(s.data, w)[i] = s.data[i]
    BY <2>2
  <2>11. \A k \in 1..h : buf[Back(idx, k)] = Append(s.data, w)[Len(s.data) + 2 - k]
    <3> SUFFICES ASSUME NEW k \in 1..h
                 PROVE  buf[Back(idx, k)] = Append(s.data, w)[Len(s.data) + 2 - k]
      OBVIOUS
    <3>1. CASE k = 1
      <4>2. Len(s.data) + 2 - k = Len(s.data) + 1
        BY <2>2, <3>1
      <4> QED
        BY <2>6, <2>8, <2>10, <3>1, <4>2
    <3>2. CASE k # 1
      <4>1. k \in Nat /\ k - 1 \in 1..b.histlen /\ k \in 1..repl_backlog_size
        BY <2>2, <2>5, <3>2
      <4>2. Back(idx, k) = Back(b.idx, k - 1) /\ Back(idx, k) # b.idx /\ Back(idx, k) \in Slots
        BY <2>8, <3>2, <4>1
      <4>3. b.buf[Back(b.idx, k - 1)] = s.data[Len(s.data) + 1 - (k - 1)]
        BY <2>3, <4>1
      <4>4. Len(s.data) + 1 - (k - 1) = Len(s.data) + 2 - k /\ Len(s.data) + 2 - k \in 1..Len(s.data)
        <5>1. k \in Nat /\ b.histlen \in Nat /\ Len(s.data) \in Nat /\ b.histlen <= Len(s.data)
          BY <2>2, <2>3, <4>1
        <5>2. 1 <= k - 1 /\ k - 1 <= b.histlen
          BY <4>1, <5>1
        <5> QED
          BY <5>1, <5>2
      <4> QED
        BY <2>6, <2>10, <4>2, <4>3, <4>4
    <3> QED
      BY <3>1, <3>2
  <2>12. /\ x \in ServerSet /\ x.off = s.off + 1 /\ x.backlog = c
         /\ SameIds(x, t) /\ SameFiles(x, t) /\ SameRole(x, t)
         /\ x.data = t.data /\ x.slaves = t.slaves
    <3> DEFINE e == s.off + 1
    <3>1. e \in Nat /\ c \in Backlogs /\ x = [t EXCEPT !.off = e, !.backlog = c]
      BY <2>1, <2>2, <2>9
    <3> HIDE DEF e
    <3>2. x \in ServerSet
      BY <3>1 DEF ServerSet
    <3>3. x.off = e /\ x.backlog = c /\ x.data = t.data /\ x.slaves = t.slaves
      BY <3>1 DEF ServerSet
    <3>4. SameIds(x, t) /\ SameFiles(x, t)
      BY <3>1 DEF ServerSet, SameIds, SameFiles
    <3>5. SameRole(x, t)
      BY <3>1 DEF ServerSet, SameRole
    <3> QED
      BY <3>2, <3>3, <3>4, <3>5 DEF e
  <2>13. s.backlog.on = TRUE
    BY <1>2, <2>2 DEF Backlogs, b
  <2>14. BacklogOK(x)
    <3>1. x.backlog.off + x.backlog.histlen = x.off + 1
      BY <2>2, <2>7, <2>9, <2>12, <2>5
    <3>2. x.backlog.histlen <= Len(x.data)
      BY <2>2, <2>3, <2>5, <2>9, <2>10, <2>12
    <3>3. Len(x.data) + 1 = Len(s.data) + 2
      BY <2>2, <2>10, <2>12
    <3>4. \A k \in 1..x.backlog.histlen :
             x.backlog.buf[Back(x.backlog.idx, k)] = x.data[Len(x.data) + 1 - k]
      <4>1. x.backlog.histlen = h /\ x.backlog.buf = buf /\ x.backlog.idx = idx
        BY <2>9, <2>12
      <4>2. x.data = Append(s.data, w)
        BY <2>12
      <4> SUFFICES ASSUME NEW k \in 1..h
                   PROVE  buf[Back(idx, k)] = x.data[Len(x.data) + 1 - k]
        BY <4>1, Zenon
      <4>3. Len(x.data) + 1 - k = Len(s.data) + 2 - k
        BY <3>3
      <4> QED
        BY <2>11, <4>2, <4>3
    <3> QED
      BY <3>1, <3>2, <3>4 DEF BacklogOK
  <2> QED
    BY <2>9, <2>12, <2>13, <2>14
<1> QED
  BY <1>1, <1>2

\* Where addReplyReplicationBacklog() reads.
LEMMA BackFirst ==
    ASSUME NEW i \in Slots, NEW h \in 0..repl_backlog_size, NEW t \in 0..h-1,
           NEW j, j = (i + (repl_backlog_size - h)) % repl_backlog_size
    PROVE  (j + t) % repl_backlog_size = Back(i, h - t)
<1>1. /\ repl_backlog_size \in Nat \ {0} /\ i \in Nat /\ i < repl_backlog_size /\ h \in Nat
      /\ t \in Nat /\ t < h /\ h <= repl_backlog_size
  BY ReplicationAssumption DEF Slots
<1>2. j = IF h <= i THEN i - h ELSE i - h + repl_backlog_size
  <2>1. CASE h <= i
    BY <1>1, <2>1
  <2>2. CASE ~(h <= i)
    BY <1>1, <2>2
  <2> QED
    BY <2>1, <2>2
<1>3. CASE h <= i
  BY <1>1, <1>2, <1>3 DEF Back
<1>4. CASE ~(h <= i) /\ h - t <= i
  <2>1. j + t = repl_backlog_size + (i - (h - t))
    BY <1>1, <1>2, <1>4
  <2>2. i - (h - t) \in Nat /\ i - (h - t) < repl_backlog_size
    BY <1>1, <1>4
  <2>3. (repl_backlog_size + (i - (h - t))) % repl_backlog_size = i - (h - t)
    BY <1>1, <2>2
  <2> QED
    BY <1>4, <2>1, <2>3 DEF Back
<1>5. CASE ~(h - t <= i)
  <2>1. j + t = i - (h - t) + repl_backlog_size /\ j + t \in Nat /\ j + t < repl_backlog_size
    BY <1>1, <1>2, <1>5
  <2>2. (j + t) % repl_backlog_size = j + t
    BY <1>1, <2>1
  <2> QED
    BY <1>5, <2>1, <2>2 DEF Back
<1> QED
  BY <1>3, <1>4, <1>5

\* The last N elements of a sequence.
LEMMA LastOnes ==
    ASSUME NEW d \in Seq(Writes), NEW N \in 0..Len(d),
           NEW q, q = [i \in 1..N |-> d[Len(d) - N + i]]
    PROVE  q \in Seq(Writes) /\ Len(q) = N /\ q = SubSeq(d, Len(d) - N + 1, Len(d))
<1> DEFINE n == Len(d)
           u == SubSeq(d, n - N + 1, n)
<1>1. n \in Nat /\ N \in Nat /\ N <= n
  OBVIOUS
<1>2. \A i \in 1..n : d[i] \in Writes
  OBVIOUS
<1> HIDE DEF n
<1>3. \A i \in 1..N : n - N + i \in 1..n
  BY <1>1
<1>4. \A i \in 1..N : d[n - N + i] \in Writes
  BY <1>2, <1>3
<1>5. q = [i \in 1..N |-> d[n - N + i]]
  BY DEF n
<1>6. q \in Seq(Writes) /\ Len(q) = N /\ \A i \in 1..N : q[i] = d[n - N + i]
  <2>1. q \in [1..N -> Writes] /\ \A i \in 1..N : q[i] = d[n - N + i]
    BY <1>4, <1>5
  <2> QED
    BY <1>1, <2>1
<1>7. n - N + 1 \in Int /\ n \in Int
  BY <1>1
<1>8. \A i \in (n - N + 1)..n : i \in 1..n
  BY <1>1
<1>9. /\ u \in Seq(Writes) /\ Len(u) = IF n - N + 1 <= n THEN n - (n - N + 1) + 1 ELSE 0
      /\ \A i \in 1..(n - (n - N + 1) + 1) : u[i] = d[(n - N + 1) + i - 1]
  <2> DEFINE a == n - N + 1
  <2> HIDE DEF a
  <2>1. a \in Int /\ \A i \in a..n : d[i] \in Writes
    BY <1>2, <1>7, <1>8 DEF a
  <2>2. /\ SubSeq(d, a, n) \in Seq(Writes)
        /\ Len(SubSeq(d, a, n)) = IF a <= n THEN n - a + 1 ELSE 0
        /\ \A i \in 1..n-a+1 : SubSeq(d, a, n)[i] = d[a + i - 1]
    BY <1>7, <2>1, SubSeqProperties
  <2> QED
    BY <2>2 DEF a
<1> HIDE DEF u
<1>10. Len(u) = N
  BY <1>1, <1>9
<1>11. n - (n - N + 1) + 1 = N /\ \A i \in 1..N : (n - N + 1) + i - 1 = n - N + i
  BY <1>1
<1>12. \A i \in 1..N : u[i] = d[n - N + i]
  BY <1>9, <1>11
<1>13. q = u
  BY <1>6, <1>9, <1>10, <1>12, SeqEqual
<1> QED
  BY <1>6, <1>13 DEF u, n

\* What is read is the end of the data set.
LEMMA FromFacts ==
    ASSUME NEW s \in ServerSet, BacklogOK(s), s.backlog.on, NEW offset \in Int,
           s.backlog.off <= offset, offset <= s.backlog.off + s.backlog.histlen,
           NEW q, q = BacklogFrom(s, offset)
    PROVE  /\ q \in Seq(Writes) /\ Len(q) = s.off + 1 - offset
           /\ Len(q) <= Len(s.data) /\ Len(q) <= s.backlog.histlen
           /\ q = SubSeq(s.data, Len(s.data) - Len(q) + 1, Len(s.data))
<1> DEFINE b == s.backlog
           N == b.histlen - (offset - b.off)
           first == (b.idx + (repl_backlog_size - b.histlen)) % repl_backlog_size
           n == Len(s.data)
           h == b.histlen
           o == b.off
           z == s.off
<1>1. /\ b.idx \in Slots /\ b.histlen \in 0..repl_backlog_size /\ b.off \in Nat
      /\ b.histlen \in Nat /\ s.data \in Seq(Writes) /\ n \in Nat /\ s.off \in Nat
  BY ReplicationAssumption DEF ServerSet, Backlogs
<1>2. b.off + b.histlen = s.off + 1 /\ b.histlen <= n
  BY DEF BacklogOK
<1>3. \A k \in 1..b.histlen : b.buf[Back(b.idx, k)] = s.data[n + 1 - k]
  BY DEF BacklogOK
<1>4. N \in Nat /\ N <= h /\ N <= n /\ N = s.off + 1 - offset /\ N = h - (offset - o)
  <2>1. /\ h \in Nat /\ o \in Nat /\ n \in Nat /\ z \in Nat
        /\ o <= offset /\ offset <= o + h /\ o + h = z + 1 /\ h <= n
    BY <1>1, <1>2
  <2>2. N = h - (offset - o)
    OBVIOUS
  <2> HIDE DEF h, o, n, z, N
  <2>3. N \in Nat /\ N <= h /\ N <= n /\ N = z + 1 - offset
    BY <2>1, <2>2
  <2> QED
    BY <2>2, <2>3 DEF z
<1>5. q = [i \in 1..N |-> b.buf[(first + (offset - b.off) + i - 1) % repl_backlog_size]]
  BY DEF BacklogFrom
<1> HIDE DEF N
<1>6. \A i \in 1..N : b.buf[(first + (offset - b.off) + i - 1) % repl_backlog_size] = s.data[n - N + i]
  <2> SUFFICES ASSUME NEW i \in 1..N
               PROVE  b.buf[(first + (offset - b.off) + i - 1) % repl_backlog_size] = s.data[n - N + i]
    OBVIOUS
  <2> DEFINE t == (offset - b.off) + i - 1
  <2>1. i \in Nat /\ 1 <= i /\ i <= N
    BY <1>4
  <2>2. t \in 0..b.histlen-1 /\ t \in Nat /\ b.histlen - t = N + 1 - i
    <3>1. /\ h \in Nat /\ o \in Nat /\ N \in Nat /\ N <= h /\ N = h - (offset - o)
          /\ t = (offset - o) + i - 1
      BY <1>1, <1>4
    <3> HIDE DEF h, o, t
    <3>2. t \in 0..h-1 /\ t \in Nat /\ h - t = N + 1 - i
      BY <2>1, <3>1
    <3> QED
      BY <3>2 DEF h
  <2>3. (first + t) % repl_backlog_size = Back(b.idx, b.histlen - t)
    <3> HIDE DEF t, b
    <3> QED
      BY <1>1, <2>2, BackFirst
  <2>4. first \in Int
    BY <1>1, ReplicationAssumption, SMTT(20) DEF Slots
  <2>5. first + (offset - b.off) + i - 1 = first + t
    <3> HIDE DEF first, b
    <3> QED
      BY <1>1, <2>1, <2>4
  <2>6. N + 1 - i \in 1..b.histlen /\ n + 1 - (N + 1 - i) = n - N + i
    <3>1. h \in Nat /\ n \in Nat /\ N \in Nat /\ N <= h
      BY <1>1, <1>4
    <3> HIDE DEF h, n
    <3>2. N + 1 - i \in 1..h /\ n + 1 - (N + 1 - i) = n - N + i
      BY <2>1, <3>1
    <3> QED
      BY <3>2 DEF h
  <2>7. b.buf[Back(b.idx, N + 1 - i)] = s.data[n + 1 - (N + 1 - i)]
    BY <1>3, <2>6
  <2> HIDE DEF t, first, n, b
  <2> QED
    BY <2>2, <2>3, <2>5, <2>6, <2>7
<1> HIDE DEF first
<1>7. q = [i \in 1..N |-> s.data[n - N + i]]
  BY <1>5, <1>6, Zenon
<1>8. s.data \in Seq(Writes) /\ N \in 0..Len(s.data)
  BY <1>1, <1>4
<1>9. q \in Seq(Writes) /\ Len(q) = N /\ q = SubSeq(s.data, Len(s.data) - N + 1, Len(s.data))
  BY <1>7, <1>8, LastOnes
<1> QED
  BY <1>4, <1>9
-----------------------------------------------------------------------------
(* One server. *)

\* The backlog, the role and the position in the stream agree, and nobody copies
\* from a server without a backlog.
ServerOK(s) ==
    /\ s \in ServerSet /\ BacklogOK(s)
    /\ (s.masterhost = None) <=> (s.repl_state = "none")
    /\ (s.master # None) <=> (s.repl_state = "connected")
    /\ s.repl_state = "transfer" =>
          ~s.backlog.on /\ s.cached_master = None /\ s.master_initial # None
    /\ s.repl_state = "connected" =>
          /\ s.backlog.on /\ s.cached_master = None
          /\ s.master.reploff = s.off /\ s.master.replid = s.replid
    /\ s.cached_master # None =>
          /\ s.cached_master.reploff = s.off /\ s.cached_master.replid = s.replid
          /\ s.masterhost # None
    /\ Slaves(s) # {} => s.backlog.on

LEMMA WithoutFacts ==
    ASSUME NEW s \in ServerSet, NEW G, NEW x, x = Without(s, G)
    PROVE  /\ x \in ServerSet
           /\ SameIds(x, s) /\ SameFiles(x, s) /\ SameRole(x, s)
           /\ x.data = s.data /\ x.off = s.off /\ x.backlog = s.backlog
           /\ \A r \in Servers : x.slaves[r] = IF r \in G THEN "none" ELSE s.slaves[r]
<1> DEFINE f == [r \in Servers |-> IF r \in G THEN "none" ELSE s.slaves[r]]
<1>1. f \in [Servers -> {"none", "wait_start", "wait_end", "online"}]
  BY DEF ServerSet
<1>2. \A r \in Servers : f[r] = IF r \in G THEN "none" ELSE s.slaves[r]
  OBVIOUS
<1>3. x = [s EXCEPT !.slaves = f]
  BY DEF Without
<1> HIDE DEF f
<1> QED
  BY <1>1, <1>2, <1>3 DEF ServerSet, SameIds, SameFiles, SameRole

LEMMA WithoutOK ==
    ASSUME NEW s, ServerOK(s), NEW G, NEW x, x = Without(s, G)
    PROVE  ServerOK(x)
<1>1. s \in ServerSet
  BY DEF ServerOK
<1>2. /\ x \in ServerSet
      /\ SameIds(x, s) /\ SameFiles(x, s) /\ SameRole(x, s)
      /\ x.data = s.data /\ x.off = s.off /\ x.backlog = s.backlog
      /\ \A r \in Servers : x.slaves[r] = IF r \in G THEN "none" ELSE s.slaves[r]
  BY <1>1, WithoutFacts
<1>3. BacklogOK(x)
  BY <1>2 DEF ServerOK, BacklogOK
<1>4. Slaves(x) # {} => Slaves(s) # {}
  BY <1>2 DEF Slaves
<1> QED
  BY <1>2, <1>3, <1>4 DEF ServerOK, SameIds, SameRole

LEMMA DisconnectFacts ==
    ASSUME NEW s \in ServerSet, NEW x, x = disconnectSlaves(s)
    PROVE  /\ x \in ServerSet
           /\ SameIds(x, s) /\ SameFiles(x, s) /\ SameRole(x, s)
           /\ x.data = s.data /\ x.off = s.off /\ x.backlog = s.backlog
           /\ \A r \in Servers : x.slaves[r] = "none"
<1>1. x = Without(s, Slaves(s))
  BY DEF disconnectSlaves
<1>2. \A r \in Servers : (IF r \in Slaves(s) THEN "none" ELSE s.slaves[r]) = "none"
  BY DEF Slaves
<1> QED
  BY <1>1, <1>2, WithoutFacts

LEMMA SnapshotType ==
    ASSUME NEW s \in ServerSet
    PROVE  /\ Snapshot(s) \in Snapshots /\ Snapshot(s) # None
           /\ Snapshot(s).data = s.data /\ Snapshot(s).off = s.off
           /\ Snapshot(s).replid = s.replid /\ Snapshot(s).info = HasSaveInfo(s)
<1>1. HasSaveInfo(s) \in BOOLEAN
  BY DEF HasSaveInfo, ServerSet, Backlogs
<1> DEFINE i == HasSaveInfo(s)
<1> HIDE DEF i
<1>2. Snapshot(s) = [data |-> s.data, info |-> i, replid |-> s.replid, off |-> s.off]
  BY DEF Snapshot, i
<1>3. i \in BOOLEAN
  BY <1>1 DEF i
<1>4. /\ Snapshot(s) \in Snapshots
      /\ Snapshot(s).data = s.data /\ Snapshot(s).off = s.off
      /\ Snapshot(s).replid = s.replid /\ Snapshot(s).info = i
  BY <1>2, <1>3 DEF ServerSet, Snapshots
<1> QED
  BY <1>4, ReplicationAssumption DEF i

SlaveStates == {"wait_start", "wait_end", "online"}

LEMMA JoinedFacts ==
    ASSUME NEW s \in ServerSet, NEW r \in Servers,
           NEW state \in SlaveStates, NEW x, x = Joined(s, r, state)
    PROVE  /\ x \in ServerSet
           /\ SameIds(x, s) /\ SameFiles(x, s) /\ SameRole(x, s)
           /\ x.data = s.data /\ x.off = s.off /\ x.backlog = s.backlog
           /\ x.slaves[r] = state
           /\ \A q \in Servers : q # r => x.slaves[q] = s.slaves[q]
<1> DEFINE f == [s.slaves EXCEPT ![r] = state]
<1>1. f \in [Servers -> {"none", "wait_start", "wait_end", "online"}]
  BY DEF ServerSet, SlaveStates
<1>2. f[r] = state /\ \A q \in Servers : q # r => f[q] = s.slaves[q]
  BY DEF ServerSet
<1>3. x = [s EXCEPT !.slaves = f]
  BY DEF Joined
<1> HIDE DEF f
<1> QED
  BY <1>1, <1>2, <1>3 DEF ServerSet, SameIds, SameFiles, SameRole

\* A server that has a backlog may get replicas.
LEMMA JoinedOK ==
    ASSUME NEW s, ServerOK(s), s.backlog.on, NEW r \in Servers,
           NEW state \in SlaveStates, NEW x, x = Joined(s, r, state)
    PROVE  ServerOK(x)
<1>1. s \in ServerSet
  BY DEF ServerOK
<1>2. /\ x \in ServerSet
      /\ SameIds(x, s) /\ SameFiles(x, s) /\ SameRole(x, s)
      /\ x.data = s.data /\ x.off = s.off /\ x.backlog = s.backlog
  BY <1>1, JoinedFacts
<1>3. BacklogOK(x)
  BY <1>2 DEF ServerOK, BacklogOK
<1> QED
  BY <1>2, <1>3 DEF ServerOK, SameIds, SameRole

\* What JoinedFacts says of x.
HasJoined(x, s, r, state) ==
    /\ x \in ServerSet
    /\ SameIds(x, s) /\ SameFiles(x, s) /\ SameRole(x, s)
    /\ x.data = s.data /\ x.off = s.off /\ x.backlog = s.backlog
    /\ x.slaves[r] = state
    /\ \A q \in Servers : q # r => x.slaves[q] = s.slaves[q]

LEMMA JoinedAs ==
    ASSUME NEW s \in ServerSet, NEW r \in Servers,
           NEW state \in SlaveStates, NEW x, x = Joined(s, r, state)
    PROVE  HasJoined(x, s, r, state)
<1>1. /\ x \in ServerSet
      /\ SameIds(x, s) /\ SameFiles(x, s) /\ SameRole(x, s)
      /\ x.data = s.data /\ x.off = s.off /\ x.backlog = s.backlog
      /\ x.slaves[r] = state
      /\ \A q \in Servers : q # r => x.slaves[q] = s.slaves[q]
  BY JoinedFacts, SMTT(30)
<1> QED
  BY <1>1, Zenon DEF HasJoined

LEMMA SameRoles ==
    ASSUME NEW x, NEW y, NEW z, SameRole(x, y), SameRole(y, z)
    PROVE  SameRole(x, z)
  BY DEF SameRole

LEMMA StartBgsaveFacts ==
    ASSUME NEW s \in ServerSet, NEW x, x = startBgsaveForReplication(s)
    PROVE  /\ x \in ServerSet /\ SameIds(x, s) /\ SameRole(x, s) /\ x.disk = s.disk
           /\ x.data = s.data /\ x.off = s.off /\ x.backlog = s.backlog
           /\ x.bgsave = IF Waiting(s, "wait_start") = {} THEN s.bgsave ELSE Snapshot(s)
           /\ \A r \in Servers : x.slaves[r] = IF s.slaves[r] = "wait_start" THEN "wait_end"
                                               ELSE s.slaves[r]
<1> DEFINE f == [r \in Servers |-> IF s.slaves[r] = "wait_start" THEN "wait_end" ELSE s.slaves[r]]
           n == Snapshot(s)
<1>1. f \in [Servers -> {"none", "wait_start", "wait_end", "online"}]
  BY DEF ServerSet
<1>2. \A r \in Servers : f[r] = IF s.slaves[r] = "wait_start" THEN "wait_end" ELSE s.slaves[r]
  OBVIOUS
<1>3. n \in Snapshots
  BY SnapshotType
<1>4. CASE Waiting(s, "wait_start") = {}
  <2>1. x = s
    BY <1>4 DEF startBgsaveForReplication
  <2>2. \A r \in Servers : s.slaves[r] # "wait_start"
    BY <1>4 DEF Waiting
  <2> QED
    BY <1>4, <2>1, <2>2 DEF SameIds, SameRole
<1>5. CASE Waiting(s, "wait_start") # {}
  <2>1. x = [s EXCEPT !.bgsave = n, !.slaves = f]
    BY <1>5 DEF startBgsaveForReplication
  <2> HIDE DEF n, f
  <2>2. /\ x \in ServerSet /\ SameIds(x, s) /\ SameRole(x, s) /\ x.disk = s.disk
        /\ x.data = s.data /\ x.off = s.off /\ x.backlog = s.backlog
        /\ x.bgsave = n /\ x.slaves = f
    BY <1>1, <1>3, <2>1, ZenonT(20) DEF ServerSet, SameIds, SameRole
  <2> QED
    BY <1>2, <1>5, <2>2 DEF n
<1> QED
  BY <1>4, <1>5

LEMMA StartBgsaveOK ==
    ASSUME NEW s, ServerOK(s), NEW x, x = startBgsaveForReplication(s)
    PROVE  ServerOK(x)
<1>1. s \in ServerSet
  BY DEF ServerOK
<1>2. /\ x \in ServerSet /\ SameIds(x, s) /\ SameRole(x, s)
      /\ x.data = s.data /\ x.off = s.off /\ x.backlog = s.backlog
      /\ \A r \in Servers : x.slaves[r] = IF s.slaves[r] = "wait_start" THEN "wait_end"
                                          ELSE s.slaves[r]
  BY <1>1, StartBgsaveFacts
<1>3. BacklogOK(x)
  BY <1>2 DEF ServerOK, BacklogOK
<1>4. Slaves(x) # {} => Slaves(s) # {}
  BY <1>2 DEF Slaves
<1> QED
  BY <1>2, <1>3, <1>4 DEF ServerOK, SameIds, SameRole

LEMMA OverFacts ==
    ASSUME NEW s \in ServerSet, s.bgsave # None, NEW ok \in BOOLEAN, NEW x, x = Over(s, ok)
    PROVE  /\ x \in ServerSet /\ SameIds(x, s) /\ SameRole(x, s)
           /\ x.data = s.data /\ x.off = s.off /\ x.backlog = s.backlog
           /\ x.disk = (IF ok THEN s.bgsave ELSE s.disk) /\ x.bgsave = None
           /\ \A r \in Servers : x.slaves[r] = IF s.slaves[r] = "wait_end"
                                               THEN IF ok THEN "online" ELSE "none"
                                               ELSE s.slaves[r]
<1> DEFINE f == [r \in Servers |-> IF s.slaves[r] = "wait_end" THEN "online" ELSE s.slaves[r]]
           t == [s EXCEPT !.bgsave = None, !.disk = IF ok THEN s.bgsave ELSE s.disk, !.slaves = f]
<1>1. f \in [Servers -> {"none", "wait_start", "wait_end", "online"}]
  BY DEF ServerSet
<1>2. \A r \in Servers : f[r] = IF s.slaves[r] = "wait_end" THEN "online" ELSE s.slaves[r]
  OBVIOUS
<1>3. x = Without(t, Failed(s, ok))
  BY DEF Over
<1> HIDE DEF f
<1> DEFINE k == IF ok THEN s.bgsave ELSE s.disk
<1>4. k \in Snapshots
  BY DEF ServerSet
<1> HIDE DEF k
<1>5. t = [s EXCEPT !.bgsave = None, !.disk = k, !.slaves = f]
  BY DEF k
<1> HIDE DEF t
<1>6. /\ t \in ServerSet /\ SameIds(t, s) /\ SameRole(t, s)
      /\ t.data = s.data /\ t.off = s.off /\ t.backlog = s.backlog
      /\ t.disk = k /\ t.bgsave = None /\ t.slaves = f
  BY <1>1, <1>4, <1>5 DEF ServerSet, SameIds, SameRole
<1>7. /\ x \in ServerSet
      /\ SameIds(x, t) /\ SameFiles(x, t) /\ SameRole(x, t)
      /\ x.data = t.data /\ x.off = t.off /\ x.backlog = t.backlog
      /\ \A r \in Servers : x.slaves[r] = IF r \in Failed(s, ok) THEN "none" ELSE t.slaves[r]
  BY <1>3, <1>6, WithoutFacts
<1>8. \A r \in Servers : x.slaves[r] = IF s.slaves[r] = "wait_end"
                                       THEN IF ok THEN "online" ELSE "none"
                                       ELSE s.slaves[r]
  BY <1>2, <1>6, <1>7 DEF Failed, Waiting
<1> QED
  BY <1>6, <1>7, <1>8 DEF SameIds, SameFiles, SameRole, k

LEMMA OverOK ==
    ASSUME NEW s, ServerOK(s), s.bgsave # None, NEW ok \in BOOLEAN, NEW x, x = Over(s, ok)
    PROVE  ServerOK(x)
<1>1. s \in ServerSet
  BY DEF ServerOK
<1>2. /\ x \in ServerSet /\ SameIds(x, s) /\ SameRole(x, s)
      /\ x.data = s.data /\ x.off = s.off /\ x.backlog = s.backlog
      /\ \A r \in Servers : x.slaves[r] = IF s.slaves[r] = "wait_end"
                                          THEN IF ok THEN "online" ELSE "none"
                                          ELSE s.slaves[r]
  BY <1>1, OverFacts
<1>3. BacklogOK(x)
  BY <1>2 DEF ServerOK, BacklogOK
<1>4. Slaves(x) # {} => Slaves(s) # {}
  BY <1>2 DEF Slaves
<1> QED
  BY <1>2, <1>3, <1>4 DEF ServerOK, SameIds, SameRole

LEMMA ShiftFacts ==
    ASSUME NEW s \in ServerSet, NEW id \in Nat, NEW x, x = shiftReplicationId(s, id)
    PROVE  /\ x \in ServerSet /\ SameFiles(x, s) /\ SameRole(x, s) /\ x.slaves = s.slaves
           /\ x.data = s.data /\ x.off = s.off /\ x.backlog = s.backlog
           /\ x.replid = id /\ x.replid2 = s.replid /\ x.second_replid_offset = s.off + 1
<1> DEFINE b == s.replid
           c == s.off + 1
<1>1. b \in Nat \cup {None} /\ c \in Int
  BY DEF ServerSet
<1>2. x = [s EXCEPT !.replid2 = b, !.second_replid_offset = c, !.replid = id]
  BY DEF shiftReplicationId
<1>3. b = s.replid /\ c = s.off + 1
  OBVIOUS
<1> HIDE DEF b, c
<1>4. x \in ServerSet
  BY <1>1, <1>2 DEF ServerSet
<1>5. SameFiles(x, s) /\ SameRole(x, s) /\ x.slaves = s.slaves
  BY <1>2 DEF ServerSet, SameFiles, SameRole
<1>6. /\ x.data = s.data /\ x.off = s.off /\ x.backlog = s.backlog
      /\ x.replid = id /\ x.replid2 = b /\ x.second_replid_offset = c
  BY <1>2 DEF ServerSet
<1> QED
  BY <1>3, <1>4, <1>5, <1>6

LEMMA ClearFacts ==
    ASSUME NEW s \in ServerSet, NEW x, x = clearReplicationId2(s)
    PROVE  /\ x \in ServerSet /\ SameFiles(x, s) /\ SameRole(x, s) /\ x.slaves = s.slaves
           /\ x.data = s.data /\ x.off = s.off /\ x.backlog = s.backlog
           /\ x.replid = s.replid /\ x.replid2 = None
<1> DEFINE b == None
           c == -1
<1>1. b \in Nat \cup {None} /\ c \in Int
  OBVIOUS
<1>2. x = [s EXCEPT !.replid2 = b, !.second_replid_offset = c]
  BY DEF clearReplicationId2
<1>3. b = None
  OBVIOUS
<1> HIDE DEF b, c
<1> QED
  BY <1>1, <1>2, <1>3, ZenonT(20) DEF ServerSet, SameFiles, SameRole

\* A write of a client: s with one more write, and what becomes of it.
Written(s, w, t, x) ==
    /\ ServerOK(x) /\ t \in ServerSet /\ t.slaves = s.slaves
    /\ SameIds(x, s) /\ SameFiles(x, s) /\ SameRole(x, s) /\ x.slaves = s.slaves
    /\ x.data = Append(s.data, w) /\ x.backlog.on = s.backlog.on
    /\ x.off = IF s.backlog.on THEN s.off + 1 ELSE s.off

LEMMA WriteOK ==
    ASSUME NEW s, ServerOK(s), s.masterhost = None, NEW w \in Writes,
           NEW t, t = [s EXCEPT !.data = Append(@, w)],
           NEW x, x = feedReplicationBacklog(t, w)
    PROVE  Written(s, w, t, x)
<1> USE DEF Written
<1>1. s \in ServerSet /\ BacklogOK(s)
  BY DEF ServerOK
<1> DEFINE d == Append(s.data, w)
<1>2. d \in Seq(Writes)
  BY <1>1 DEF ServerSet
<1>3. t = [s EXCEPT !.data = d]
  OBVIOUS
<1> HIDE DEF d
<1>4. /\ t \in ServerSet /\ t.data = d /\ t.backlog = s.backlog /\ t.off = s.off
      /\ SameIds(t, s) /\ SameFiles(t, s) /\ SameRole(t, s) /\ t.slaves = s.slaves
  BY <1>1, <1>2, <1>3 DEF ServerSet, SameIds, SameFiles, SameRole
<1>5. /\ x \in ServerSet /\ BacklogOK(x) /\ x.backlog.on = s.backlog.on
      /\ SameIds(x, t) /\ SameFiles(x, t) /\ SameRole(x, t)
      /\ x.data = t.data /\ x.slaves = t.slaves
      /\ x.off = IF s.backlog.on THEN s.off + 1 ELSE s.off
  <2>1. t.data = Append(s.data, w)
    BY <1>4 DEF d
  <2>2. t \in ServerSet /\ t.backlog = s.backlog /\ t.off = s.off
    BY <1>4
  <2>4. Fed(s, t, x)
    BY <1>1, <2>1, <2>2, FeedFacts, Zenon
  <2> QED
    BY <2>4 DEF Fed
<1>6. /\ SameIds(x, s) /\ SameFiles(x, s) /\ SameRole(x, s) /\ x.slaves = s.slaves
      /\ x.data = Append(s.data, w)
  BY <1>4, <1>5 DEF SameIds, SameFiles, SameRole, d
<1>7. /\ x.repl_state = "none" /\ x.master = None /\ x.cached_master = None
      /\ x.masterhost = None
  BY <1>6 DEF ServerOK, SameRole
<1>8. Slaves(x) # {} => x.backlog.on
  BY <1>5, <1>6 DEF ServerOK, Slaves
<1> QED
  BY <1>4, <1>5, <1>6, <1>7, <1>8 DEF ServerOK

\* A write from the master.
LEMMA ApplyOK ==
    ASSUME NEW s, ServerOK(s), s.repl_state = "connected", NEW w \in Writes,
           NEW x, x = Apply(s, w)
    PROVE  /\ ServerOK(x)
           /\ SameIds(x, s) /\ SameFiles(x, s) /\ x.slaves = s.slaves
           /\ x.masterhost = s.masterhost /\ x.repl_state = s.repl_state
           /\ x.data = Append(s.data, w) /\ x.off = s.off + 1 /\ x.backlog.on
<1>1. /\ s \in ServerSet /\ BacklogOK(s) /\ s.master \in Positions /\ s.backlog.on
      /\ s.master.reploff = s.off /\ s.master.replid = s.replid /\ s.off \in Nat
      /\ s.replid \in Nat
  BY DEF ServerOK, ServerSet
<1> DEFINE d == Append(s.data, w)
           p == [s.master EXCEPT !.reploff = s.master.reploff + 1]
           t == [s EXCEPT !.data = d, !.master = p]
<1>2. d \in Seq(Writes)
  BY <1>1 DEF ServerSet
<1>3. p \in Positions /\ p.reploff = s.off + 1 /\ p.replid = s.replid
  BY <1>1 DEF Positions
<1>4. p # None
  BY <1>3, ReplicationAssumption
<1>5. x = feedReplicationBacklog(t, w)
  BY DEF Apply
<1> HIDE DEF d, p
<1>6. /\ t \in ServerSet /\ t.data = d /\ t.backlog = s.backlog /\ t.off = s.off
      /\ SameIds(t, s) /\ SameFiles(t, s) /\ t.slaves = s.slaves
      /\ t.masterhost = s.masterhost /\ t.repl_state = s.repl_state /\ t.master = p
      /\ t.cached_master = s.cached_master
  BY <1>1, <1>2, <1>3 DEF ServerSet, SameIds, SameFiles
<1> HIDE DEF t
<1>7. /\ x \in ServerSet /\ BacklogOK(x) /\ x.backlog.on = s.backlog.on
      /\ SameIds(x, t) /\ SameFiles(x, t) /\ SameRole(x, t)
      /\ x.data = t.data /\ x.slaves = t.slaves
      /\ x.off = IF s.backlog.on THEN s.off + 1 ELSE s.off
  <2>1. t.data = Append(s.data, w)
    BY <1>6 DEF d
  <2>2. t \in ServerSet /\ t.backlog = s.backlog /\ t.off = s.off
    BY <1>6
  <2>3. s \in ServerSet /\ BacklogOK(s)
    BY <1>1
  <2>4. Fed(s, t, x)
    BY <1>5, <2>1, <2>2, <2>3, FeedFacts, Zenon
  <2> QED
    BY <2>4 DEF Fed
<1>8. /\ SameIds(x, s) /\ SameFiles(x, s) /\ x.slaves = s.slaves
      /\ x.masterhost = s.masterhost /\ x.repl_state = s.repl_state
      /\ x.data = Append(s.data, w) /\ x.off = s.off + 1 /\ x.backlog.on
      /\ x.master = p /\ x.cached_master = s.cached_master
  BY <1>1, <1>6, <1>7 DEF SameIds, SameFiles, SameRole, d
<1> QED
  BY <1>3, <1>4, <1>7, <1>8 DEF ServerOK, SameIds

\* The master of a first replica begins a history of its own.
LEMMA ReadyOK ==
    ASSUME NEW s, ServerOK(s), s.masterhost = None \/ s.repl_state = "connected",
           NEW id \in Nat, NEW x, x = Ready(s, id)
    PROVE  /\ ServerOK(x) /\ SameFiles(x, s) /\ SameRole(x, s) /\ x.slaves = s.slaves
           /\ x.data = s.data /\ x.off = s.off /\ x.backlog.on
           /\ ~Fresh(s) => x = s /\ s.backlog.on
           /\ Fresh(s) => x.replid = id /\ x.replid2 = None /\ s.masterhost = None
<1>1. s \in ServerSet
  BY DEF ServerOK
<1>2. CASE ~Fresh(s)
  <2>1. x = s
    BY <1>2 DEF Ready
  <2>2. s.backlog.on
    BY <1>2 DEF Fresh, ServerOK
  <2> QED
    BY <1>2, <2>1, <2>2 DEF SameFiles, SameRole
<1>3. CASE Fresh(s)
  <2> DEFINE t == changeReplicationId(s, id)
             u == clearReplicationId2(t)
  <2>1. x = createReplicationBacklog(u)
    BY <1>3 DEF Ready
  <2>2. /\ t \in ServerSet /\ SameFiles(t, s) /\ SameRole(t, s) /\ t.slaves = s.slaves
        /\ t.data = s.data /\ t.off = s.off /\ t.replid = id
    BY <1>1 DEF ServerSet, SameFiles, SameRole, changeReplicationId
  <2> HIDE DEF t
  <2>3. /\ u \in ServerSet /\ SameFiles(u, t) /\ SameRole(u, t) /\ u.slaves = t.slaves
        /\ u.data = t.data /\ u.off = t.off /\ u.replid = t.replid /\ u.replid2 = None
    BY <2>2, ClearFacts
  <2> HIDE DEF u
  <2>4. /\ x \in ServerSet /\ BacklogOK(x) /\ x.backlog.on
        /\ SameIds(x, u) /\ SameFiles(x, u) /\ SameRole(x, u)
        /\ x.data = u.data /\ x.off = u.off /\ x.slaves = u.slaves
    BY <2>1, <2>3, CreateFacts
  <2>5. /\ SameFiles(x, s) /\ SameRole(x, s) /\ x.slaves = s.slaves
        /\ x.data = s.data /\ x.off = s.off /\ x.replid = id /\ x.replid2 = None
    BY <2>2, <2>3, <2>4 DEF SameIds, SameFiles, SameRole
  <2>6. s.masterhost = None
    BY <1>3 DEF Fresh, ServerOK
  <2>7. /\ x.repl_state = "none" /\ x.master = None /\ x.cached_master = None
        /\ x.masterhost = None
    BY <2>5, <2>6 DEF ServerOK, SameRole
  <2>8. ServerOK(x)
    BY <2>4, <2>7 DEF ServerOK
  <2> QED
    BY <1>3, <2>4, <2>5, <2>6, <2>8
<1> QED
  BY <1>2, <1>3

\* +CONTINUE.
LEMMA ContinueOK ==
    ASSUME NEW s, ServerOK(s), s.repl_state = "psync", s.cached_master # None,
           NEW msg \in Replies, NEW x, x = Continue(s, msg)
    PROVE  /\ ServerOK(x) /\ SameFiles(x, s) /\ x.masterhost = s.masterhost
           /\ x.repl_state = "connected" /\ x.data = s.data /\ x.off = s.off
           /\ x.replid = msg.replid /\ x.backlog.on
           /\ s.cached_master.replid = s.replid
           /\ msg.replid = s.replid =>
                 /\ x.replid2 = s.replid2 /\ x.second_replid_offset = s.second_replid_offset
                 /\ x.slaves = s.slaves
           /\ msg.replid # s.replid =>
                 /\ x.replid2 = s.replid /\ x.second_replid_offset = s.off + 1
                 /\ \A r \in Servers : x.slaves[r] = "none"
<1>1. /\ s \in ServerSet /\ BacklogOK(s) /\ s.cached_master \in Positions
      /\ s.cached_master.reploff = s.off /\ s.cached_master.replid = s.replid
      /\ s.masterhost # None /\ s.off \in Nat /\ s.replid \in Nat /\ msg.replid \in Nat
  BY DEF ServerOK, ServerSet, Replies
<1> DEFINE new == msg.replid # s.replid
           t0 == shiftReplicationId(s, msg.replid)
           t == IF new THEN disconnectSlaves(t0) ELSE s
           p == [replid |-> msg.replid, reploff |-> s.off]
           u == [t EXCEPT !.master = p, !.cached_master = None, !.repl_state = "connected"]
<1>2. x = IF u.backlog.on THEN u ELSE createReplicationBacklog(u)
  BY <1>1 DEF Continue, shiftReplicationId
<1>3. p \in Positions /\ p.replid = msg.replid /\ p.reploff = s.off
  BY <1>1 DEF Positions
<1>4. p # None
  BY <1>3, ReplicationAssumption
<1>5. /\ t \in ServerSet /\ SameFiles(t, s) /\ SameRole(t, s) /\ t.replid = msg.replid
      /\ t.data = s.data /\ t.off = s.off /\ t.backlog = s.backlog
      /\ ~new => t.replid2 = s.replid2 /\ t.second_replid_offset = s.second_replid_offset
                 /\ t.slaves = s.slaves
      /\ new => t.replid2 = s.replid /\ t.second_replid_offset = s.off + 1
                /\ \A r \in Servers : t.slaves[r] = "none"
  <2>1. CASE ~new
    <3>1. t = s
      BY <2>1
    <3> QED
      BY <1>1, <2>1, <3>1 DEF SameFiles, SameRole
  <2>2. CASE new
    <3>1. /\ t0 \in ServerSet /\ SameFiles(t0, s) /\ SameRole(t0, s) /\ t0.replid = msg.replid
          /\ t0.data = s.data /\ t0.off = s.off /\ t0.backlog = s.backlog
          /\ t0.replid2 = s.replid /\ t0.second_replid_offset = s.off + 1
      <4> DEFINE id == msg.replid
      <4>1. s \in ServerSet /\ id \in Nat /\ t0 = shiftReplicationId(s, id)
        BY <1>1
      <4> HIDE DEF t0, id
      <4>2. /\ t0 \in ServerSet /\ SameFiles(t0, s) /\ SameRole(t0, s) /\ t0.replid = id
            /\ t0.data = s.data /\ t0.off = s.off /\ t0.backlog = s.backlog
            /\ t0.replid2 = s.replid /\ t0.second_replid_offset = s.off + 1
        BY <4>1, ShiftFacts
      <4> QED
        BY <4>2 DEF id
    <3>2. t = disconnectSlaves(t0)
      BY <2>2
    <3> HIDE DEF t, t0
    <3>3. /\ t \in ServerSet
          /\ SameIds(t, t0) /\ SameFiles(t, t0) /\ SameRole(t, t0)
          /\ t.data = t0.data /\ t.off = t0.off /\ t.backlog = t0.backlog
          /\ \A r \in Servers : t.slaves[r] = "none"
      BY <3>1, <3>2, DisconnectFacts
    <3> QED
      BY <2>2, <3>1, <3>3 DEF SameIds, SameFiles, SameRole
  <2> QED
    BY <2>1, <2>2
<1> HIDE DEF t, p
<1>6. /\ u \in ServerSet /\ SameFiles(u, t) /\ SameIds(u, t)
      /\ u.data = t.data /\ u.off = t.off /\ u.backlog = t.backlog /\ u.slaves = t.slaves
      /\ u.masterhost = t.masterhost /\ u.master = p /\ u.cached_master = None
      /\ u.repl_state = "connected"
  BY <1>3, <1>5 DEF ServerSet, SameFiles, SameIds
<1> HIDE DEF u
<1>7. /\ x \in ServerSet /\ BacklogOK(x) /\ x.backlog.on
      /\ SameIds(x, u) /\ SameFiles(x, u) /\ SameRole(x, u)
      /\ x.data = u.data /\ x.off = u.off /\ x.slaves = u.slaves
  <2>1. CASE u.backlog.on
    <3>1. x = u
      BY <1>2, <2>1
    <3>2. BacklogOK(x)
      <4>1. BacklogOK(s)
        BY <1>1
      <4>2. x.backlog = s.backlog /\ x.data = s.data /\ x.off = s.off
        BY <1>5, <1>6, <3>1
      <4> QED
        BY <4>1, <4>2, BacklogSame, Zenon
    <3> QED
      BY <1>6, <2>1, <3>1, <3>2 DEF SameFiles, SameIds, SameRole
  <2>2. CASE ~u.backlog.on
    <3>1. x = createReplicationBacklog(u)
      BY <1>2, <2>2
    <3> QED
      BY <1>6, <3>1, CreateFacts
  <2> QED
    BY <2>1, <2>2
<1>8. /\ SameFiles(x, s) /\ x.masterhost = s.masterhost
      /\ x.repl_state = "connected" /\ x.data = s.data /\ x.off = s.off
      /\ x.replid = msg.replid /\ x.master = p /\ x.cached_master = None
      /\ x.replid2 = t.replid2 /\ x.second_replid_offset = t.second_replid_offset
      /\ x.slaves = t.slaves
  BY <1>5, <1>6, <1>7 DEF SameFiles, SameIds, SameRole
<1>9. ServerOK(x)
  BY <1>1, <1>3, <1>4, <1>7, <1>8 DEF ServerOK
<1> QED
  BY <1>1, <1>5, <1>7, <1>8, <1>9

\* +FULLRESYNC.
LEMMA FullResyncOK ==
    ASSUME NEW s, ServerOK(s), s.repl_state = "psync", NEW msg \in Replies,
           NEW x, x = FullResync(s, msg)
    PROVE  /\ ServerOK(x) /\ SameIds(x, s) /\ SameFiles(x, s)
           /\ x.masterhost = s.masterhost /\ x.repl_state = "transfer"
           /\ x.data = s.data /\ x.off = s.off /\ ~x.backlog.on
           /\ x.master = None /\ x.cached_master = None
           /\ x.master_initial.replid = msg.replid /\ x.master_initial.reploff = msg.off
           /\ \A r \in Servers : x.slaves[r] = "none"
<1>1. s \in ServerSet /\ s.master = None /\ s.masterhost # None
  BY DEF ServerOK
<1> DEFINE t == disconnectSlaves(s)
           p == [replid |-> msg.replid, reploff |-> msg.off]
<1>2. p \in Positions /\ p.replid = msg.replid /\ p.reploff = msg.off
  BY DEF Replies, Positions
<1>3. p # None
  BY <1>2, ReplicationAssumption
<1>4. x = [t EXCEPT !.master_initial = p, !.cached_master = None, !.repl_state = "transfer",
                    !.backlog = NoBacklog]
  BY DEF FullResync
<1> HIDE DEF t, p
<1>5. /\ t \in ServerSet
      /\ SameIds(t, s) /\ SameFiles(t, s) /\ SameRole(t, s)
      /\ t.data = s.data /\ t.off = s.off /\ t.backlog = s.backlog
      /\ \A r \in Servers : t.slaves[r] = "none"
  BY <1>1, DisconnectFacts DEF t
<1> DEFINE b == NoBacklog
<1>6. b \in Backlogs /\ ~b.on
  BY EmptyBacklog
<1>7. x = [t EXCEPT !.master_initial = p, !.cached_master = None, !.repl_state = "transfer",
                    !.backlog = b]
  BY <1>4
<1> HIDE DEF b
<1>8. /\ x \in ServerSet /\ x.backlog = b /\ x.master_initial = p /\ x.cached_master = None
      /\ x.repl_state = "transfer" /\ x.masterhost = t.masterhost /\ x.master = t.master
  BY <1>2, <1>5, <1>6, <1>7, ZenonT(20) DEF ServerSet
<1>9. /\ SameIds(x, t) /\ SameFiles(x, t) /\ x.data = t.data /\ x.off = t.off
      /\ x.slaves = t.slaves
  BY <1>5, <1>7 DEF ServerSet, SameIds, SameFiles
<1>10. /\ SameIds(x, s) /\ SameFiles(x, s) /\ x.data = s.data /\ x.off = s.off
       /\ x.masterhost = s.masterhost /\ x.master = None
       /\ \A r \in Servers : x.slaves[r] = "none"
  BY <1>1, <1>5, <1>8, <1>9 DEF SameIds, SameFiles, SameRole
<1>11. ~x.backlog.on /\ BacklogOK(x) /\ Slaves(x) = {}
  BY <1>6, <1>8, <1>10 DEF BacklogOK, Slaves
<1>12. ServerOK(x)
  BY <1>1, <1>3, <1>8, <1>10, <1>11 DEF ServerOK
<1> QED
  BY <1>2, <1>8, <1>10, <1>11, <1>12

\* The snapshot is loaded.
LEMMA LoadSnapshotOK ==
    ASSUME NEW s, ServerOK(s), s.repl_state = "transfer", NEW snap \in Snapshots,
           NEW x, x = LoadSnapshot(s, snap)
    PROVE  /\ ServerOK(x) /\ x.disk = snap /\ x.bgsave = s.bgsave
           /\ x.masterhost = s.masterhost /\ x.repl_state = "connected"
           /\ x.data = snap.data /\ x.off = s.master_initial.reploff /\ x.backlog.on
           /\ x.replid = s.master_initial.replid /\ x.replid2 = None
           /\ x.slaves = s.slaves
<1>1. /\ s \in ServerSet /\ s.master_initial \in Positions /\ s.master_initial # None
      /\ ~s.backlog.on /\ s.cached_master = None /\ s.masterhost # None
  BY DEF ServerOK, ServerSet
<1> DEFINE p == s.master_initial
           d == snap.data
           i == s.master_initial.replid
           o == s.master_initial.reploff
           t == [s EXCEPT !.data = d, !.disk = snap, !.master = p, !.master_initial = None,
                          !.repl_state = "connected", !.replid = i, !.off = o]
           u == clearReplicationId2(t)
<1>2. d \in Seq(Writes) /\ i \in Nat /\ o \in Nat /\ p \in Positions /\ p # None
      /\ p.replid = i /\ p.reploff = o
  BY <1>1 DEF Positions, Snapshots
<1>3. x = IF u.backlog.on THEN u ELSE createReplicationBacklog(u)
  BY DEF LoadSnapshot
<1> HIDE DEF p, d, i, o, u
<1>4. t \in ServerSet
  BY <1>1, <1>2, ZenonT(20) DEF ServerSet
<1>5. /\ t.data = d /\ t.disk = snap /\ t.master = p /\ t.repl_state = "connected"
      /\ t.replid = i /\ t.off = o /\ t.bgsave = s.bgsave /\ t.masterhost = s.masterhost
      /\ t.slaves = s.slaves /\ t.backlog = s.backlog /\ t.cached_master = s.cached_master
  BY <1>1 DEF ServerSet
<1> HIDE DEF t
<1>6. /\ u \in ServerSet /\ SameFiles(u, t) /\ SameRole(u, t) /\ u.slaves = t.slaves
      /\ u.data = t.data /\ u.off = t.off /\ u.backlog = t.backlog
      /\ u.replid = t.replid /\ u.replid2 = None
  BY <1>4, ClearFacts DEF u
<1>7. x = createReplicationBacklog(u)
  BY <1>1, <1>3, <1>5, <1>6
<1>8. /\ x \in ServerSet /\ BacklogOK(x) /\ x.backlog.on
      /\ SameIds(x, u) /\ SameFiles(x, u) /\ SameRole(x, u)
      /\ x.data = u.data /\ x.off = u.off /\ x.slaves = u.slaves
  BY <1>6, <1>7, CreateFacts
<1>9. /\ x.disk = snap /\ x.bgsave = s.bgsave /\ x.masterhost = s.masterhost
      /\ x.repl_state = "connected" /\ x.data = d /\ x.off = o /\ x.replid = i
      /\ x.replid2 = None /\ x.slaves = s.slaves /\ x.master = p /\ x.cached_master = None
  BY <1>1, <1>5, <1>6, <1>8 DEF SameIds, SameFiles, SameRole
<1>10. ServerOK(x)
  BY <1>1, <1>2, <1>8, <1>9 DEF ServerOK
<1> QED
  BY <1>8, <1>9, <1>10 DEF d, i, o

\* The link to the master is gone.
LEMMA UnlinkOK ==
    ASSUME NEW s, ServerOK(s), NEW x, x = Unlink(s)
    PROVE  /\ ServerOK(x) /\ SameIds(x, s) /\ SameFiles(x, s)
           /\ x.masterhost = s.masterhost /\ x.repl_state \in {"none", "connect"}
           /\ x.data = s.data /\ x.off = s.off /\ x.backlog = s.backlog
           /\ x.slaves = s.slaves /\ x.master = None
           /\ x.cached_master = IF s.master = None THEN s.cached_master ELSE s.master
<1>1. s \in ServerSet
  BY DEF ServerOK
<1> DEFINE c == IF s.master = None THEN s.cached_master ELSE s.master
           e == IF s.masterhost = None THEN s.repl_state ELSE "connect"
<1>2. x = [s EXCEPT !.cached_master = c, !.master = None, !.repl_state = e]
  BY DEF Unlink
<1>3. c \in Positions \cup {None} /\ e \in {"none", "connect"} /\ (e = "none" <=> s.masterhost = None)
  BY <1>1 DEF ServerOK, ServerSet
<1>4. c # None => c.reploff = s.off /\ c.replid = s.replid /\ s.masterhost # None
  BY DEF ServerOK
<1> HIDE DEF c, e
<1>5. /\ x \in ServerSet /\ SameIds(x, s) /\ SameFiles(x, s) /\ x.masterhost = s.masterhost
      /\ x.repl_state = e /\ x.master = None /\ x.cached_master = c
  <2>1. x \in ServerSet
    BY <1>1, <1>2, <1>3, ZenonT(40) DEF ServerSet
  <2>2. SameIds(x, s) /\ SameFiles(x, s) /\ x.masterhost = s.masterhost
    BY <1>1, <1>2, ZenonT(40) DEF ServerSet, SameIds, SameFiles
  <2>3. x.repl_state = e /\ x.master = None /\ x.cached_master = c
    BY <1>1, <1>2, ZenonT(40) DEF ServerSet
  <2> QED
    BY <2>1, <2>2, <2>3
<1>6. x.data = s.data /\ x.off = s.off /\ x.backlog = s.backlog /\ x.slaves = s.slaves
  BY <1>1, <1>2 DEF ServerSet
<1>7. BacklogOK(x) /\ (Slaves(x) # {} => x.backlog.on)
  BY <1>6 DEF ServerOK, BacklogOK, Slaves
<1>8. ServerOK(x)
  BY <1>3, <1>4, <1>5, <1>6, <1>7 DEF ServerOK, SameIds
<1> QED
  BY <1>3, <1>5, <1>6, <1>8 DEF c

\* The snapshot could not be loaded.
LEMMA LoadedNothingOK ==
    ASSUME NEW s, ServerOK(s), s.repl_state = "transfer", NEW snap \in Snapshots,
           NEW x, x = LoadedNothing(s, snap)
    PROVE  /\ ServerOK(x) /\ SameIds(x, s) /\ x.disk = snap /\ x.bgsave = s.bgsave
           /\ x.masterhost = s.masterhost /\ x.repl_state \in {"none", "connect"}
           /\ x.slaves = s.slaves /\ x.off = s.off /\ ~x.backlog.on
           /\ x.master = None /\ x.cached_master = None
<1> DEFINE t == Unlink(s)
           d == <<>>
<1>1. /\ ServerOK(t) /\ SameIds(t, s) /\ SameFiles(t, s)
      /\ t.masterhost = s.masterhost /\ t.repl_state \in {"none", "connect"}
      /\ t.data = s.data /\ t.off = s.off /\ t.backlog = s.backlog
      /\ t.slaves = s.slaves /\ t.master = None
      /\ t.cached_master = IF s.master = None THEN s.cached_master ELSE s.master
  BY UnlinkOK
<1>2. x = [t EXCEPT !.data = d, !.disk = snap]
  BY DEF LoadedNothing
<1>3. d \in Seq(Writes)
  OBVIOUS
<1> HIDE DEF t, d
<1>4. s.master = None /\ s.cached_master = None /\ ~s.backlog.on
  BY DEF ServerOK
<1>5. t \in ServerSet
  BY <1>1 DEF ServerOK
<1>6. /\ x \in ServerSet /\ SameIds(x, t) /\ SameRole(x, t) /\ x.disk = snap
      /\ x.bgsave = t.bgsave /\ x.slaves = t.slaves /\ x.off = t.off /\ x.backlog = t.backlog
  <2>1. x \in ServerSet
    BY <1>2, <1>3, <1>5, ZenonT(40) DEF ServerSet
  <2>2. SameIds(x, t) /\ SameRole(x, t)
    BY <1>2, <1>5, ZenonT(40) DEF ServerSet, SameIds, SameRole
  <2>3. /\ x.disk = snap /\ x.bgsave = t.bgsave /\ x.slaves = t.slaves
        /\ x.off = t.off /\ x.backlog = t.backlog
    BY <1>2, <1>5, ZenonT(40) DEF ServerSet
  <2> QED
    BY <2>1, <2>2, <2>3
<1>7. /\ SameIds(x, s) /\ x.bgsave = s.bgsave /\ x.masterhost = s.masterhost
      /\ x.repl_state = t.repl_state /\ x.slaves = s.slaves /\ x.off = s.off
      /\ ~x.backlog.on /\ x.master = None /\ x.cached_master = None
  BY <1>1, <1>4, <1>6 DEF SameIds, SameFiles, SameRole
<1>8. BacklogOK(x) /\ Slaves(x) = {}
  BY <1>4, <1>7 DEF BacklogOK, Slaves, ServerOK
<1>9. ServerOK(x)
  BY <1>1, <1>6, <1>7, <1>8 DEF ServerOK
<1> QED
  BY <1>1, <1>6, <1>7, <1>9

\* REPLICAOF.
LEMMA BecomesReplicaOK ==
    ASSUME NEW s, ServerOK(s), NEW m \in Servers, NEW x, x = BecomesReplica(s, m)
    PROVE  /\ ServerOK(x) /\ SameIds(x, s) /\ SameFiles(x, s)
           /\ x.masterhost = m /\ x.repl_state = "connect" /\ x.master = None
           /\ x.data = s.data /\ x.off = s.off /\ x.backlog = s.backlog
           /\ s.masterhost = None => x.cached_master # None
           /\ s.masterhost # None =>
                 x.cached_master = IF s.master = None THEN s.cached_master ELSE s.master
           /\ \A r \in Servers : x.slaves[r] = "none"
<1> DEFINE t == Unlink(s)
           u == disconnectSlaves(t)
           p == [replid |-> s.replid, reploff |-> s.off]
           c == IF s.masterhost = None THEN p ELSE u.cached_master
<1>1. /\ ServerOK(t) /\ SameIds(t, s) /\ SameFiles(t, s)
      /\ t.data = s.data /\ t.off = s.off /\ t.backlog = s.backlog
      /\ t.master = None /\ t.masterhost = s.masterhost
      /\ t.cached_master = IF s.master = None THEN s.cached_master ELSE s.master
  BY UnlinkOK
<1>2. x = [u EXCEPT !.masterhost = m, !.repl_state = "connect", !.cached_master = c]
  BY DEF BecomesReplica
<1>3. s \in ServerSet /\ m # None
  BY ReplicationAssumption DEF ServerOK
<1>4. p \in Positions /\ p.replid = s.replid /\ p.reploff = s.off
  BY <1>3 DEF ServerSet, Positions
<1>5. p # None
  BY <1>4, ReplicationAssumption
<1> HIDE DEF t, p
<1>6. t \in ServerSet
  BY <1>1 DEF ServerOK
<1>7. /\ u \in ServerSet
      /\ SameIds(u, t) /\ SameFiles(u, t) /\ SameRole(u, t)
      /\ u.data = t.data /\ u.off = t.off /\ u.backlog = t.backlog
      /\ \A r \in Servers : u.slaves[r] = "none"
  BY <1>6, DisconnectFacts
<1> HIDE DEF u
<1>8. c \in Positions \cup {None}
  BY <1>4, <1>7 DEF ServerSet
<1>9. c # None => c.reploff = s.off /\ c.replid = s.replid
  BY <1>1, <1>4, <1>7 DEF ServerOK, SameRole, SameIds
<1>10. /\ s.masterhost = None => c # None
       /\ s.masterhost # None =>
             c = IF s.master = None THEN s.cached_master ELSE s.master
  BY <1>1, <1>5, <1>7 DEF SameRole
<1> HIDE DEF c
<1>11. /\ x \in ServerSet /\ SameIds(x, u) /\ SameFiles(x, u) /\ x.masterhost = m
       /\ x.repl_state = "connect" /\ x.master = u.master /\ x.cached_master = c
  <2>1. u \in ServerSet /\ m \in Servers \cup {None}
    BY <1>7
  <2>2. x \in ServerSet
    BY <1>2, <1>8, <2>1 DEF ServerSet
  <2>3. /\ SameIds(x, u) /\ SameFiles(x, u) /\ x.masterhost = m
        /\ x.repl_state = "connect" /\ x.master = u.master /\ x.cached_master = c
    BY <1>2, <2>1 DEF ServerSet, SameIds, SameFiles
  <2> QED
    BY <2>2, <2>3
<1>12. x.data = u.data /\ x.off = u.off /\ x.backlog = u.backlog /\ x.slaves = u.slaves
  BY <1>2, <1>7 DEF ServerSet
<1>13. /\ SameIds(x, s) /\ SameFiles(x, s) /\ x.master = None
       /\ x.data = s.data /\ x.off = s.off /\ x.backlog = s.backlog
       /\ \A r \in Servers : x.slaves[r] = "none"
  BY <1>1, <1>7, <1>11, <1>12 DEF SameIds, SameFiles, SameRole
<1>14. BacklogOK(x) /\ Slaves(x) = {}
  BY <1>13 DEF ServerOK, BacklogOK, Slaves
<1>15. ServerOK(x)
  BY <1>3, <1>9, <1>11, <1>13, <1>14 DEF ServerOK, SameIds
<1> QED
  BY <1>10, <1>11, <1>13, <1>15

\* x is s as a master with the ID id.
Promoted(x, s, id) ==
    /\ ServerOK(x) /\ SameFiles(x, s)
    /\ x.masterhost = None /\ x.repl_state = "none"
    /\ x.master = None /\ x.cached_master = None
    /\ x.data = s.data /\ x.off = s.off /\ x.backlog = s.backlog
    /\ x.replid = id /\ x.replid2 = s.replid /\ x.second_replid_offset = s.off + 1
    /\ \A r \in Servers : x.slaves[r] = "none"

\* REPLICAOF NO ONE.
LEMMA BecomesMasterOK ==
    ASSUME NEW s, ServerOK(s), NEW id \in Nat, NEW x, x = BecomesMaster(s, id)
    PROVE  Promoted(x, s, id)
<1> DEFINE t == shiftReplicationId(s, id)
           u == disconnectSlaves(t)
<1>1. s \in ServerSet
  BY DEF ServerOK
<1>2. /\ t \in ServerSet /\ SameFiles(t, s) /\ SameRole(t, s) /\ t.slaves = s.slaves
      /\ t.data = s.data /\ t.off = s.off /\ t.backlog = s.backlog
      /\ t.replid = id /\ t.replid2 = s.replid /\ t.second_replid_offset = s.off + 1
  BY <1>1, ShiftFacts
<1>3. x = [u EXCEPT !.masterhost = None, !.master = None, !.cached_master = None,
                    !.repl_state = "none"]
  BY DEF BecomesMaster
<1> HIDE DEF t
<1>4. /\ u \in ServerSet
      /\ SameIds(u, t) /\ SameFiles(u, t) /\ SameRole(u, t)
      /\ u.data = t.data /\ u.off = t.off /\ u.backlog = t.backlog
      /\ \A r \in Servers : u.slaves[r] = "none"
  BY <1>2, DisconnectFacts
<1> HIDE DEF u
<1>5. /\ x \in ServerSet /\ SameIds(x, u) /\ SameFiles(x, u) /\ x.masterhost = None
      /\ x.repl_state = "none" /\ x.master = None /\ x.cached_master = None
  <2>1. x \in ServerSet
    BY <1>3, <1>4, ZenonT(40) DEF ServerSet
  <2>2. SameIds(x, u) /\ SameFiles(x, u)
    BY <1>3, <1>4, ZenonT(40) DEF ServerSet, SameIds, SameFiles
  <2>3. /\ x.masterhost = None /\ x.repl_state = "none" /\ x.master = None
        /\ x.cached_master = None
    BY <1>3, <1>4, ZenonT(40) DEF ServerSet
  <2> QED
    BY <2>1, <2>2, <2>3
<1>6. x.data = u.data /\ x.off = u.off /\ x.backlog = u.backlog /\ x.slaves = u.slaves
  BY <1>3, <1>4 DEF ServerSet
<1>7. /\ SameFiles(x, s) /\ x.data = s.data /\ x.off = s.off /\ x.backlog = s.backlog
      /\ x.replid = id /\ x.replid2 = s.replid /\ x.second_replid_offset = s.off + 1
      /\ \A r \in Servers : x.slaves[r] = "none"
  BY <1>2, <1>4, <1>5, <1>6 DEF SameIds, SameFiles
<1>8. BacklogOK(x) /\ Slaves(x) = {}
  BY <1>7 DEF ServerOK, BacklogOK, Slaves
<1>9. ServerOK(x)
  BY <1>5, <1>8 DEF ServerOK
<1> QED
  BY <1>5, <1>7, <1>9, Zenon DEF Promoted

\* A start, from dump.rdb.
StartsAs(x, k, h, id) ==
    /\ ServerOK(x) /\ x.disk = k /\ x.bgsave = None /\ x.masterhost = h
    /\ x.repl_state \in {"none", "connect"} /\ ~x.backlog.on /\ x.replid2 = None
    /\ x.data = k.data /\ x.master = None
    /\ \A r \in Servers : x.slaves[r] = "none"
    /\ (h # None /\ k.info) =>
          x.cached_master # None /\ x.replid = k.replid /\ x.off = k.off
    /\ ~(h # None /\ k.info) => x.cached_master = None /\ x.replid = id

LEMMA StartedOK ==
    ASSUME NEW k \in Snapshots, NEW h \in Servers \cup {None},
           NEW s, s.disk = k, s.masterhost = h, NEW id \in Nat, NEW x, x = Started(s, id)
    PROVE  StartsAs(x, k, h, id)
<1> USE DEF StartsAs
<1> DEFINE on == h # None /\ k.info
           i == IF on THEN k.replid ELSE id
           o == IF on THEN k.off ELSE 0
           p == [replid |-> k.replid, reploff |-> k.off]
           c == IF on THEN p ELSE None
           e == IF h = None THEN "none" ELSE "connect"
           d == k.data
           b == NoBacklog
           f == NoSlaves
           z == -1
<1>1. x = [data |-> d, disk |-> k, masterhost |-> h, replid |-> i, off |-> o,
           replid2 |-> None, second_replid_offset |-> z, backlog |-> b,
           master |-> None, master_initial |-> None, slaves |-> f, bgsave |-> None,
           cached_master |-> c, repl_state |-> e]
  BY DEF Started
<1>2. d \in Seq(Writes) /\ k.off \in Nat /\ k.replid \in Nat
  BY DEF Snapshots
<1>3. i \in Nat /\ o \in Nat
  BY <1>2
<1>4. on => p \in Positions /\ p.replid = k.replid /\ p.reploff = k.off
  BY <1>2 DEF Positions
<1>5. on => p # None
  BY <1>4, ReplicationAssumption
<1>6. c \in Positions \cup {None} /\ (c # None => c.reploff = o /\ c.replid = i /\ h # None)
  BY <1>4
<1>7. on => c # None /\ i = k.replid /\ o = k.off
  BY <1>5
<1>8. ~on => c = None /\ i = id
  OBVIOUS
<1>9. /\ e \in {"none", "connect"} /\ (e = "none" <=> h = None)
      /\ e \in {"none", "connect", "psync", "transfer", "connected"}
  OBVIOUS
<1>10. b \in Backlogs /\ ~b.on
  BY EmptyBacklog
<1>11. /\ f \in [Servers -> {"none", "wait_start", "wait_end", "online"}]
       /\ \A r \in Servers : f[r] = "none"
  BY DEF NoSlaves
<1>12. z \in Int
  OBVIOUS
<1> HIDE DEF on, i, o, p, c, e, d, b, f, z
<1>13. x \in ServerSet
  BY <1>1, <1>2, <1>3, <1>6, <1>9, <1>10, <1>11, <1>12 DEF ServerSet
<1>14. /\ x.disk = k /\ x.bgsave = None /\ x.masterhost = h /\ x.repl_state = e
       /\ x.replid2 = None /\ x.data = d /\ x.slaves = f /\ x.backlog = b
       /\ x.cached_master = c /\ x.replid = i /\ x.off = o /\ x.master = None
  BY <1>1
<1>15. BacklogOK(x) /\ Slaves(x) = {}
  BY <1>10, <1>11, <1>14 DEF BacklogOK, Slaves
<1>16. ServerOK(x)
  BY <1>6, <1>9, <1>13, <1>14, <1>15 DEF ServerOK
<1> QED
  BY <1>7, <1>8, <1>9, <1>10, <1>11, <1>14, <1>16 DEF on, d

\* The backlog of a master without replicas is given back.
LEMMA FreeBacklogOK ==
    ASSUME NEW s, ServerOK(s), s.masterhost = None, Slaves(s) = {}, NEW id \in Nat,
           NEW x, x = freeReplicationBacklog(s, id)
    PROVE  /\ ServerOK(x) /\ SameFiles(x, s) /\ SameRole(x, s) /\ x.slaves = s.slaves
           /\ x.data = s.data /\ x.off = s.off /\ ~x.backlog.on
           /\ x.replid = id /\ x.replid2 = None
<1> DEFINE t == changeReplicationId(s, id)
           u == clearReplicationId2(t)
           b == NoBacklog
<1>1. s \in ServerSet
  BY DEF ServerOK
<1>2. /\ t \in ServerSet /\ SameFiles(t, s) /\ SameRole(t, s) /\ t.slaves = s.slaves
      /\ t.data = s.data /\ t.off = s.off /\ t.replid = id
  BY <1>1 DEF ServerSet, SameFiles, SameRole, changeReplicationId
<1>3. x = [u EXCEPT !.backlog = b]
  BY DEF freeReplicationBacklog
<1> HIDE DEF t
<1>4. /\ u \in ServerSet /\ SameFiles(u, t) /\ SameRole(u, t) /\ u.slaves = t.slaves
      /\ u.data = t.data /\ u.off = t.off /\ u.replid = t.replid /\ u.replid2 = None
  BY <1>2, ClearFacts
<1>5. b \in Backlogs /\ ~b.on
  BY EmptyBacklog
<1> HIDE DEF u, b
<1>6. /\ x \in ServerSet /\ SameFiles(x, u) /\ SameRole(x, u) /\ x.slaves = u.slaves
      /\ x.data = u.data /\ x.off = u.off /\ x.replid = u.replid /\ x.replid2 = u.replid2
      /\ x.backlog = b
  BY <1>3, <1>4, <1>5 DEF ServerSet, SameFiles, SameRole
<1>7. /\ SameFiles(x, s) /\ SameRole(x, s) /\ x.slaves = s.slaves
      /\ x.data = s.data /\ x.off = s.off /\ ~x.backlog.on
      /\ x.replid = id /\ x.replid2 = None
  BY <1>2, <1>4, <1>5, <1>6 DEF SameFiles, SameRole
<1>8. BacklogOK(x) /\ Slaves(x) = {}
  BY <1>7 DEF BacklogOK, Slaves
<1>9. ServerOK(x)
  BY <1>6, <1>7, <1>8 DEF ServerOK, SameRole
<1> QED
  BY <1>7, <1>9

\* BGSAVE.
LEMMA SaveOK ==
    ASSUME NEW s, ServerOK(s), NEW x, x = [s EXCEPT !.bgsave = Snapshot(s)]
    PROVE  /\ ServerOK(x) /\ SameIds(x, s) /\ SameRole(x, s) /\ x.disk = s.disk
           /\ x.bgsave = Snapshot(s) /\ x.slaves = s.slaves
           /\ x.data = s.data /\ x.off = s.off /\ x.backlog = s.backlog
<1> DEFINE n == Snapshot(s)
<1>1. s \in ServerSet
  BY DEF ServerOK
<1>2. n \in Snapshots
  BY <1>1, SnapshotType
<1> HIDE DEF n
<1>3. x = [s EXCEPT !.bgsave = n]
  BY DEF n
<1>4. /\ x \in ServerSet /\ SameIds(x, s) /\ SameRole(x, s) /\ x.disk = s.disk
      /\ x.bgsave = n /\ x.slaves = s.slaves
      /\ x.data = s.data /\ x.off = s.off /\ x.backlog = s.backlog
  BY <1>1, <1>2, <1>3 DEF ServerSet, SameIds, SameRole
<1>5. BacklogOK(x) /\ Slaves(x) = Slaves(s)
  BY <1>4 DEF ServerOK, BacklogOK, Slaves
<1>6. ServerOK(x)
  BY <1>4, <1>5 DEF ServerOK, SameIds, SameRole
<1> QED
  BY <1>4, <1>6 DEF n
-----------------------------------------------------------------------------
(* A server and its link. *)

\* What is on its way goes on from a data set: from that of the snapshot that
\* comes first, or from the one the replica has.
Flowing(s, l) ==
    \/ l.reply # None /\ (l.reply.type = "full" => l.rdb # None)
    \/ l.reply = None /\ s.repl_state = "transfer" /\ l.rdb # None
    \/ s.repl_state = "connected"
BaseOff(s, l) == IF l.rdb # None THEN l.rdb.off ELSE s.off
BaseData(s, l) == IF l.rdb # None THEN l.rdb.data ELSE s.data

\* A link has what the state of the replica r calls for.
LinkOK(r, s, l) ==
    /\ l \in LinkSet
    /\ l.peer = None <=> s.repl_state \in {"none", "connect"}
    /\ l.peer = None => l.reply = None /\ l.rdb = None /\ l.stream = <<>>
    /\ l.peer # None => l.peer = s.masterhost /\ l.peer # r
    /\ l.reply # None => s.repl_state = "psync"
    /\ s.repl_state = "psync" /\ l.reply = None => l.rdb = None /\ l.stream = <<>>
    /\ l.reply # None /\ l.reply.type = "continue" => l.rdb = None /\ s.cached_master # None
    /\ l.reply # None /\ l.reply.type = "full" =>
          IF l.rdb = None THEN l.stream = <<>> ELSE l.reply.off = l.rdb.off
    /\ s.repl_state = "transfer" =>
          IF l.rdb = None THEN l.stream = <<>> ELSE s.master_initial.reploff = l.rdb.off
    /\ s.repl_state = "connected" => l.rdb = None

\* What the master m, as x, has of its replica r is what r's end is in.
Follows(m, x, r, s, l) ==
    /\ x.slaves[r] # "none" => l.peer = m
    /\ x.slaves[r] = "wait_start" => s.repl_state = "psync" /\ l.reply = None
    /\ x.slaves[r] = "wait_end" => l.rdb # None /\ l.rdb = x.bgsave
    /\ x.slaves[r] \in {"wait_end", "online"} =>
          Flowing(s, l) /\ BaseOff(s, l) + Len(l.stream) = x.off

Counts == [ids : Nat, writes : Nat, changes : Nat, faults : Nat, saves : Nat]

\* The inductive invariant about one server, one link, and about a master and a
\* replica.
IInv ==
    /\ scenario \in Scenarios /\ used \in Counts
    /\ srv \in [Running -> ServerSet] /\ link \in [Running -> LinkSet]
    /\ \A r \in Running :
          /\ srv[r].masterhost \in Running \cup {None} /\ Slaves(srv[r]) \subseteq Running
          /\ ServerOK(srv[r]) /\ LinkOK(r, srv[r], link[r])
    /\ \A m, r \in Running : Follows(m, srv[m], r, srv[r], link[r])

LEMMA RunningServers == ASSUME scenario \in Scenarios PROVE Running \subseteq Servers
  BY ReplicationAssumption DEF Running

\* Nothing of what Follows() looks at has changed.
LEMMA FollowsSame ==
    ASSUME NEW m, NEW x, NEW r, NEW s, NEW l, Follows(m, x, r, s, l),
           NEW y, y.slaves[r] = x.slaves[r], y.bgsave = x.bgsave, y.off = x.off,
           NEW t, t.repl_state = s.repl_state, t.off = s.off
    PROVE  Follows(m, y, r, t, l)
  BY DEF Follows, Flowing, BaseOff

LEMMA FollowsFed ==
    ASSUME NEW m, NEW x, NEW r, NEW s \in ServerSet, NEW l \in LinkSet, Follows(m, x, r, s, l),
           x.slaves[r] \in {"wait_end", "online"}, NEW w \in Writes,
           NEW y, y.slaves[r] = x.slaves[r], y.bgsave = x.bgsave, y.off = x.off + 1,
           NEW k \in LinkSet, k.peer = l.peer, k.reply = l.reply, k.rdb = l.rdb,
           k.stream = Append(l.stream, w)
    PROVE  Follows(m, y, r, s, k)
<1>1. Flowing(s, l) /\ BaseOff(s, l) + Len(l.stream) = x.off
  BY DEF Follows
<1>2. Flowing(s, k) /\ BaseOff(s, k) = BaseOff(s, l)
  BY <1>1 DEF Flowing, BaseOff
<1>3. Len(k.stream) = Len(l.stream) + 1 /\ Len(l.stream) \in Nat
  BY DEF LinkSet
<1>4. BaseOff(s, l) \in Nat
  BY DEF BaseOff, ServerSet, LinkSet, Snapshots
<1>5. BaseOff(s, k) + Len(k.stream) = y.off
  BY <1>1, <1>2, <1>3, <1>4
<1> QED
  BY <1>2, <1>5 DEF Follows

LEMMA FollowsNone ==
    ASSUME NEW m, NEW x, NEW r, NEW s, NEW l, x.slaves[r] = "none"
    PROVE  Follows(m, x, r, s, l)
  BY DEF Follows

\* A server is not its own replica, and has at most one master.
LEMMA OneMaster ==
    ASSUME IInv, NEW r \in Running
    PROVE  /\ srv[r].slaves[r] = "none"
           /\ \A m \in Running : srv[m].slaves[r] # "none" =>
                 link[r].peer = m /\ \A n \in Running : n # m => srv[n].slaves[r] = "none"
<1>1. \A m \in Running : srv[m].slaves[r] # "none" => link[r].peer = m
  BY DEF IInv, Follows
<1>2. Running \subseteq Servers /\ None \notin Servers
  BY RunningServers, ReplicationAssumption DEF IInv
<1>3. link[r].peer # None => link[r].peer # r
  BY DEF IInv, LinkOK
<1> QED
  BY <1>1, <1>2, <1>3

\* A write that is passed on to the replicas of m.
LEMMA StreamFacts ==
    ASSUME NEW l \in LinkSet, NEW q \in Seq(Writes), NEW k, k = [l EXCEPT !.stream = q]
    PROVE  /\ k \in LinkSet /\ k.peer = l.peer /\ k.reply = l.reply /\ k.rdb = l.rdb
           /\ k.stream = q
  BY DEF LinkSet

LEMMA FeedLinksFacts ==
    ASSUME scenario \in Scenarios, NEW f \in [Running -> LinkSet], NEW s, NEW w \in Writes,
           NEW g, g = FeedLinks(f, s, w)
    PROVE  /\ g \in [Running -> LinkSet]
           /\ \A r \in Running :
                 /\ g[r].peer = f[r].peer /\ g[r].reply = f[r].reply /\ g[r].rdb = f[r].rdb
                 /\ s.slaves[r] \in {"wait_end", "online"} => g[r].stream = Append(f[r].stream, w)
                 /\ s.slaves[r] \notin {"wait_end", "online"} => g[r] = f[r]
<1>1. g = [r \in Running |-> IF s.slaves[r] \in {"wait_end", "online"}
                             THEN [f[r] EXCEPT !.stream = Append(f[r].stream, w)] ELSE f[r]]
  BY DEF FeedLinks
<1>2. ASSUME NEW r \in Running
      PROVE  /\ g[r] \in LinkSet
             /\ g[r].peer = f[r].peer /\ g[r].reply = f[r].reply /\ g[r].rdb = f[r].rdb
             /\ s.slaves[r] \in {"wait_end", "online"} => g[r].stream = Append(f[r].stream, w)
             /\ s.slaves[r] \notin {"wait_end", "online"} => g[r] = f[r]
  <2> DEFINE q == Append(f[r].stream, w)
  <2>1. f[r] \in LinkSet
    OBVIOUS
  <2>2. q \in Seq(Writes)
    BY <2>1 DEF LinkSet
  <2>3. CASE s.slaves[r] \in {"wait_end", "online"}
    <3>1. g[r] = [f[r] EXCEPT !.stream = q]
      BY <1>1, <2>3
    <3> HIDE DEF q
    <3>2. /\ g[r] \in LinkSet /\ g[r].peer = f[r].peer /\ g[r].reply = f[r].reply
          /\ g[r].rdb = f[r].rdb /\ g[r].stream = q
      BY <2>1, <2>2, <3>1, StreamFacts
    <3> QED
      BY <2>3, <3>2 DEF q
  <2>4. CASE s.slaves[r] \notin {"wait_end", "online"}
    <3>1. g[r] = f[r]
      BY <1>1, <2>4
    <3> QED
      BY <2>1, <2>4, <3>1
  <2> QED
    BY <2>3, <2>4
<1>3. g \in [Running -> LinkSet]
  BY <1>1, <1>2
<1> QED
  BY <1>2, <1>3

\* A link that goes on with one write more than before is as good as it was.
LEMMA LinkOKFed ==
    ASSUME NEW r, NEW s, NEW l, LinkOK(r, s, l), Flowing(s, l),
           NEW k \in LinkSet, k.peer = l.peer, k.reply = l.reply, k.rdb = l.rdb
    PROVE  LinkOK(r, s, k) /\ Flowing(s, k) /\ BaseOff(s, k) = BaseOff(s, l)
  BY DEF LinkOK, Flowing, BaseOff
-----------------------------------------------------------------------------
(* What the steps do, server by server and link by link. *)

LEMMA OneChanged ==
    ASSUME NEW S, NEW T, NEW f \in [S -> T], NEW m \in S, NEW x \in T,
           NEW g, g = [f EXCEPT ![m] = x]
    PROVE  g \in [S -> T] /\ g[m] = x /\ \A q \in S : q # m => g[q] = f[q]
  OBVIOUS

LEMMA StepKeepsIInv ==
    ASSUME IInv, scenario' = scenario, used' \in Counts,
           srv' \in [Running -> ServerSet], link' \in [Running -> LinkSet],
           \A r \in Running :
              /\ srv'[r].masterhost \in Running \cup {None} /\ Slaves(srv'[r]) \subseteq Running
              /\ ServerOK(srv'[r]) /\ LinkOK(r, srv'[r], link'[r]),
           \A m, r \in Running : Follows(m, srv'[m], r, srv'[r], link'[r])
    PROVE  IInv'
<1>1. Running' = Running
  BY DEF Running
<1> QED
  BY <1>1 DEF IInv

\* Only the server m has changed.
OnlyServer(m) ==
    srv' \in [Running -> ServerSet] /\ \A q \in Running : q # m => srv'[q] = srv[q]

\* The write w has been passed on to the replicas of m.
FedLinks(m, w) ==
    \A r \in Running \ {m} :
        /\ link'[r].peer = link[r].peer /\ link'[r].reply = link[r].reply
        /\ link'[r].rdb = link[r].rdb
        /\ srv[m].slaves[r] \in {"wait_end", "online"} =>
              link'[r].stream = Append(link[r].stream, w)
        /\ srv[m].slaves[r] \notin {"wait_end", "online"} => link'[r] = link[r]

\* A write in the data set of m and on its way to m's replicas.
LEMMA FeedKeeps ==
    ASSUME IInv, NEW m \in Running, NEW w \in Writes, NEW s, s = srv[m], NEW x, x = srv'[m],
           scenario' = scenario, used' \in Counts, OnlyServer(m), ServerOK(x),
           x.masterhost = s.masterhost, x.slaves = s.slaves, x.bgsave = s.bgsave,
           s.backlog.on => x.off = s.off + 1,
           link' \in [Running -> LinkSet], FedLinks(m, w), LinkOK(m, x, link'[m]),
           \A n \in Running : Follows(n, srv[n], m, x, link'[m])
    PROVE  IInv'
<1>2. \A r \in Running :
          /\ srv[r].masterhost \in Running \cup {None} /\ Slaves(srv[r]) \subseteq Running
          /\ ServerOK(srv[r]) /\ LinkOK(r, srv[r], link[r])
  BY DEF IInv
<1>3. ASSUME NEW r \in Running
      PROVE  /\ srv'[r].masterhost \in Running \cup {None} /\ Slaves(srv'[r]) \subseteq Running
             /\ ServerOK(srv'[r])
  <2>1. CASE r = m
    <3>1. Slaves(x) = Slaves(s)
      BY DEF Slaves
    <3> QED
      BY <1>2, <2>1, <3>1
  <2>2. CASE r # m
    BY <1>2, <2>2 DEF OnlyServer
  <2> QED
    BY <2>1, <2>2
<1>4. ASSUME NEW r \in Running
      PROVE  LinkOK(r, srv'[r], link'[r])
  <2>1. CASE r = m
    BY <2>1
  <2>2. CASE r # m /\ s.slaves[r] \in {"wait_end", "online"}
    <3>1. Flowing(srv[r], link[r]) /\ LinkOK(r, srv[r], link[r])
      BY <1>2, <2>2 DEF IInv, Follows
    <3>2. /\ link'[r] \in LinkSet /\ link'[r].peer = link[r].peer
          /\ link'[r].reply = link[r].reply /\ link'[r].rdb = link[r].rdb
      BY <2>2 DEF FedLinks
    <3>3. srv'[r] = srv[r]
      BY <2>2 DEF OnlyServer
    <3> QED
      BY <3>1, <3>2, <3>3, LinkOKFed
  <2>3. CASE r # m /\ s.slaves[r] \notin {"wait_end", "online"}
    <3>1. link'[r] = link[r]
      BY <2>3 DEF FedLinks
    <3>2. srv'[r] = srv[r]
      BY <2>3 DEF OnlyServer
    <3> QED
      BY <1>2, <3>1, <3>2
  <2> QED
    BY <2>1, <2>2, <2>3
<1>5. ASSUME NEW n \in Running, NEW r \in Running
      PROVE  Follows(n, srv'[n], r, srv'[r], link'[r])
  <2>1. Follows(n, srv[n], r, srv[r], link[r])
    BY DEF IInv
  <2>2. CASE n # m /\ r = m
    BY <2>2 DEF OnlyServer
  <2>3. CASE n = m /\ r = m
    <3>1. x.slaves[m] = "none"
      BY OneMaster
    <3> QED
      BY <2>3, <3>1, FollowsNone
  <2>4. CASE r # m /\ s.slaves[r] \notin {"wait_end", "online"}
    <3>1. link'[r] = link[r]
      BY <2>4 DEF FedLinks
    <3>2. srv'[r] = srv[r]
      BY <2>4 DEF OnlyServer
    <3>3. CASE n # m
      BY <2>1, <3>1, <3>2, <3>3 DEF OnlyServer
    <3>4. CASE n = m
      <4>2. x.slaves[r] = s.slaves[r] /\ x.slaves[r] \notin {"wait_end", "online"}
        BY <2>4
      <4> QED
        BY <2>1, <3>1, <3>2, <3>4, <4>2 DEF Follows
    <3> QED
      BY <3>3, <3>4
  <2>5. CASE r # m /\ n # m /\ s.slaves[r] \in {"wait_end", "online"}
    <3>1. srv[n].slaves[r] = "none"
      BY <2>5, OneMaster
    <3>2. srv'[n] = srv[n]
      BY <2>5 DEF OnlyServer
    <3> QED
      BY <3>1, <3>2, FollowsNone
  <2>6. CASE r # m /\ n = m /\ s.slaves[r] \in {"wait_end", "online"}
    <3>2. srv'[r] = srv[r] /\ srv[r] \in ServerSet /\ link[r] \in LinkSet
      BY <2>6 DEF OnlyServer, IInv
    <3>3. s.backlog.on
      BY <1>2, <2>6, RunningServers DEF ServerOK, Slaves, IInv
    <3>4. x.slaves[r] = s.slaves[r] /\ x.bgsave = s.bgsave /\ x.off = s.off + 1
      BY <3>3
    <3>5. /\ link'[r] \in LinkSet /\ link'[r].peer = link[r].peer
          /\ link'[r].reply = link[r].reply /\ link'[r].rdb = link[r].rdb
          /\ link'[r].stream = Append(link[r].stream, w)
      BY <2>6 DEF FedLinks
    <3>6. Follows(m, s, r, srv[r], link[r])
      BY <2>1, <2>6
    <3>7. Follows(m, x, r, srv[r], link'[r])
      BY <2>6, <3>2, <3>4, <3>5, <3>6, FollowsFed
    <3> QED
      BY <2>6, <3>2, <3>7
  <2> QED
    BY <2>2, <2>3, <2>4, <2>5, <2>6
<1> QED
  BY <1>3, <1>4, <1>5, StepKeepsIInv DEF OnlyServer

LEMMA WriteShape ==
    ASSUME IInv, NEW m \in Running, Write(m)
    PROVE  LET w == used.writes + 1
               s == srv[m]
               x == srv'[m]
           IN  /\ w \in Writes /\ used' \in Counts /\ used'.ids = used.ids
               /\ s.masterhost = None
               /\ OnlyServer(m) /\ ServerOK(x) /\ SameIds(x, s) /\ SameFiles(x, s)
               /\ SameRole(x, s) /\ x.slaves = s.slaves /\ x.data = Append(s.data, w)
               /\ x.backlog.on = s.backlog.on
               /\ x.off = IF s.backlog.on THEN s.off + 1 ELSE s.off
               /\ link' \in [Running -> LinkSet] /\ FedLinks(m, w) /\ link'[m] = link[m]
<1> DEFINE w == used.writes + 1
           s == srv[m]
           t == [s EXCEPT !.data = Append(@, w)]
           x == feedReplicationBacklog(t, w)
<1>1. w \in Writes /\ used' \in Counts /\ used'.ids = used.ids /\ s.masterhost = None
  BY DEF IInv, Counts, Writes, Write
<1>2. srv' = [srv EXCEPT ![m] = x] /\ link' = FeedLinks(link, t, w)
  BY DEF Write
<1>3. ServerOK(s) /\ srv \in [Running -> ServerSet] /\ link \in [Running -> LinkSet]
      /\ scenario \in Scenarios /\ s.slaves[m] = "none"
  BY OneMaster DEF IInv
<1> HIDE DEF w
<1>4. /\ ServerOK(x) /\ t \in ServerSet /\ t.slaves = s.slaves
      /\ SameIds(x, s) /\ SameFiles(x, s) /\ SameRole(x, s) /\ x.slaves = s.slaves
      /\ x.data = Append(s.data, w) /\ x.backlog.on = s.backlog.on
      /\ x.off = IF s.backlog.on THEN s.off + 1 ELSE s.off
  <2>1. ServerOK(s) /\ s.masterhost = None /\ w \in Writes
    BY <1>1, <1>3
  <2>2. t = [s EXCEPT !.data = Append(@, w)] /\ x = feedReplicationBacklog(t, w)
    OBVIOUS
  <2> HIDE DEF s, t, x
  <2>3. Written(s, w, t, x)
    BY <2>1, <2>2, WriteOK, Zenon
  <2> QED
    BY <2>3 DEF Written
<1> HIDE DEF t, x
<1>5. x \in ServerSet
  BY <1>4 DEF ServerOK
<1>6. OnlyServer(m) /\ srv'[m] = x
  BY <1>2, <1>3, <1>5, OneChanged DEF OnlyServer
<1>7. link' \in [Running -> LinkSet] /\ FedLinks(m, w) /\ link'[m] = link[m]
  <2>1. /\ link' \in [Running -> LinkSet]
        /\ \A r \in Running :
              /\ link'[r].peer = link[r].peer /\ link'[r].reply = link[r].reply
              /\ link'[r].rdb = link[r].rdb
              /\ t.slaves[r] \in {"wait_end", "online"} => link'[r].stream = Append(link[r].stream, w)
              /\ t.slaves[r] \notin {"wait_end", "online"} => link'[r] = link[r]
    BY <1>1, <1>2, <1>3, FeedLinksFacts
  <2> QED
    BY <1>3, <1>4, <2>1 DEF FedLinks
<1> QED
  BY <1>1, <1>4, <1>6, <1>7 DEF w

LEMMA WriteKeeps ==
    ASSUME IInv, NEW m \in Running, Write(m), scenario' = scenario
    PROVE  IInv'
<1> DEFINE w == used.writes + 1
           s == srv[m]
           x == srv'[m]
<1>1. /\ w \in Writes /\ used' \in Counts /\ s.masterhost = None
      /\ OnlyServer(m) /\ ServerOK(x) /\ SameFiles(x, s)
      /\ SameRole(x, s) /\ x.slaves = s.slaves
      /\ x.off = IF s.backlog.on THEN s.off + 1 ELSE s.off
      /\ link' \in [Running -> LinkSet] /\ FedLinks(m, w) /\ link'[m] = link[m]
  BY WriteShape
<1>2. ServerOK(s) /\ LinkOK(m, s, link[m])
  BY DEF IInv
<1>3. link[m].peer = None
  BY <1>1, <1>2 DEF ServerOK, LinkOK
<1>4. LinkOK(m, x, link'[m])
  BY <1>1, <1>2 DEF LinkOK, SameRole
<1>5. ASSUME NEW n \in Running PROVE Follows(n, srv[n], m, x, link'[m])
  <2>1. srv[n].slaves[m] = "none"
    BY <1>3, OneMaster, RunningServers, ReplicationAssumption DEF IInv
  <2> QED
    BY <2>1, FollowsNone
<1>6. /\ x.masterhost = s.masterhost /\ x.slaves = s.slaves /\ x.bgsave = s.bgsave
      /\ s.backlog.on => x.off = s.off + 1
  BY <1>1 DEF SameRole, SameFiles
<1>7. s = srv[m] /\ x = srv'[m]
  OBVIOUS
<1> HIDE DEF w, s, x
<1> QED
  BY <1>1, <1>4, <1>5, <1>6, <1>7, FeedKeeps

LEMMA ReceiveWriteShape ==
    ASSUME IInv, NEW m \in Running, ReceiveWrite(m)
    PROVE  LET w == Head(link[m].stream)
               s == srv[m]
               x == srv'[m]
               k == link'[m]
           IN  /\ w \in Writes /\ s.repl_state = "connected" /\ s.backlog.on
               /\ OnlyServer(m) /\ ServerOK(x) /\ SameIds(x, s) /\ SameFiles(x, s)
               /\ x.slaves = s.slaves /\ x.masterhost = s.masterhost
               /\ x.repl_state = "connected"
               /\ x.data = Append(s.data, w) /\ x.off = s.off + 1 /\ x.backlog.on
               /\ link' \in [Running -> LinkSet] /\ FedLinks(m, w)
               /\ k.peer = link[m].peer /\ k.reply = None /\ k.rdb = None
               /\ link[m].reply = None /\ link[m].rdb = None
               /\ link[m].stream # <<>> /\ k.stream = Tail(link[m].stream)
<1> DEFINE w == Head(link[m].stream)
           s == srv[m]
           x == Apply(s, w)
           q == Tail(link[m].stream)
           l == [link[m] EXCEPT !.stream = q]
           f == [link EXCEPT ![m] = l]
<1>1. /\ link[m].reply = None /\ link[m].rdb = None /\ link[m].stream # <<>>
      /\ srv' = [srv EXCEPT ![m] = x] /\ link' = FeedLinks(f, s, w)
  BY DEF ReceiveWrite
<1>2. /\ ServerOK(s) /\ LinkOK(m, s, link[m]) /\ link[m] \in LinkSet /\ s.slaves[m] = "none"
      /\ srv \in [Running -> ServerSet] /\ link \in [Running -> LinkSet] /\ scenario \in Scenarios
  BY OneMaster DEF IInv
<1>3. link[m].stream \in Seq(Writes)
  BY <1>2 DEF LinkSet
<1>4. w \in Writes /\ q \in Seq(Writes)
  BY <1>1, <1>3
<1>5. s.repl_state = "connected"
  <2>1. s.repl_state \in {"none", "connect", "psync", "transfer", "connected"}
    BY <1>2 DEF ServerOK, ServerSet
  <2> QED
    BY <1>1, <1>2, <2>1 DEF LinkOK
<1>6. s.backlog.on
  BY <1>2, <1>5 DEF ServerOK
<1> HIDE DEF w, q
<1>7. /\ l \in LinkSet /\ l.peer = link[m].peer /\ l.reply = link[m].reply
      /\ l.rdb = link[m].rdb /\ l.stream = q
  BY <1>2, <1>4, StreamFacts
<1> HIDE DEF l
<1>8. f \in [Running -> LinkSet] /\ f[m] = l /\ \A r \in Running : r # m => f[r] = link[r]
  BY <1>2, <1>7, OneChanged
<1>9. /\ ServerOK(x)
      /\ SameIds(x, s) /\ SameFiles(x, s) /\ x.slaves = s.slaves
      /\ x.masterhost = s.masterhost /\ x.repl_state = s.repl_state
      /\ x.data = Append(s.data, w) /\ x.off = s.off + 1 /\ x.backlog.on
  BY <1>2, <1>4, <1>5, ApplyOK
<1> HIDE DEF f, x
<1>10. x \in ServerSet
  BY <1>9 DEF ServerOK
<1>11. OnlyServer(m) /\ srv'[m] = x
  BY <1>1, <1>2, <1>10, OneChanged DEF OnlyServer
<1>12. /\ link' \in [Running -> LinkSet]
       /\ \A r \in Running :
              /\ link'[r].peer = f[r].peer /\ link'[r].reply = f[r].reply
              /\ link'[r].rdb = f[r].rdb
              /\ s.slaves[r] \in {"wait_end", "online"} => link'[r].stream = Append(f[r].stream, w)
              /\ s.slaves[r] \notin {"wait_end", "online"} => link'[r] = f[r]
  BY <1>1, <1>2, <1>4, <1>8, FeedLinksFacts
<1>13. FedLinks(m, w)
  BY <1>8, <1>12 DEF FedLinks
<1>14. link'[m] = l
  BY <1>2, <1>8, <1>12
<1> QED
  BY <1>1, <1>4, <1>5, <1>6, <1>7, <1>9, <1>11, <1>12, <1>13, <1>14 DEF w, q

LEMMA ReceiveWriteKeeps ==
    ASSUME IInv, NEW m \in Running, ReceiveWrite(m), scenario' = scenario, used' = used
    PROVE  IInv'
<1> DEFINE w == Head(link[m].stream)
           s == srv[m]
           x == srv'[m]
           k == link'[m]
<1>1. /\ w \in Writes /\ s.repl_state = "connected" /\ s.backlog.on
      /\ OnlyServer(m) /\ ServerOK(x) /\ SameFiles(x, s)
      /\ x.slaves = s.slaves /\ x.masterhost = s.masterhost
      /\ x.repl_state = "connected" /\ x.off = s.off + 1
      /\ link' \in [Running -> LinkSet] /\ FedLinks(m, w)
      /\ k.peer = link[m].peer /\ k.reply = None /\ k.rdb = None
      /\ link[m].reply = None /\ link[m].rdb = None
      /\ link[m].stream # <<>> /\ k.stream = Tail(link[m].stream)
  BY ReceiveWriteShape
<1>2. ServerOK(s) /\ LinkOK(m, s, link[m]) /\ used \in Counts /\ s.off \in Nat
  BY DEF IInv, ServerOK, ServerSet
<1>3. LinkOK(m, x, k)
  BY <1>1, <1>2 DEF LinkOK
<1>4. Len(k.stream) = Len(link[m].stream) - 1 /\ Len(link[m].stream) \in Nat
  <2>1. link[m].stream \in Seq(Writes)
    BY <1>2 DEF LinkOK, LinkSet
  <2> QED
    BY <1>1, <2>1
<1>5. ASSUME NEW n \in Running PROVE Follows(n, srv[n], m, x, k)
  <2>1. Follows(n, srv[n], m, s, link[m])
    BY DEF IInv
  <2>2. srv[n].slaves[m] # "wait_start" /\ srv[n].slaves[m] # "wait_end"
    BY <1>1, <2>1 DEF Follows
  <2>3. Flowing(x, k)
    BY <1>1 DEF Flowing
  <2>4. BaseOff(s, link[m]) = s.off /\ BaseOff(x, k) = s.off + 1
    BY <1>1 DEF BaseOff
  <2>5. srv[n].slaves[m] = "online" => BaseOff(x, k) + Len(k.stream) = srv[n].off
    <3>1. srv[n].slaves[m] = "online" => s.off + Len(link[m].stream) = srv[n].off
      BY <2>1, <2>4 DEF Follows
    <3> DEFINE a == s.off
               b == Len(link[m].stream)
               c == Len(k.stream)
    <3>2. a \in Nat /\ b \in Nat /\ c = b - 1
      BY <1>2, <1>4
    <3>3. BaseOff(x, k) = a + 1 /\ (srv[n].slaves[m] = "online" => a + b = srv[n].off)
      BY <2>4, <3>1
    <3> HIDE DEF a, b, c
    <3>4. a + b = (a + 1) + c
      BY <3>2
    <3> QED
      BY <3>3, <3>4 DEF c
  <2>6. srv[n].slaves[m] # "none" => k.peer = n
    BY <1>1, <2>1 DEF Follows
  <2> HIDE DEF s, x, k
  <2> QED
    BY <2>2, <2>3, <2>5, <2>6 DEF Follows
<1>6. /\ x.masterhost = s.masterhost /\ x.slaves = s.slaves /\ x.bgsave = s.bgsave
      /\ s.backlog.on => x.off = s.off + 1
  BY <1>1 DEF SameFiles
<1>7. s = srv[m] /\ x = srv'[m] /\ k = link'[m] /\ used' \in Counts
  BY <1>2
<1> HIDE DEF w, s, x, k
<1> QED
  BY <1>1, <1>3, <1>5, <1>6, <1>7, FeedKeeps
-----------------------------------------------------------------------------
(* One server changes its role. *)

\* No server but m has changed, unless it has lost m as a replica.
OnlyRoleOf(m) ==
    /\ srv' \in [Running -> ServerSet]
    /\ \A n \in Running \ {m} :
          /\ ServerOK(srv'[n]) /\ SameRole(srv'[n], srv[n]) /\ SameIds(srv'[n], srv[n])
          /\ SameFiles(srv'[n], srv[n]) /\ srv'[n].data = srv[n].data
          /\ srv'[n].off = srv[n].off /\ srv'[n].backlog = srv[n].backlog
          /\ srv'[n].slaves[m] \in {"none", srv[n].slaves[m]}
          /\ \A r \in Servers \ {m} : srv'[n].slaves[r] = srv[n].slaves[r]

LEMMA OnlyServerRole ==
    ASSUME IInv, NEW m \in Running, OnlyServer(m)
    PROVE  OnlyRoleOf(m)
<1>1. ASSUME NEW n \in Running \ {m}
      PROVE  srv'[n] = srv[n] /\ ServerOK(srv[n])
  BY DEF OnlyServer, IInv
<1> QED
  BY <1>1 DEF OnlyRoleOf, OnlyServer, SameRole, SameIds, SameFiles

\* The replicas of m are kept, with all that they have been sent.
KeptSlaves(m, x) ==
    /\ x.slaves = srv[m].slaves /\ x.off = srv[m].off
    /\ x.bgsave = srv[m].bgsave \/ \A r \in Running : srv[m].slaves[r] # "wait_end"
    /\ \A r \in Running \ {m} : link'[r] = link[r]

\* The replicas of m are closed.
DroppedSlaves(m, x) ==
    /\ \A r \in Servers : x.slaves[r] = "none"
    /\ \A r \in Running \ {m} :
          /\ srv[m].slaves[r] # "wait_end" => link'[r] = link[r]
          /\ srv[m].slaves[r] = "wait_end" =>
                /\ link'[r].peer = link[r].peer /\ link'[r].reply = link[r].reply
                /\ link'[r].rdb = None /\ link'[r].stream = <<>>

LEMMA LinkOKCut ==
    ASSUME NEW r, NEW s, NEW l, LinkOK(r, s, l), ServerOK(s), l.rdb # None, NEW k \in LinkSet,
           k.peer = l.peer, k.reply = l.reply, k.rdb = None, k.stream = <<>>
    PROVE  LinkOK(r, s, k)
<1>1. s.repl_state # "connected" /\ (l.reply # None => l.reply.type # "continue")
  BY DEF LinkOK
<1> QED
  BY <1>1 DEF LinkOK

LEMMA LinkOKRole ==
    ASSUME NEW r, NEW s, NEW t, NEW l, LinkOK(r, s, l), SameRole(t, s)
    PROVE  LinkOK(r, t, l)
  BY DEF LinkOK, SameRole

LEMMA RoleKeeps ==
    ASSUME IInv, NEW m \in Running, NEW x, x = srv'[m], NEW k, k = link'[m],
           scenario' = scenario, used' \in Counts, OnlyRoleOf(m), ServerOK(x),
           x.masterhost \in Running \cup {None}, link' \in [Running -> LinkSet],
           KeptSlaves(m, x) \/ DroppedSlaves(m, x),
           LinkOK(m, x, k), \A n \in Running \ {m} : Follows(n, srv'[n], m, x, k)
    PROVE  IInv'
<1>1. /\ Running \subseteq Servers
      /\ \A r \in Running :
            /\ srv[r].masterhost \in Running \cup {None} /\ Slaves(srv[r]) \subseteq Running
            /\ ServerOK(srv[r]) /\ LinkOK(r, srv[r], link[r])
  BY RunningServers DEF IInv
<1>2. ASSUME NEW r \in Running
      PROVE  /\ srv'[r].masterhost \in Running \cup {None} /\ Slaves(srv'[r]) \subseteq Running
             /\ ServerOK(srv'[r])
  <2>1. CASE r = m
    <3>1. Slaves(x) \subseteq Slaves(srv[m])
      BY DEF KeptSlaves, DroppedSlaves, Slaves
    <3> QED
      BY <1>1, <2>1, <3>1
  <2>2. CASE r # m
    <3>1. Slaves(srv'[r]) \subseteq Slaves(srv[r])
      <4>1. \A q \in Servers : srv'[r].slaves[q] \in {"none", srv[r].slaves[q]}
        BY <2>2 DEF OnlyRoleOf
      <4> QED
        BY <4>1 DEF Slaves
    <3>2. srv'[r].masterhost = srv[r].masterhost /\ ServerOK(srv'[r])
      BY <2>2 DEF OnlyRoleOf, SameRole
    <3> QED
      BY <1>1, <3>1, <3>2
  <2> QED
    BY <2>1, <2>2
<1>3. ASSUME NEW r \in Running, r # m, srv[m].slaves[r] = "wait_end"
      PROVE  link[r].rdb # None /\ link[r].peer = m
  BY <1>3 DEF IInv, Follows
<1>4. ASSUME NEW r \in Running
      PROVE  LinkOK(r, srv'[r], link'[r])
  <2>1. CASE r = m
    BY <2>1
  <2>2. CASE r # m
    <3>1. LinkOK(r, srv[r], link'[r])
      <4>1. CASE link'[r] = link[r]
        BY <1>1, <4>1
      <4>2. CASE link'[r] # link[r]
        <5>1. /\ srv[m].slaves[r] = "wait_end" /\ link'[r] \in LinkSet
              /\ link'[r].peer = link[r].peer /\ link'[r].reply = link[r].reply
              /\ link'[r].rdb = None /\ link'[r].stream = <<>>
          BY <2>2, <4>2 DEF KeptSlaves, DroppedSlaves
        <5>2. link[r].rdb # None
          BY <1>3, <2>2, <5>1
        <5> QED
          BY <1>1, <5>1, <5>2, LinkOKCut
      <4> QED
        BY <4>1, <4>2
    <3>2. SameRole(srv'[r], srv[r])
      BY <2>2 DEF OnlyRoleOf
    <3> QED
      BY <3>1, <3>2, LinkOKRole
  <2> QED
    BY <2>1, <2>2
<1>5. ASSUME NEW n \in Running, NEW r \in Running
      PROVE  Follows(n, srv'[n], r, srv'[r], link'[r])
  <2>1. Follows(n, srv[n], r, srv[r], link[r])
    BY DEF IInv
  <2>2. CASE r = m /\ n # m
    BY <2>2
  <2>3. CASE r = m /\ n = m
    <3>1. x.slaves[m] = "none"
      BY <1>1, OneMaster DEF KeptSlaves, DroppedSlaves
    <3> QED
      BY <2>3, <3>1, FollowsNone
  <2>4. CASE r # m /\ n # m
    <3>1. /\ srv'[n].slaves[r] = srv[n].slaves[r] /\ srv'[n].bgsave = srv[n].bgsave
          /\ srv'[n].off = srv[n].off
          /\ srv'[r].repl_state = srv[r].repl_state /\ srv'[r].off = srv[r].off
      BY <1>1, <2>4 DEF OnlyRoleOf, SameRole, SameFiles
    <3>2. CASE link'[r] = link[r]
      BY <2>1, <3>1, <3>2, FollowsSame
    <3>3. CASE link'[r] # link[r]
      <4>1. srv[m].slaves[r] = "wait_end"
        BY <2>4, <3>3 DEF KeptSlaves, DroppedSlaves
      <4>2. srv[n].slaves[r] = "none"
        BY <2>4, <4>1, OneMaster
      <4> QED
        BY <3>1, <4>2, FollowsNone
    <3> QED
      BY <3>2, <3>3
  <2>5. CASE r # m /\ n = m
    <3>1. CASE DroppedSlaves(m, x)
      <4>1. x.slaves[r] = "none"
        BY <1>1, <3>1 DEF DroppedSlaves
      <4> QED
        BY <2>5, <4>1, FollowsNone
    <3>2. CASE KeptSlaves(m, x)
      <4>1. /\ x.slaves[r] = srv[m].slaves[r] /\ x.off = srv[m].off /\ link'[r] = link[r]
            /\ x.bgsave = srv[m].bgsave \/ srv[m].slaves[r] # "wait_end"
        BY <2>5, <3>2 DEF KeptSlaves
      <4>2. srv'[r].repl_state = srv[r].repl_state /\ srv'[r].off = srv[r].off
        BY <2>5 DEF OnlyRoleOf, SameRole
      <4>3. CASE x.bgsave = srv[m].bgsave
        BY <2>1, <2>5, <4>1, <4>2, <4>3, FollowsSame
      <4>4. CASE srv[m].slaves[r] # "wait_end"
        BY <2>1, <2>5, <4>1, <4>2, <4>4 DEF Follows, Flowing, BaseOff
      <4> QED
        BY <4>1, <4>3, <4>4
    <3> QED
      BY <3>1, <3>2
  <2> QED
    BY <2>2, <2>3, <2>4, <2>5
<1> QED
  BY <1>2, <1>4, <1>5, StepKeepsIInv DEF OnlyRoleOf

LEMMA CloseFacts ==
    ASSUME NEW f \in [Running -> LinkSet], NEW s, NEW G,
           NEW g, g = CloseSlaves(f, s, G), scenario \in Scenarios
    PROVE  /\ g \in [Running -> LinkSet]
           /\ \A r \in Running :
                 /\ ~(r \in G /\ s.slaves[r] = "wait_end") => g[r] = f[r]
                 /\ r \in G /\ s.slaves[r] = "wait_end" =>
                       /\ g[r].peer = f[r].peer /\ g[r].reply = f[r].reply
                       /\ g[r].rdb = None /\ g[r].stream = <<>>
<1>1. Running \subseteq Servers
  BY RunningServers
<1>2. g = [r \in Running |-> IF r \in G /\ r \in Waiting(s, "wait_end")
                             THEN [f[r] EXCEPT !.rdb = None, !.stream = <<>>] ELSE f[r]]
  BY DEF CloseSlaves
<1>3. ASSUME NEW r \in Running
      PROVE  /\ g[r] \in LinkSet
             /\ ~(r \in G /\ s.slaves[r] = "wait_end") => g[r] = f[r]
             /\ r \in G /\ s.slaves[r] = "wait_end" =>
                   /\ g[r].peer = f[r].peer /\ g[r].reply = f[r].reply
                   /\ g[r].rdb = None /\ g[r].stream = <<>>
  <2>1. f[r] \in LinkSet /\ (r \in Waiting(s, "wait_end") <=> s.slaves[r] = "wait_end")
    BY <1>1 DEF Waiting
  <2>2. CASE r \in G /\ s.slaves[r] = "wait_end"
    <3> DEFINE z == <<>>
    <3>1. g[r] = [f[r] EXCEPT !.rdb = None, !.stream = z]
      BY <1>2, <2>1, <2>2
    <3>2. z \in Seq(Writes) /\ z = <<>>
      OBVIOUS
    <3> HIDE DEF z
    <3>3. /\ g[r] \in LinkSet /\ g[r].peer = f[r].peer /\ g[r].reply = f[r].reply
          /\ g[r].rdb = None /\ g[r].stream = z
      BY <2>1, <3>1, <3>2 DEF LinkSet
    <3> QED
      BY <2>2, <3>2, <3>3
  <2>3. CASE ~(r \in G /\ s.slaves[r] = "wait_end")
    <3>1. g[r] = f[r]
      BY <1>2, <2>1, <2>3
    <3> QED
      BY <2>1, <2>3, <3>1
  <2> QED
    BY <2>2, <2>3
<1>4. g \in [Running -> LinkSet]
  BY <1>2, <1>3
<1> QED
  BY <1>3, <1>4

\* The links of m's replicas when m closes them.
LEMMA CloseAll ==
    ASSUME IInv, NEW m \in Running, NEW f \in [Running -> LinkSet],
           \A r \in Running \ {m} : f[r] = link[r],
           link' = CloseSlaves(f, srv[m], Slaves(srv[m])),
           NEW x, \A r \in Servers : x.slaves[r] = "none"
    PROVE  link' \in [Running -> LinkSet] /\ DroppedSlaves(m, x) /\ link'[m] = f[m]
<1>1. scenario \in Scenarios /\ Running \subseteq Servers /\ srv[m].slaves[m] = "none"
  BY RunningServers, OneMaster DEF IInv
<1>2. \A r \in Running : srv[m].slaves[r] = "wait_end" => r \in Slaves(srv[m])
  BY <1>1 DEF Slaves
<1> DEFINE s == srv[m]
           G == Slaves(srv[m])
<1> HIDE DEF s, G
<1>3. /\ link' \in [Running -> LinkSet]
      /\ \A r \in Running :
            /\ ~(r \in G /\ s.slaves[r] = "wait_end") => link'[r] = f[r]
            /\ r \in G /\ s.slaves[r] = "wait_end" =>
                  /\ link'[r].peer = f[r].peer /\ link'[r].reply = f[r].reply
                  /\ link'[r].rdb = None /\ link'[r].stream = <<>>
  <2>1. link' = CloseSlaves(f, s, G)
    BY DEF s, G
  <2> QED
    BY <1>1, <2>1, CloseFacts
<1> QED
  BY <1>1, <1>2, <1>3 DEF DroppedSlaves, s, G

LEMMA ReplyGone ==
    ASSUME NEW l \in LinkSet, NEW k, k = [l EXCEPT !.reply = None]
    PROVE  k \in LinkSet /\ k.peer = l.peer /\ k.reply = None /\ k.rdb = l.rdb
           /\ k.stream = l.stream
  BY DEF LinkSet

LEMMA SnapshotGone ==
    ASSUME NEW l \in LinkSet, NEW k, k = [l EXCEPT !.rdb = None]
    PROVE  k \in LinkSet /\ k.peer = l.peer /\ k.reply = l.reply /\ k.rdb = None
           /\ k.stream = l.stream
  BY DEF LinkSet

LEMMA ReceiveContinueShape ==
    ASSUME IInv, NEW m \in Running, ReceiveContinue(m)
    PROVE  LET s == srv[m]
               x == srv'[m]
               l == link[m]
               k == link'[m]
           IN  /\ l.reply \in Replies /\ l.reply.type = "continue"
               /\ s.repl_state = "psync" /\ s.cached_master # None
               /\ OnlyServer(m) /\ ServerOK(x) /\ SameFiles(x, s)
               /\ x.masterhost = s.masterhost
               /\ x.repl_state = "connected" /\ x.data = s.data /\ x.off = s.off
               /\ x.replid = l.reply.replid /\ x.backlog.on
               /\ l.reply.replid = s.replid =>
                     /\ x.replid2 = s.replid2 /\ x.second_replid_offset = s.second_replid_offset
                     /\ KeptSlaves(m, x)
               /\ l.reply.replid # s.replid =>
                     /\ x.replid2 = s.replid /\ x.second_replid_offset = s.off + 1
                     /\ DroppedSlaves(m, x)
               /\ link' \in [Running -> LinkSet]
               /\ k.peer = l.peer /\ k.reply = None /\ k.rdb = None /\ l.rdb = None
               /\ k.stream = l.stream
<1> DEFINE s == srv[m]
           l == link[m]
           msg == l.reply
           x == Continue(s, msg)
           k == [l EXCEPT !.reply = None]
           f == [link EXCEPT ![m] = k]
<1>1. /\ msg # None /\ msg.type = "continue"
      /\ srv' = [srv EXCEPT ![m] = x]
      /\ link' = IF msg.replid # s.cached_master.replid
                 THEN CloseSlaves(f, s, Slaves(s)) ELSE f
  BY DEF ReceiveContinue
<1>2. /\ ServerOK(s) /\ LinkOK(m, s, l) /\ l \in LinkSet
      /\ srv \in [Running -> ServerSet] /\ link \in [Running -> LinkSet]
  BY DEF IInv
<1>3. msg \in Replies /\ s.repl_state = "psync" /\ s.cached_master # None /\ l.rdb = None
  BY <1>1, <1>2 DEF LinkOK, LinkSet
<1>4. /\ ServerOK(x) /\ SameFiles(x, s) /\ x.masterhost = s.masterhost
      /\ x.repl_state = "connected" /\ x.data = s.data /\ x.off = s.off
      /\ x.replid = msg.replid /\ x.backlog.on
      /\ s.cached_master.replid = s.replid
      /\ msg.replid = s.replid =>
            /\ x.replid2 = s.replid2 /\ x.second_replid_offset = s.second_replid_offset
            /\ x.slaves = s.slaves
      /\ msg.replid # s.replid =>
            /\ x.replid2 = s.replid /\ x.second_replid_offset = s.off + 1
            /\ \A r \in Servers : x.slaves[r] = "none"
  <2>1. x = Continue(s, msg)
    OBVIOUS
  <2> HIDE DEF s, x, msg
  <2> QED
    BY <1>2, <1>3, <2>1, ContinueOK
<1>5. k \in LinkSet /\ k.peer = l.peer /\ k.reply = None /\ k.rdb = l.rdb /\ k.stream = l.stream
  BY <1>2, ReplyGone
<1> HIDE DEF k, x
<1>6. f \in [Running -> LinkSet] /\ f[m] = k /\ \A r \in Running : r # m => f[r] = link[r]
  BY <1>2, <1>5, OneChanged
<1>7. OnlyServer(m) /\ srv'[m] = x
  <2>1. x \in ServerSet
    BY <1>4 DEF ServerOK
  <2> QED
    BY <1>1, <1>2, <2>1, OneChanged DEF OnlyServer
<1> HIDE DEF f
<1>8. CASE msg.replid = s.replid
  <2>1. link' = f
    BY <1>1, <1>4, <1>8
  <2>2. KeptSlaves(m, x)
    BY <1>4, <1>6, <1>8, <2>1 DEF KeptSlaves, SameFiles
  <2> QED
    BY <1>1, <1>3, <1>4, <1>5, <1>6, <1>7, <1>8, <2>1, <2>2
<1>9. CASE msg.replid # s.replid
  <2>1. link' = CloseSlaves(f, srv[m], Slaves(srv[m]))
    BY <1>1, <1>4, <1>9
  <2>2. /\ \A r \in Running \ {m} : f[r] = link[r]
        /\ \A r \in Servers : x.slaves[r] = "none"
    BY <1>4, <1>6, <1>9
  <2>3. link' \in [Running -> LinkSet] /\ DroppedSlaves(m, x) /\ link'[m] = f[m]
    BY <1>6, <2>1, <2>2, CloseAll
  <2> QED
    BY <1>1, <1>3, <1>4, <1>5, <1>6, <1>7, <1>9, <2>3
<1> QED
  BY <1>8, <1>9

LEMMA ReceiveContinueKeeps ==
    ASSUME IInv, NEW m \in Running, ReceiveContinue(m), scenario' = scenario, used' = used
    PROVE  IInv'
<1> DEFINE s == srv[m]
           x == srv'[m]
           l == link[m]
           k == link'[m]
<1>1. /\ l.reply \in Replies /\ l.reply.type = "continue" /\ s.repl_state = "psync"
      /\ OnlyServer(m) /\ ServerOK(x) /\ x.masterhost = s.masterhost
      /\ x.repl_state = "connected" /\ x.off = s.off
      /\ KeptSlaves(m, x) \/ DroppedSlaves(m, x)
      /\ link' \in [Running -> LinkSet]
      /\ k.peer = l.peer /\ k.reply = None /\ k.rdb = None /\ l.rdb = None
      /\ k.stream = l.stream
  BY ReceiveContinueShape
<1>2. /\ ServerOK(s) /\ LinkOK(m, s, l) /\ used' \in Counts
      /\ s.masterhost \in Running \cup {None}
  BY DEF IInv
<1>3. OnlyRoleOf(m)
  BY <1>1, OnlyServerRole
<1>4. LinkOK(m, x, k)
  BY <1>1, <1>2 DEF LinkOK
<1>5. ASSUME NEW n \in Running \ {m} PROVE Follows(n, srv'[n], m, x, k)
  <2>1. Follows(n, srv[n], m, s, l) /\ srv'[n] = srv[n]
    BY <1>1 DEF IInv, OnlyServer
  <2>2. l.reply # None
    BY <1>1, ReplicationAssumption
  <2>3. Flowing(x, k) /\ BaseOff(x, k) = BaseOff(s, l)
    BY <1>1 DEF Flowing, BaseOff
  <2> QED
    BY <1>1, <2>1, <2>2, <2>3 DEF Follows
<1> HIDE DEF x, k
<1> QED
  BY <1>1, <1>2, <1>3, <1>4, <1>5, RoleKeeps DEF x, k

LEMMA ReceiveFullShape ==
    ASSUME IInv, NEW m \in Running, ReceiveFull(m)
    PROVE  LET s == srv[m]
               x == srv'[m]
               l == link[m]
               k == link'[m]
           IN  /\ l.reply \in Replies /\ l.reply # None /\ l.reply.type = "full"
               /\ s.repl_state = "psync"
               /\ OnlyServer(m) /\ ServerOK(x) /\ SameIds(x, s) /\ SameFiles(x, s)
               /\ x.masterhost = s.masterhost /\ x.repl_state = "transfer"
               /\ x.data = s.data /\ x.off = s.off /\ ~x.backlog.on
               /\ x.master = None /\ x.cached_master = None
               /\ x.master_initial.replid = l.reply.replid
               /\ x.master_initial.reploff = l.reply.off
               /\ DroppedSlaves(m, x)
               /\ link' \in [Running -> LinkSet]
               /\ k.peer = l.peer /\ k.reply = None /\ k.rdb = l.rdb /\ k.stream = l.stream
<1> DEFINE s == srv[m]
           l == link[m]
           msg == l.reply
           x == FullResync(s, msg)
           k == [l EXCEPT !.reply = None]
           f == [link EXCEPT ![m] = k]
<1>1. /\ msg # None /\ msg.type = "full"
      /\ srv' = [srv EXCEPT ![m] = x]
      /\ link' = CloseSlaves(f, s, Slaves(s))
  BY DEF ReceiveFull
<1>2. /\ ServerOK(s) /\ LinkOK(m, s, l) /\ l \in LinkSet
      /\ srv \in [Running -> ServerSet] /\ link \in [Running -> LinkSet]
  BY DEF IInv
<1>3. msg \in Replies /\ s.repl_state = "psync"
  BY <1>1, <1>2 DEF LinkOK, LinkSet
<1>4. /\ ServerOK(x) /\ SameIds(x, s) /\ SameFiles(x, s)
      /\ x.masterhost = s.masterhost /\ x.repl_state = "transfer"
      /\ x.data = s.data /\ x.off = s.off /\ ~x.backlog.on
      /\ x.master = None /\ x.cached_master = None
      /\ x.master_initial.replid = msg.replid /\ x.master_initial.reploff = msg.off
      /\ \A r \in Servers : x.slaves[r] = "none"
  <2>1. x = FullResync(s, msg)
    OBVIOUS
  <2> HIDE DEF s, x, msg
  <2> QED
    BY <1>2, <1>3, <2>1, FullResyncOK
<1>5. k \in LinkSet /\ k.peer = l.peer /\ k.reply = None /\ k.rdb = l.rdb /\ k.stream = l.stream
  BY <1>2, ReplyGone
<1> HIDE DEF k, x
<1>6. f \in [Running -> LinkSet] /\ f[m] = k /\ \A r \in Running : r # m => f[r] = link[r]
  BY <1>2, <1>5, OneChanged
<1>7. OnlyServer(m) /\ srv'[m] = x
  <2>1. x \in ServerSet
    BY <1>4 DEF ServerOK
  <2> QED
    BY <1>1, <1>2, <2>1, OneChanged DEF OnlyServer
<1> HIDE DEF f
<1>8. link' \in [Running -> LinkSet] /\ DroppedSlaves(m, x) /\ link'[m] = f[m]
  <2>1. link' = CloseSlaves(f, srv[m], Slaves(srv[m]))
    BY <1>1
  <2>2. /\ \A r \in Running \ {m} : f[r] = link[r]
        /\ \A r \in Servers : x.slaves[r] = "none"
    BY <1>4, <1>6
  <2> QED
    BY <1>6, <2>1, <2>2, CloseAll
<1> QED
  BY <1>1, <1>3, <1>4, <1>5, <1>6, <1>7, <1>8

LEMMA ReceiveFullKeeps ==
    ASSUME IInv, NEW m \in Running, ReceiveFull(m), scenario' = scenario, used' = used
    PROVE  IInv'
<1> DEFINE s == srv[m]
           x == srv'[m]
           l == link[m]
           k == link'[m]
<1>1. /\ l.reply # None /\ l.reply.type = "full" /\ s.repl_state = "psync"
      /\ OnlyServer(m) /\ ServerOK(x) /\ x.masterhost = s.masterhost
      /\ x.repl_state = "transfer" /\ x.off = s.off
      /\ x.master_initial.reploff = l.reply.off
      /\ DroppedSlaves(m, x) /\ link' \in [Running -> LinkSet]
      /\ k.peer = l.peer /\ k.reply = None /\ k.rdb = l.rdb /\ k.stream = l.stream
  BY ReceiveFullShape
<1>2. /\ ServerOK(s) /\ LinkOK(m, s, l) /\ used' \in Counts
      /\ s.masterhost \in Running \cup {None} /\ k \in LinkSet
  BY <1>1 DEF IInv
<1>3. OnlyRoleOf(m)
  BY <1>1, OnlyServerRole
<1>4. LinkOK(m, x, k)
  BY <1>1, <1>2 DEF LinkOK
<1>5. ASSUME NEW n \in Running \ {m} PROVE Follows(n, srv'[n], m, x, k)
  <2>1. Follows(n, srv[n], m, s, l) /\ srv'[n] = srv[n]
    BY <1>1 DEF IInv, OnlyServer
  <2>2. Flowing(s, l) => Flowing(x, k)
    BY <1>1 DEF Flowing
  <2>3. BaseOff(x, k) = BaseOff(s, l)
    BY <1>1 DEF BaseOff
  <2> QED
    BY <1>1, <2>1, <2>2, <2>3 DEF Follows
<1> HIDE DEF x, k
<1> QED
  BY <1>1, <1>2, <1>3, <1>4, <1>5, RoleKeeps DEF x, k

LEMMA ArrivesFacts ==
    ASSUME IInv, NEW m \in Running, SnapshotArrives(m)
    PROVE  /\ srv[m].repl_state = "transfer" /\ link[m].rdb \in Snapshots
           /\ link[m].reply = None /\ link[m].rdb # None
           /\ srv[m].master_initial.reploff = link[m].rdb.off
           /\ \A r \in Servers : srv[m].slaves[r] = "none"
           /\ \A n \in Running : srv[n].slaves[m] # "wait_end"
<1>1. /\ ServerOK(srv[m]) /\ LinkOK(m, srv[m], link[m]) /\ link[m] \in LinkSet
      /\ Running \subseteq Servers
  BY RunningServers DEF IInv
<1>2. link[m].reply = None /\ link[m].rdb # None
  BY DEF SnapshotArrives
<1>3. srv[m].repl_state \in {"none", "connect", "psync", "transfer", "connected"}
  BY <1>1 DEF ServerOK, ServerSet
<1>4. srv[m].repl_state = "transfer"
  BY <1>1, <1>2, <1>3 DEF LinkOK
<1>5. link[m].rdb \in Snapshots /\ srv[m].master_initial.reploff = link[m].rdb.off
  BY <1>1, <1>2, <1>4 DEF LinkOK, LinkSet
<1>6. Slaves(srv[m]) = {}
  BY <1>1, <1>4 DEF ServerOK
<1>7. ASSUME NEW n \in Running PROVE srv[n].slaves[m] # "wait_end"
  <2>1. srv[n].slaves[m] # "none" => link[m].peer = n
    BY DEF IInv, Follows
  <2>2. m \notin Waiting(srv[link[m].peer], "wait_end")
    BY DEF SnapshotArrives
  <2> QED
    BY <1>1, <2>1, <2>2 DEF Waiting
<1> QED
  BY <1>2, <1>4, <1>5, <1>6, <1>7 DEF Slaves

LEMMA ReceiveSnapshotShape ==
    ASSUME IInv, NEW m \in Running, ReceiveSnapshot(m)
    PROVE  LET s == srv[m]
               x == srv'[m]
               l == link[m]
               k == link'[m]
           IN  /\ s.repl_state = "transfer" /\ l.rdb \in Snapshots /\ l.rdb # None
               /\ l.reply = None /\ s.master_initial.reploff = l.rdb.off
               /\ \A n \in Running : srv[n].slaves[m] # "wait_end"
               /\ OnlyServer(m) /\ ServerOK(x) /\ x.disk = l.rdb /\ x.bgsave = s.bgsave
               /\ x.masterhost = s.masterhost /\ x.repl_state = "connected"
               /\ x.data = l.rdb.data /\ x.off = l.rdb.off /\ x.backlog.on
               /\ x.replid = s.master_initial.replid /\ x.replid2 = None
               /\ DroppedSlaves(m, x)
               /\ link' \in [Running -> LinkSet]
               /\ k.peer = l.peer /\ k.reply = None /\ k.rdb = None /\ k.stream = l.stream
<1> DEFINE s == srv[m]
           l == link[m]
           d == l.rdb
           x == LoadSnapshot(s, d)
           k == [l EXCEPT !.rdb = None]
<1>1. /\ s.repl_state = "transfer" /\ d \in Snapshots /\ d # None
      /\ l.reply = None /\ s.master_initial.reploff = d.off
      /\ \A r \in Servers : s.slaves[r] = "none"
      /\ \A n \in Running : srv[n].slaves[m] # "wait_end"
  BY ArrivesFacts DEF ReceiveSnapshot
<1>2. srv' = [srv EXCEPT ![m] = x] /\ link' = [link EXCEPT ![m] = k]
  BY DEF ReceiveSnapshot
<1>3. /\ ServerOK(s) /\ LinkOK(m, s, l) /\ l \in LinkSet /\ Running \subseteq Servers
      /\ srv \in [Running -> ServerSet] /\ link \in [Running -> LinkSet]
  BY RunningServers DEF IInv
<1>4. /\ ServerOK(x) /\ x.disk = d /\ x.bgsave = s.bgsave
      /\ x.masterhost = s.masterhost /\ x.repl_state = "connected"
      /\ x.data = d.data /\ x.off = s.master_initial.reploff /\ x.backlog.on
      /\ x.replid = s.master_initial.replid /\ x.replid2 = None
      /\ x.slaves = s.slaves
  <2>1. x = LoadSnapshot(s, d)
    OBVIOUS
  <2> HIDE DEF s, x, d
  <2> QED
    BY <1>1, <1>3, <2>1, LoadSnapshotOK
<1>5. k \in LinkSet /\ k.peer = l.peer /\ k.reply = l.reply /\ k.rdb = None /\ k.stream = l.stream
  BY <1>3, SnapshotGone
<1> HIDE DEF k, x
<1>6. /\ link' \in [Running -> LinkSet] /\ link'[m] = k
      /\ \A r \in Running : r # m => link'[r] = link[r]
  BY <1>2, <1>3, <1>5, OneChanged
<1>7. OnlyServer(m) /\ srv'[m] = x
  <2>1. x \in ServerSet
    BY <1>4 DEF ServerOK
  <2> QED
    BY <1>2, <1>3, <2>1, OneChanged DEF OnlyServer
<1>8. DroppedSlaves(m, x)
  BY <1>1, <1>3, <1>4, <1>6 DEF DroppedSlaves
<1> QED
  BY <1>1, <1>4, <1>5, <1>6, <1>7, <1>8

LEMMA ReceiveSnapshotKeeps ==
    ASSUME IInv, NEW m \in Running, ReceiveSnapshot(m), scenario' = scenario, used' = used
    PROVE  IInv'
<1> DEFINE s == srv[m]
           x == srv'[m]
           l == link[m]
           k == link'[m]
<1>1. /\ s.repl_state = "transfer" /\ l.rdb # None /\ l.reply = None
      /\ \A n \in Running : srv[n].slaves[m] # "wait_end"
      /\ OnlyServer(m) /\ ServerOK(x)
      /\ x.masterhost = s.masterhost /\ x.repl_state = "connected" /\ x.off = l.rdb.off
      /\ DroppedSlaves(m, x) /\ link' \in [Running -> LinkSet]
      /\ k.peer = l.peer /\ k.reply = None /\ k.rdb = None /\ k.stream = l.stream
  BY ReceiveSnapshotShape
<1>2. /\ ServerOK(s) /\ LinkOK(m, s, l) /\ used' \in Counts
      /\ s.masterhost \in Running \cup {None} /\ k \in LinkSet
  BY <1>1 DEF IInv
<1>3. OnlyRoleOf(m)
  BY <1>1, OnlyServerRole
<1>4. LinkOK(m, x, k)
  BY <1>1, <1>2 DEF LinkOK
<1>5. ASSUME NEW n \in Running \ {m} PROVE Follows(n, srv'[n], m, x, k)
  <2>1. Follows(n, srv[n], m, s, l) /\ srv'[n] = srv[n]
    BY <1>1 DEF IInv, OnlyServer
  <2>2. Flowing(x, k)
    BY <1>1 DEF Flowing
  <2>3. BaseOff(x, k) = BaseOff(s, l)
    BY <1>1 DEF BaseOff
  <2> QED
    BY <1>1, <2>1, <2>2, <2>3 DEF Follows
<1> HIDE DEF x, k
<1> QED
  BY <1>1, <1>2, <1>3, <1>4, <1>5, RoleKeeps DEF x, k

LEMMA SaveShape ==
    ASSUME IInv, NEW m \in Running, Save(m)
    PROVE  LET s == srv[m]
               x == srv'[m]
           IN  /\ s.bgsave = None /\ used' \in Counts /\ used'.ids = used.ids
               /\ OnlyServer(m) /\ ServerOK(x) /\ SameIds(x, s) /\ SameRole(x, s)
               /\ x.disk = s.disk /\ x.bgsave = Snapshot(s) /\ x.slaves = s.slaves
               /\ x.data = s.data /\ x.off = s.off /\ x.backlog = s.backlog
               /\ link' = link /\ KeptSlaves(m, x)
<1> DEFINE s == srv[m]
           x == [s EXCEPT !.bgsave = Snapshot(s)]
<1>1. /\ s.bgsave = None /\ used' \in Counts /\ used'.ids = used.ids
      /\ srv' = [srv EXCEPT ![m] = x] /\ link' = link
  BY DEF Save, IInv, Counts
<1>2. ServerOK(s) /\ srv \in [Running -> ServerSet]
  BY DEF IInv
<1>3. /\ ServerOK(x) /\ SameIds(x, s) /\ SameRole(x, s) /\ x.disk = s.disk
      /\ x.bgsave = Snapshot(s) /\ x.slaves = s.slaves
      /\ x.data = s.data /\ x.off = s.off /\ x.backlog = s.backlog
  <2>1. x = [s EXCEPT !.bgsave = Snapshot(s)]
    OBVIOUS
  <2> HIDE DEF s, x
  <2> QED
    BY <1>2, <2>1, SaveOK
<1> HIDE DEF x
<1>4. OnlyServer(m) /\ srv'[m] = x
  <2>1. x \in ServerSet
    BY <1>3 DEF ServerOK
  <2> QED
    BY <1>1, <1>2, <2>1, OneChanged DEF OnlyServer
<1>5. \A r \in Running : s.slaves[r] # "wait_end"
  BY <1>1 DEF IInv, Follows
<1>6. KeptSlaves(m, x)
  BY <1>1, <1>3, <1>5 DEF KeptSlaves
<1> QED
  BY <1>1, <1>3, <1>4, <1>6

LEMMA FreeBacklogShape ==
    ASSUME IInv, NEW m \in Running, FreeBacklog(m)
    PROVE  LET s == srv[m]
               x == srv'[m]
           IN  /\ s.masterhost = None /\ used' \in Counts /\ used'.ids = used.ids + 1
               /\ OnlyServer(m) /\ ServerOK(x) /\ SameFiles(x, s) /\ SameRole(x, s)
               /\ x.slaves = s.slaves /\ x.data = s.data /\ x.off = s.off /\ ~x.backlog.on
               /\ x.replid = used.ids + 1 /\ x.replid2 = None
               /\ link' = link /\ KeptSlaves(m, x)
<1> DEFINE s == srv[m]
           id == NewId
           x == freeReplicationBacklog(s, id)
<1>1. /\ s.masterhost = None /\ Slaves(s) = {} /\ used' \in Counts
      /\ used'.ids = used.ids + 1 /\ id \in Nat /\ id = used.ids + 1
      /\ srv' = [srv EXCEPT ![m] = x] /\ link' = link
  BY DEF FreeBacklog, IInv, Counts, NewId
<1>2. ServerOK(s) /\ srv \in [Running -> ServerSet]
  BY DEF IInv
<1>3. /\ ServerOK(x) /\ SameFiles(x, s) /\ SameRole(x, s) /\ x.slaves = s.slaves
      /\ x.data = s.data /\ x.off = s.off /\ ~x.backlog.on
      /\ x.replid = id /\ x.replid2 = None
  <2>1. x = freeReplicationBacklog(s, id)
    OBVIOUS
  <2> HIDE DEF s, x, id
  <2> QED
    BY <1>1, <1>2, <2>1, FreeBacklogOK
<1> HIDE DEF x
<1>4. OnlyServer(m) /\ srv'[m] = x
  <2>1. x \in ServerSet
    BY <1>3 DEF ServerOK
  <2> QED
    BY <1>1, <1>2, <2>1, OneChanged DEF OnlyServer
<1>5. KeptSlaves(m, x)
  BY <1>1, <1>3 DEF KeptSlaves, SameFiles
<1> QED
  BY <1>1, <1>3, <1>4, <1>5

\* The link of a server that keeps its role.
LEMMA SameRoleKeeps ==
    ASSUME IInv, NEW m \in Running, scenario' = scenario, used' \in Counts, link' = link,
           NEW x, x = srv'[m], OnlyServer(m), ServerOK(x), SameRole(x, srv[m]),
           KeptSlaves(m, x)
    PROVE  IInv'
<1> DEFINE k == link[m]
<1>1. OnlyRoleOf(m) /\ link' \in [Running -> LinkSet] /\ k = link'[m]
  BY OnlyServerRole DEF IInv
<1>2. LinkOK(m, srv[m], k) /\ srv[m].masterhost \in Running \cup {None}
  BY DEF IInv
<1>3. LinkOK(m, x, k) /\ x.masterhost \in Running \cup {None}
  BY <1>2, LinkOKRole DEF SameRole
<1>4. ASSUME NEW n \in Running \ {m} PROVE Follows(n, srv'[n], m, x, k)
  <2>1. Follows(n, srv[n], m, srv[m], k) /\ srv'[n] = srv[n]
    BY DEF IInv, OnlyServer
  <2>2. x.repl_state = srv[m].repl_state /\ x.off = srv[m].off
    BY DEF SameRole, KeptSlaves
  <2> HIDE DEF k
  <2> QED
    BY <2>1, <2>2, FollowsSame
<1> HIDE DEF k
<1> QED
  BY <1>1, <1>3, <1>4, RoleKeeps

LEMMA SaveKeeps ==
    ASSUME IInv, NEW m \in Running, Save(m), scenario' = scenario
    PROVE  IInv'
<1> DEFINE x == srv'[m]
<1>1. /\ used' \in Counts /\ OnlyServer(m) /\ ServerOK(x) /\ SameRole(x, srv[m])
      /\ link' = link /\ KeptSlaves(m, x)
  BY SaveShape
<1> HIDE DEF x
<1> QED
  BY <1>1, SameRoleKeeps DEF x

LEMMA FreeBacklogKeeps ==
    ASSUME IInv, NEW m \in Running, FreeBacklog(m), scenario' = scenario
    PROVE  IInv'
<1> DEFINE x == srv'[m]
<1>1. /\ used' \in Counts /\ OnlyServer(m) /\ ServerOK(x) /\ SameRole(x, srv[m])
      /\ link' = link /\ KeptSlaves(m, x)
  BY FreeBacklogShape
<1> HIDE DEF x
<1> QED
  BY <1>1, SameRoleKeeps DEF x

\* r's master, if it has one, does not have r as a replica any more.
LEMMA DetachedFacts ==
    ASSUME IInv, NEW r \in Running
    PROVE  /\ Detached(srv, r) \in [Running -> ServerSet] /\ Detached(srv, r)[r] = srv[r]
           /\ \A n \in Running \ {r} :
                 \/ Detached(srv, r)[n] = Without(srv[n], {r})
                 \/ Detached(srv, r)[n] = srv[n] /\ srv[n].slaves[r] = "none"
<1>1. srv \in [Running -> ServerSet] /\ LinkOK(r, srv[r], link[r]) /\ None \notin Running
      /\ srv[r].masterhost \in Running \cup {None}
  BY RunningServers, ReplicationAssumption DEF IInv
<1>2. \A n \in Running : srv[n].slaves[r] # "none" => link[r].peer = n
  BY OneMaster
<1>3. CASE link[r].peer = None
  <2>1. Detached(srv, r) = srv
    BY <1>3 DEF Detached
  <2>2. \A n \in Running : srv[n].slaves[r] = "none"
    BY <1>1, <1>2, <1>3
  <2> QED
    BY <1>1, <2>1, <2>2
<1>4. CASE link[r].peer # None
  <2> DEFINE p == link[r].peer
             y == Without(srv[p], {r})
  <2>1. p \in Running /\ p # r
    BY <1>1, <1>4 DEF LinkOK
  <2>2. srv[p] \in ServerSet
    BY <1>1, <2>1
  <2>3. y \in ServerSet
    BY <2>2, WithoutFacts
  <2>4. Detached(srv, r) = [srv EXCEPT ![p] = y]
    BY <1>4 DEF Detached
  <2>5. \A n \in Running : n # p => srv[n].slaves[r] = "none"
    BY <1>2
  <2>6. y = Without(srv[p], {r})
    OBVIOUS
  <2> HIDE DEF p, y
  <2>7. /\ Detached(srv, r) \in [Running -> ServerSet] /\ Detached(srv, r)[p] = y
        /\ \A q \in Running : q # p => Detached(srv, r)[q] = srv[q]
    BY <1>1, <2>1, <2>3, <2>4, OneChanged
  <2> QED
    BY <2>1, <2>5, <2>6, <2>7
<1> QED
  BY <1>3, <1>4

LEMMA DetachShape ==
    ASSUME IInv, NEW r \in Running, NEW x, ServerOK(x),
           srv' = [Detached(srv, r) EXCEPT ![r] = x]
    PROVE  /\ OnlyRoleOf(r) /\ srv'[r] = x
           /\ \A n \in Running \ {r} : srv'[n].slaves[r] = "none"
<1> DEFINE f == Detached(srv, r)
<1>1. /\ f \in [Running -> ServerSet]
      /\ \A n \in Running \ {r} :
            \/ f[n] = Without(srv[n], {r})
            \/ f[n] = srv[n] /\ srv[n].slaves[r] = "none"
  BY DetachedFacts
<1>2. x \in ServerSet /\ srv' = [f EXCEPT ![r] = x]
  BY DEF ServerOK
<1> HIDE DEF f
<1>3. /\ srv' \in [Running -> ServerSet] /\ srv'[r] = x
      /\ \A n \in Running : n # r => srv'[n] = f[n]
  <2>1. f \in [Running -> ServerSet] /\ x \in ServerSet /\ srv' = [f EXCEPT ![r] = x]
    BY <1>1, <1>2
  <2> QED
    BY <2>1
<1>4. ASSUME NEW n \in Running \ {r}
      PROVE  /\ ServerOK(srv'[n]) /\ SameRole(srv'[n], srv[n]) /\ SameIds(srv'[n], srv[n])
             /\ SameFiles(srv'[n], srv[n]) /\ srv'[n].data = srv[n].data
             /\ srv'[n].off = srv[n].off /\ srv'[n].backlog = srv[n].backlog
             /\ srv'[n].slaves[r] = "none"
             /\ \A q \in Servers \ {r} : srv'[n].slaves[q] = srv[n].slaves[q]
  <2>1. ServerOK(srv[n]) /\ srv[n] \in ServerSet /\ r \in Servers
    BY RunningServers DEF IInv
  <2>2. CASE f[n] = srv[n] /\ srv[n].slaves[r] = "none"
    BY <1>3, <2>1, <2>2 DEF SameRole, SameIds, SameFiles
  <2>3. CASE f[n] = Without(srv[n], {r})
    <3> DEFINE y == f[n]
    <3>1. y = Without(srv[n], {r}) /\ srv'[n] = y
      BY <1>3, <2>3
    <3> HIDE DEF y
    <3>2. /\ SameIds(y, srv[n]) /\ SameFiles(y, srv[n]) /\ SameRole(y, srv[n])
          /\ y.data = srv[n].data /\ y.off = srv[n].off /\ y.backlog = srv[n].backlog
          /\ \A q \in Servers : y.slaves[q] = IF q \in {r} THEN "none" ELSE srv[n].slaves[q]
      BY <2>1, <3>1, WithoutFacts
    <3>3. ServerOK(y)
      BY <2>1, <3>1, WithoutOK
    <3> QED
      BY <2>1, <3>1, <3>2, <3>3
  <2> QED
    BY <1>1, <2>2, <2>3
<1> QED
  BY <1>3, <1>4 DEF OnlyRoleOf

LEMMA NoLinkFacts ==
    /\ NoLink \in LinkSet /\ NoLink.peer = None /\ NoLink.reply = None
    /\ NoLink.rdb = None /\ NoLink.stream = <<>>
<1> DEFINE z == <<>>
<1>1. z \in Seq(Writes) /\ z = <<>>
  OBVIOUS
<1>2. NoLink = [peer |-> None, reply |-> None, rdb |-> None, stream |-> z]
  BY DEF NoLink
<1> HIDE DEF z
<1> QED
  BY <1>1, <1>2 DEF LinkSet

\* r loses its link and goes on as x.
LEMMA DetachKeeps ==
    ASSUME IInv, NEW r \in Running, scenario' = scenario, used' \in Counts,
           NEW x, x = srv'[r], ServerOK(x), x.repl_state \in {"none", "connect"},
           x.masterhost \in Running \cup {None}, OnlyRoleOf(r),
           \A n \in Running \ {r} : srv'[n].slaves[r] = "none",
           link' \in [Running -> LinkSet], link'[r] = NoLink,
           KeptSlaves(r, x) \/ DroppedSlaves(r, x)
    PROVE  IInv'
<1> DEFINE k == NoLink
<1>1. k = link'[r] /\ k \in LinkSet
  BY NoLinkFacts
<1>2. LinkOK(r, x, k)
  BY NoLinkFacts DEF LinkOK
<1> HIDE DEF k
<1>3. \A n \in Running \ {r} : Follows(n, srv'[n], r, x, k)
  BY FollowsNone
<1> QED
  BY <1>1, <1>2, <1>3, RoleKeeps

\* What Disconnect() and the other ways to lose a link have in common: r goes on
\* as x, without a link.
Cut(r, x) ==
    /\ srv'[r] = x /\ ServerOK(x) /\ x.repl_state \in {"none", "connect"} /\ x.master = None
    /\ x.masterhost \in Running \cup {None} /\ OnlyRoleOf(r)
    /\ \A n \in Running \ {r} : srv'[n].slaves[r] = "none"
    /\ link' \in [Running -> LinkSet] /\ link'[r] = NoLink

LEMMA CutKeeps ==
    ASSUME IInv, NEW r \in Running, scenario' = scenario, used' \in Counts,
           Cut(r, srv'[r]), KeptSlaves(r, srv'[r]) \/ DroppedSlaves(r, srv'[r])
    PROVE  IInv'
<1> DEFINE x == srv'[r]
<1>1. /\ ServerOK(x) /\ x.repl_state \in {"none", "connect"} /\ x = srv'[r]
      /\ x.masterhost \in Running \cup {None} /\ OnlyRoleOf(r)
      /\ \A n \in Running \ {r} : srv'[n].slaves[r] = "none"
      /\ link' \in [Running -> LinkSet] /\ link'[r] = NoLink
      /\ KeptSlaves(r, x) \/ DroppedSlaves(r, x)
  BY DEF Cut
<1> HIDE DEF x
<1> QED
  BY <1>1, DetachKeeps

\* The links, when r keeps its replicas and when it closes them.
LEMMA CutKept ==
    ASSUME IInv, NEW r \in Running, NEW x, ServerOK(x), x.repl_state \in {"none", "connect"},
           x.master = None, x.masterhost \in Running \cup {None},
           srv' = [Detached(srv, r) EXCEPT ![r] = x],
           x.slaves = srv[r].slaves, x.off = srv[r].off, x.bgsave = srv[r].bgsave,
           link' = [link EXCEPT ![r] = NoLink]
    PROVE  Cut(r, x) /\ KeptSlaves(r, x)
<1>1. /\ OnlyRoleOf(r) /\ srv'[r] = x
      /\ \A n \in Running \ {r} : srv'[n].slaves[r] = "none"
  BY DetachShape
<1>2. link \in [Running -> LinkSet] /\ NoLink \in LinkSet
  BY NoLinkFacts DEF IInv
<1>3. /\ link' \in [Running -> LinkSet] /\ link'[r] = NoLink
      /\ \A q \in Running : q # r => link'[q] = link[q]
  BY <1>2, OneChanged
<1> QED
  BY <1>1, <1>3 DEF Cut, KeptSlaves

LEMMA CutLinks ==
    ASSUME IInv, NEW r \in Running, NEW x, \A q \in Servers : x.slaves[q] = "none",
           link' = CloseSlaves([link EXCEPT ![r] = NoLink], srv[r], Slaves(srv[r]))
    PROVE  link' \in [Running -> LinkSet] /\ DroppedSlaves(r, x) /\ link'[r] = NoLink
<1> DEFINE f == [link EXCEPT ![r] = NoLink]
<1>1. link \in [Running -> LinkSet] /\ NoLink \in LinkSet
  BY NoLinkFacts DEF IInv
<1>2. f \in [Running -> LinkSet] /\ f[r] = NoLink /\ \A q \in Running \ {r} : f[q] = link[q]
  BY <1>1, OneChanged
<1>3. link' = CloseSlaves(f, srv[r], Slaves(srv[r]))
  OBVIOUS
<1> HIDE DEF f
<1>4. link' \in [Running -> LinkSet] /\ DroppedSlaves(r, x) /\ link'[r] = f[r]
  BY <1>2, <1>3, CloseAll
<1> QED
  BY <1>2, <1>4

LEMMA CutDropped ==
    ASSUME IInv, NEW r \in Running, NEW x, ServerOK(x), x.repl_state \in {"none", "connect"},
           x.master = None, x.masterhost \in Running \cup {None},
           srv' = [Detached(srv, r) EXCEPT ![r] = x],
           \A q \in Servers : x.slaves[q] = "none",
           link' = CloseSlaves([link EXCEPT ![r] = NoLink], srv[r], Slaves(srv[r]))
    PROVE  Cut(r, x) /\ DroppedSlaves(r, x)
<1>1. /\ OnlyRoleOf(r) /\ srv'[r] = x
      /\ \A n \in Running \ {r} : srv'[n].slaves[r] = "none"
  BY DetachShape
<1>2. link' \in [Running -> LinkSet] /\ DroppedSlaves(r, x) /\ link'[r] = NoLink
  BY CutLinks
<1> QED
  BY <1>1, <1>2 DEF Cut

LEMMA DisconnectShape ==
    ASSUME IInv, NEW r \in Running, Disconnect(r)
    PROVE  LET s == srv[r]
               x == srv'[r]
           IN  /\ Cut(r, x) /\ KeptSlaves(r, x) /\ SameIds(x, s) /\ SameFiles(x, s)
               /\ x.masterhost = s.masterhost /\ x.data = s.data /\ x.off = s.off
               /\ x.backlog = s.backlog
               /\ x.cached_master = IF s.master = None THEN s.cached_master ELSE s.master
<1> DEFINE s == srv[r]
           x == Unlink(s)
<1>1. Detached(srv, r)[r] = s /\ ServerOK(s) /\ s.masterhost \in Running \cup {None}
  BY DetachedFacts DEF IInv
<1>2. /\ srv' = [Detached(srv, r) EXCEPT ![r] = x]
      /\ link' = [link EXCEPT ![r] = NoLink]
  BY <1>1 DEF Disconnect
<1>3. /\ ServerOK(x) /\ SameIds(x, s) /\ SameFiles(x, s)
      /\ x.masterhost = s.masterhost /\ x.repl_state \in {"none", "connect"}
      /\ x.data = s.data /\ x.off = s.off /\ x.backlog = s.backlog
      /\ x.slaves = s.slaves /\ x.master = None
      /\ x.cached_master = IF s.master = None THEN s.cached_master ELSE s.master
  BY <1>1, UnlinkOK
<1>4. x.bgsave = s.bgsave /\ x.masterhost \in Running \cup {None}
  BY <1>1, <1>3 DEF SameFiles
<1>5. Cut(r, x) /\ KeptSlaves(r, x)
  <2> HIDE DEF x
  <2> QED
    BY <1>2, <1>3, <1>4, CutKept
<1>6. srv'[r] = x
  BY <1>5 DEF Cut
<1> HIDE DEF x
<1> QED
  BY <1>3, <1>5, <1>6

LEMMA LoadFailsShape ==
    ASSUME IInv, NEW r \in Running, LoadFails(r)
    PROVE  LET s == srv[r]
               x == srv'[r]
               snap == link[r].rdb
           IN  /\ used' \in Counts /\ used'.ids = used.ids
               /\ snap \in Snapshots /\ snap # None /\ s.repl_state = "transfer"
               /\ Cut(r, x) /\ KeptSlaves(r, x) /\ SameIds(x, s)
               /\ x.disk = snap /\ x.bgsave = s.bgsave
               /\ x.masterhost = s.masterhost /\ ~x.backlog.on /\ x.cached_master = None
<1> DEFINE s == srv[r]
           snap == link[r].rdb
           x == LoadedNothing(s, snap)
<1>1. Detached(srv, r)[r] = s /\ ServerOK(s) /\ s.masterhost \in Running \cup {None}
  BY DetachedFacts DEF IInv
<1>2. /\ srv' = [Detached(srv, r) EXCEPT ![r] = x]
      /\ link' = [link EXCEPT ![r] = NoLink] /\ SnapshotArrives(r)
      /\ used' \in Counts /\ used'.ids = used.ids
  BY <1>1 DEF LoadFails, IInv, Counts
<1>3. s.repl_state = "transfer" /\ snap \in Snapshots /\ snap # None
  BY <1>2, ArrivesFacts
<1>4. /\ ServerOK(x) /\ SameIds(x, s) /\ x.disk = snap /\ x.bgsave = s.bgsave
      /\ x.masterhost = s.masterhost /\ x.repl_state \in {"none", "connect"}
      /\ x.slaves = s.slaves /\ x.off = s.off /\ ~x.backlog.on
      /\ x.master = None /\ x.cached_master = None
  <2> HIDE DEF snap
  <2> QED
    BY <1>1, <1>3, LoadedNothingOK
<1>5. x.masterhost \in Running \cup {None}
  BY <1>1, <1>4
<1>6. Cut(r, x) /\ KeptSlaves(r, x)
  <2> HIDE DEF x
  <2> QED
    BY <1>2, <1>4, <1>5, CutKept
<1>7. srv'[r] = x
  BY <1>6 DEF Cut
<1> HIDE DEF x
<1> QED
  BY <1>2, <1>3, <1>4, <1>6, <1>7

LEMMA SetMasterShape ==
    ASSUME IInv, NEW r \in Running, NEW m \in Running, replicationSetMaster(r, m)
    PROVE  LET s == srv[r]
               x == srv'[r]
           IN  /\ used' \in Counts /\ used'.ids = used.ids
               /\ Cut(r, x) /\ DroppedSlaves(r, x) /\ SameIds(x, s) /\ SameFiles(x, s)
               /\ x.masterhost = m /\ x.data = s.data /\ x.off = s.off
               /\ x.backlog = s.backlog
               /\ s.masterhost = None => x.cached_master # None
               /\ s.masterhost # None =>
                     x.cached_master = IF s.master = None THEN s.cached_master ELSE s.master
<1> DEFINE s == srv[r]
           x == BecomesReplica(s, m)
<1>1. Detached(srv, r)[r] = s /\ ServerOK(s) /\ m \in Servers
  BY DetachedFacts, RunningServers DEF IInv
<1>2. /\ srv' = [Detached(srv, r) EXCEPT ![r] = x]
      /\ link' = CloseSlaves([link EXCEPT ![r] = NoLink], srv[r], Slaves(srv[r]))
      /\ used' \in Counts /\ used'.ids = used.ids
  BY <1>1 DEF replicationSetMaster, IInv, Counts
<1>3. /\ ServerOK(x) /\ SameIds(x, s) /\ SameFiles(x, s)
      /\ x.masterhost = m /\ x.repl_state = "connect" /\ x.master = None
      /\ x.data = s.data /\ x.off = s.off /\ x.backlog = s.backlog
      /\ s.masterhost = None => x.cached_master # None
      /\ s.masterhost # None =>
            x.cached_master = IF s.master = None THEN s.cached_master ELSE s.master
      /\ \A q \in Servers : x.slaves[q] = "none"
  BY <1>1, BecomesReplicaOK
<1>4. x.repl_state \in {"none", "connect"} /\ x.masterhost \in Running \cup {None}
  BY <1>3
<1>5. Cut(r, x) /\ DroppedSlaves(r, x)
  <2> HIDE DEF x
  <2> QED
    BY <1>2, <1>3, <1>4, CutDropped
<1>6. srv'[r] = x
  BY <1>5 DEF Cut
<1> HIDE DEF x
<1> QED
  BY <1>2, <1>3, <1>5, <1>6

LEMMA UnsetMasterShape ==
    ASSUME IInv, NEW r \in Running, replicationUnsetMaster(r)
    PROVE  LET s == srv[r]
               x == srv'[r]
           IN  /\ used' \in Counts /\ used'.ids = used.ids + 1 /\ s.masterhost # None
               /\ Cut(r, x) /\ DroppedSlaves(r, x) /\ SameFiles(x, s)
               /\ x.masterhost = None /\ x.cached_master = None
               /\ x.data = s.data /\ x.off = s.off /\ x.backlog = s.backlog
               /\ x.replid = used.ids + 1 /\ x.replid2 = s.replid
               /\ x.second_replid_offset = s.off + 1
<1> DEFINE s == srv[r]
           id == NewId
           x == BecomesMaster(s, id)
<1>1. Detached(srv, r)[r] = s /\ ServerOK(s)
  BY DetachedFacts DEF IInv
<1>2. /\ srv' = [Detached(srv, r) EXCEPT ![r] = x]
      /\ link' = CloseSlaves([link EXCEPT ![r] = NoLink], srv[r], Slaves(srv[r]))
      /\ used' \in Counts /\ used'.ids = used.ids + 1 /\ s.masterhost # None
      /\ id \in Nat /\ id = used.ids + 1
  <2>1. /\ used' \in Counts /\ used'.ids = used.ids + 1 /\ s.masterhost # None
        /\ id \in Nat /\ id = used.ids + 1
    <3> DEFINE a == used.ids + 1
               b == used.changes + 1
    <3>1. used' = [used EXCEPT !.changes = b, !.ids = a] /\ s.masterhost # None
      BY DEF replicationUnsetMaster
    <3>2. used \in Counts /\ a \in Nat /\ b \in Nat /\ id = a
      BY DEF IInv, Counts, NewId
    <3>3. a = used.ids + 1
      OBVIOUS
    <3> HIDE DEF a, b
    <3>4. used' \in Counts /\ used'.ids = a
      BY <3>1, <3>2 DEF Counts
    <3> QED
      BY <3>1, <3>2, <3>3, <3>4
  <2> HIDE DEF id
  <2>2. srv' = [Detached(srv, r) EXCEPT ![r] = BecomesMaster(@, id)]
    BY DEF replicationUnsetMaster, id
  <2>3. link' = CloseSlaves([link EXCEPT ![r] = NoLink], srv[r], Slaves(srv[r]))
    BY DEF replicationUnsetMaster
  <2> QED
    BY <1>1, <2>1, <2>2, <2>3
<1>3. /\ ServerOK(x) /\ SameFiles(x, s)
      /\ x.masterhost = None /\ x.repl_state = "none"
      /\ x.master = None /\ x.cached_master = None
      /\ x.data = s.data /\ x.off = s.off /\ x.backlog = s.backlog
      /\ x.replid = id /\ x.replid2 = s.replid /\ x.second_replid_offset = s.off + 1
      /\ \A q \in Servers : x.slaves[q] = "none"
  <2>1. id \in Nat /\ x = BecomesMaster(s, id)
    BY <1>2
  <2>2. ServerOK(s)
    BY <1>1
  <2> HIDE DEF s, id, x
  <2>3. Promoted(x, s, id)
    BY <2>1, <2>2, BecomesMasterOK, Zenon
  <2> QED
    BY <2>3 DEF Promoted
<1>4. x.repl_state \in {"none", "connect"} /\ x.masterhost \in Running \cup {None}
  BY <1>3
<1>5. Cut(r, x) /\ DroppedSlaves(r, x)
  <2> HIDE DEF x
  <2> QED
    BY <1>2, <1>3, <1>4, CutDropped
<1>6. srv'[r] = x
  BY <1>5 DEF Cut
<1> HIDE DEF x
<1> QED
  BY <1>2, <1>3, <1>5, <1>6

LEMMA RestartShape ==
    ASSUME IInv, NEW r \in Running, Restart(r)
    PROVE  LET s == srv[r]
               x == srv'[r]
               k == s.disk
           IN  /\ used' \in Counts /\ used'.ids = used.ids + 1 /\ k \in Snapshots
               /\ Cut(r, x) /\ DroppedSlaves(r, x)
               /\ x.disk = k /\ x.bgsave = None /\ x.masterhost = s.masterhost
               /\ ~x.backlog.on /\ x.replid2 = None /\ x.data = k.data
               /\ (s.masterhost # None /\ k.info) =>
                     x.cached_master # None /\ x.replid = k.replid /\ x.off = k.off
               /\ ~(s.masterhost # None /\ k.info) =>
                     x.cached_master = None /\ x.replid = used.ids + 1
<1> DEFINE s == srv[r]
           id == NewId
           k == s.disk
           h == s.masterhost
           x == Started(s, id)
<1>1. Detached(srv, r)[r] = s /\ s \in ServerSet /\ h \in Running \cup {None}
  BY DetachedFacts DEF IInv
<1>2. /\ srv' = [Detached(srv, r) EXCEPT ![r] = x]
      /\ link' = CloseSlaves([link EXCEPT ![r] = NoLink], srv[r], Slaves(srv[r]))
      /\ used' \in Counts /\ used'.ids = used.ids + 1
      /\ id \in Nat /\ id = used.ids + 1
  <2>1. /\ used' \in Counts /\ used'.ids = used.ids + 1
        /\ id \in Nat /\ id = used.ids + 1
    <3> DEFINE a == used.ids + 1
               b == used.faults + 1
    <3>1. used' = [used EXCEPT !.faults = b, !.ids = a]
      BY DEF Restart
    <3>2. used \in Counts /\ a \in Nat /\ b \in Nat /\ id = a
      BY DEF IInv, Counts, NewId
    <3>3. a = used.ids + 1
      OBVIOUS
    <3> HIDE DEF a, b
    <3>4. used' \in Counts /\ used'.ids = a
      BY <3>1, <3>2 DEF Counts
    <3> QED
      BY <3>1, <3>2, <3>3, <3>4
  <2> HIDE DEF id
  <2>2. srv' = [Detached(srv, r) EXCEPT ![r] = Started(@, id)]
    BY DEF Restart, id
  <2>3. link' = CloseSlaves([link EXCEPT ![r] = NoLink], srv[r], Slaves(srv[r]))
    BY DEF Restart
  <2> QED
    BY <1>1, <2>1, <2>2, <2>3
<1>3. k \in Snapshots /\ h \in Servers \cup {None}
  BY <1>1 DEF ServerSet
<1>4. /\ ServerOK(x) /\ x.disk = k /\ x.bgsave = None /\ x.masterhost = h
      /\ x.repl_state \in {"none", "connect"} /\ ~x.backlog.on /\ x.replid2 = None
      /\ x.data = k.data /\ x.master = None
      /\ \A q \in Servers : x.slaves[q] = "none"
      /\ (h # None /\ k.info) =>
            x.cached_master # None /\ x.replid = k.replid /\ x.off = k.off
      /\ ~(h # None /\ k.info) => x.cached_master = None /\ x.replid = id
  <2>1. s.disk = k /\ s.masterhost = h /\ x = Started(s, id)
    OBVIOUS
  <2>2. id \in Nat
    BY <1>2
  <2> HIDE DEF s, k, h, id, x
  <2>3. StartsAs(x, k, h, id)
    BY <1>3, <2>1, <2>2, StartedOK, Zenon
  <2> QED
    BY <2>3 DEF StartsAs
<1>5. Cut(r, x) /\ DroppedSlaves(r, x)
  <2> HIDE DEF x
  <2> QED
    BY <1>1, <1>2, <1>4, CutDropped
<1>6. srv'[r] = x
  BY <1>5 DEF Cut
<1> HIDE DEF x
<1> QED
  BY <1>2, <1>3, <1>4, <1>5, <1>6

LEMMA LinkLostKeeps ==
    ASSUME IInv, NEW r \in Running, LinkLost(r), scenario' = scenario
    PROVE  IInv'
<1>1. used' \in Counts /\ Disconnect(r)
  BY DEF LinkLost, IInv, Counts
<1> QED
  BY <1>1, DisconnectShape, CutKeeps

LEMMA LinkClosedKeeps ==
    ASSUME IInv, NEW r \in Running, LinkClosed(r), scenario' = scenario
    PROVE  IInv'
<1>1. used' \in Counts /\ Disconnect(r)
  BY DEF LinkClosed, IInv
<1> QED
  BY <1>1, DisconnectShape, CutKeeps

LEMMA LoadFailsKeeps ==
    ASSUME IInv, NEW r \in Running, LoadFails(r), scenario' = scenario
    PROVE  IInv'
  BY LoadFailsShape, CutKeeps

LEMMA SetMasterKeeps ==
    ASSUME IInv, NEW r \in Running, NEW m \in Running, replicationSetMaster(r, m),
           scenario' = scenario
    PROVE  IInv'
  BY SetMasterShape, CutKeeps

LEMMA UnsetMasterKeeps ==
    ASSUME IInv, NEW r \in Running, replicationUnsetMaster(r), scenario' = scenario
    PROVE  IInv'
  BY UnsetMasterShape, CutKeeps

LEMMA RestartKeeps ==
    ASSUME IInv, NEW r \in Running, Restart(r), scenario' = scenario
    PROVE  IInv'
  BY RestartShape, CutKeeps
-----------------------------------------------------------------------------
(* A master changes what it has of its replicas. *)

\* The replica q of m is looked after: m's end of the link, now of x, and q's agree.
LookedAfter(m, x, q) ==
    LET t == srv'[q]
        s == srv[q]
    IN  /\ ServerOK(t) /\ t.masterhost = s.masterhost /\ t.slaves = s.slaves
        /\ t.bgsave = s.bgsave /\ t.off = s.off
        /\ LinkOK(q, t, link'[q]) /\ Follows(m, x, q, t, link'[q])
        /\ \/ t.repl_state = s.repl_state /\ link'[q] = link[q]
           \/ \A n \in Running \ {m} : srv[n].slaves[q] = "none"

LEMMA MasterKeeps ==
    ASSUME IInv, NEW m \in Running, NEW x, x = srv'[m], scenario' = scenario, used' \in Counts,
           srv' \in [Running -> ServerSet], link' \in [Running -> LinkSet],
           ServerOK(x), SameRole(x, srv[m]), x.off = srv[m].off, Slaves(x) \subseteq Running,
           x.slaves[m] = "none", link'[m] = link[m],
           \A q \in Running \ {m} : LookedAfter(m, x, q)
    PROVE  IInv'
<1>1. \A r \in Running :
            /\ srv[r].masterhost \in Running \cup {None} /\ Slaves(srv[r]) \subseteq Running
            /\ LinkOK(r, srv[r], link[r])
  BY DEF IInv
<1>2. ASSUME NEW r \in Running
      PROVE  /\ srv'[r].masterhost \in Running \cup {None} /\ Slaves(srv'[r]) \subseteq Running
             /\ ServerOK(srv'[r]) /\ LinkOK(r, srv'[r], link'[r])
  <2>1. CASE r = m
    <3>1. LinkOK(m, x, link[m])
      BY <1>1, LinkOKRole
    <3>2. x.masterhost = srv[m].masterhost
      BY DEF SameRole
    <3> QED
      BY <1>1, <2>1, <3>1, <3>2
  <2>2. CASE r # m
    <3>1. /\ ServerOK(srv'[r]) /\ srv'[r].masterhost = srv[r].masterhost
          /\ srv'[r].slaves = srv[r].slaves /\ LinkOK(r, srv'[r], link'[r])
      BY <2>2 DEF LookedAfter
    <3>2. Slaves(srv'[r]) = Slaves(srv[r])
      BY <3>1 DEF Slaves
    <3> QED
      BY <1>1, <3>1, <3>2
  <2> QED
    BY <2>1, <2>2
<1>3. ASSUME NEW n \in Running, NEW r \in Running
      PROVE  Follows(n, srv'[n], r, srv'[r], link'[r])
  <2>1. Follows(n, srv[n], r, srv[r], link[r])
    BY DEF IInv
  <2>2. CASE n = m /\ r = m
    BY <2>2, FollowsNone
  <2>3. CASE n = m /\ r # m
    BY <2>3 DEF LookedAfter
  <2>4. CASE n # m
    <3>1. srv'[n].slaves = srv[n].slaves /\ srv'[n].bgsave = srv[n].bgsave /\ srv'[n].off = srv[n].off
      BY <2>4 DEF LookedAfter
    <3>2. CASE srv[n].slaves[r] = "none"
      BY <3>1, <3>2, FollowsNone
    <3>3. CASE srv[n].slaves[r] # "none"
      <4>1. CASE r = m
        <5>1. x.repl_state = srv[m].repl_state /\ x.off = srv[m].off
          BY DEF SameRole
        <5> QED
          BY <2>1, <3>1, <4>1, <5>1, FollowsSame
      <4>2. CASE r # m
        <5>1. srv'[r].repl_state = srv[r].repl_state /\ link'[r] = link[r]
              /\ srv'[r].off = srv[r].off
          BY <2>4, <3>3, <4>2 DEF LookedAfter
        <5> QED
          BY <2>1, <3>1, <5>1, FollowsSame
      <4> QED
        BY <4>1, <4>2
    <3> QED
      BY <3>2, <3>3
  <2> QED
    BY <2>2, <2>3, <2>4
<1> QED
  BY <1>2, <1>3, StepKeepsIInv

\* The reply to PSYNC and the snapshot that comes with it.
FullySent(k, l, x, snap) ==
    /\ k \in LinkSet /\ k.peer = l.peer /\ k.reply \in Replies /\ k.reply # None
    /\ k.reply.type = "full" /\ k.reply.replid = x.replid /\ k.reply.off = snap.off
    /\ k.rdb = snap /\ k.rdb # None /\ k.stream = <<>>

LEMMA FullReplyFacts ==
    ASSUME NEW l \in LinkSet, NEW x \in ServerSet, NEW snap \in Snapshots,
           NEW k, k = FullReply(l, x, snap)
    PROVE  FullySent(k, l, x, snap)
<1> DEFINE a == [type |-> "full", replid |-> x.replid, off |-> snap.off]
           z == <<>>
<1>1. a \in Replies /\ a.type = "full" /\ a.replid = x.replid /\ a.off = snap.off
  BY DEF Replies, ServerSet, Snapshots
<1>2. a # None /\ snap # None
  BY <1>1, ReplicationAssumption
<1>3. z \in Seq(Writes) /\ z = <<>>
  OBVIOUS
<1>4. k = [l EXCEPT !.reply = a, !.rdb = snap, !.stream = z]
  BY DEF FullReply
<1> HIDE DEF a, z
<1>5. k \in LinkSet /\ k.peer = l.peer /\ k.reply = a /\ k.rdb = snap /\ k.stream = z
  BY <1>1, <1>3, <1>4 DEF LinkSet
<1> QED
  BY <1>1, <1>2, <1>3, <1>5 DEF FullySent

\* What m does with its replica q when a save ends and when one begins.
SlaveStep(m, x, q) ==
    LET s == srv[m]
    IN  \/ /\ link'[q] = link[q] /\ x.slaves[q] = s.slaves[q]
           /\ s.slaves[q] = "wait_end" => x.bgsave = s.bgsave
        \/ link'[q] = link[q] /\ s.slaves[q] = "wait_end" /\ x.slaves[q] = "online"
        \/ /\ s.slaves[q] = "wait_end" /\ x.slaves[q] = "none"
           /\ link'[q].peer = link[q].peer /\ link'[q].reply = link[q].reply
           /\ link'[q].rdb = None /\ link'[q].stream = <<>>
        \/ /\ s.slaves[q] = "wait_start" /\ x.slaves[q] = "wait_end"
           /\ x.bgsave = Snapshot(s) /\ FullySent(link'[q], link[q], x, x.bgsave)

LEMMA SlaveStepOK ==
    ASSUME IInv, NEW m \in Running, NEW x, x = srv'[m], x.off = srv[m].off,
           NEW q \in Running, q # m, SlaveStep(m, x, q), srv'[q] = srv[q],
           link' \in [Running -> LinkSet]
    PROVE  LookedAfter(m, x, q)
<1> DEFINE s == srv[m]
           t == srv[q]
           l == link[q]
           k == link'[q]
<1>1. /\ ServerOK(t) /\ LinkOK(q, t, l) /\ Follows(m, s, q, t, l) /\ k \in LinkSet
      /\ s \in ServerSet
  BY DEF IInv
<1>2. s.slaves[q] # "none" => \A n \in Running \ {m} : srv[n].slaves[q] = "none"
  BY OneMaster
<1>3. SUFFICES /\ LinkOK(q, t, k) /\ Follows(m, x, q, t, k)
               /\ k = l \/ s.slaves[q] # "none"
  BY <1>1, <1>2 DEF LookedAfter
<1>4. CASE /\ k = l /\ x.slaves[q] = s.slaves[q]
           /\ s.slaves[q] = "wait_end" => x.bgsave = s.bgsave
  <2>1. Follows(m, x, q, t, l)
    <3> HIDE DEF s, t, l
    <3> QED
      BY <1>1, <1>4 DEF Follows, s
  <2> QED
    BY <1>1, <1>4, <2>1
<1>5. CASE k = l /\ s.slaves[q] = "wait_end" /\ x.slaves[q] = "online"
  <2>1. Follows(m, x, q, t, l)
    <3> HIDE DEF t, l
    <3> QED
      BY <1>1, <1>5 DEF Follows
  <2> QED
    BY <1>1, <1>5, <2>1
<1>6. CASE /\ s.slaves[q] = "wait_end" /\ x.slaves[q] = "none"
           /\ k.peer = l.peer /\ k.reply = l.reply /\ k.rdb = None /\ k.stream = <<>>
  <2>1. l.rdb # None
    BY <1>1, <1>6 DEF Follows
  <2>2. LinkOK(q, t, k)
    BY <1>1, <1>6, <2>1, LinkOKCut
  <2> QED
    BY <1>6, <2>2, FollowsNone
<1>7. CASE /\ s.slaves[q] = "wait_start" /\ x.slaves[q] = "wait_end"
           /\ x.bgsave = Snapshot(s) /\ FullySent(k, l, x, x.bgsave)
  <2>1. l.peer = m /\ t.repl_state = "psync"
    BY <1>1, <1>7 DEF Follows
  <2>2. /\ k.peer = l.peer /\ k.reply # None /\ k.reply.type = "full"
        /\ k.rdb = x.bgsave /\ k.rdb # None /\ k.stream = <<>> /\ k.reply.off = k.rdb.off
    BY <1>7 DEF FullySent
  <2>3. k.rdb.off = s.off /\ s.off \in Nat
    BY <1>1, <1>7, <2>2, SnapshotType DEF ServerSet
  <2>4. LinkOK(q, t, k)
    <3> HIDE DEF t, l, k
    <3> QED
      BY <1>1, <2>1, <2>2 DEF LinkOK
  <2>5. Flowing(t, k) /\ BaseOff(t, k) = s.off /\ Len(k.stream) = 0
    BY <2>2, <2>3 DEF Flowing, BaseOff
  <2>6. BaseOff(t, k) + Len(k.stream) = x.off
    BY <2>3, <2>5
  <2>7. Follows(m, x, q, t, k)
    <3> HIDE DEF t, l, k
    <3> QED
      BY <1>7, <2>1, <2>2, <2>5, <2>6 DEF Follows
  <2> QED
    BY <1>7, <2>4, <2>7
<1> QED
  BY <1>4, <1>5, <1>6, <1>7 DEF SlaveStep

LEMMA BgsaveRepliesFacts ==
    ASSUME scenario \in Scenarios, NEW f \in [Running -> LinkSet], NEW old, NEW new \in ServerSet,
           \A q \in Servers : old.slaves[q] = "wait_start" /\ new.slaves[q] # "wait_start" =>
               new.bgsave \in Snapshots,
           NEW g, g = BgsaveReplies(f, old, new)
    PROVE  /\ g \in [Running -> LinkSet]
           /\ \A q \in Running :
                 /\ old.slaves[q] = "wait_start" /\ new.slaves[q] # "wait_start" =>
                       FullySent(g[q], f[q], new, new.bgsave)
                 /\ ~(old.slaves[q] = "wait_start" /\ new.slaves[q] # "wait_start") => g[q] = f[q]
<1>1. Running \subseteq Servers
  BY RunningServers
<1>2. g = [q \in Running |->
             IF q \in Waiting(old, "wait_start") \ Waiting(new, "wait_start")
             THEN FullReply(f[q], new, new.bgsave) ELSE f[q]]
  BY DEF BgsaveReplies
<1>3. ASSUME NEW q \in Running
      PROVE  /\ g[q] \in LinkSet
             /\ old.slaves[q] = "wait_start" /\ new.slaves[q] # "wait_start" =>
                   FullySent(g[q], f[q], new, new.bgsave)
             /\ ~(old.slaves[q] = "wait_start" /\ new.slaves[q] # "wait_start") => g[q] = f[q]
  <2>1. /\ f[q] \in LinkSet
        /\ q \in Waiting(old, "wait_start") \ Waiting(new, "wait_start") <=>
              old.slaves[q] = "wait_start" /\ new.slaves[q] # "wait_start"
    BY <1>1 DEF Waiting
  <2>2. CASE old.slaves[q] = "wait_start" /\ new.slaves[q] # "wait_start"
    <3> DEFINE k == g[q]
               l == f[q]
               d == new.bgsave
    <3>1. d \in Snapshots
      BY <1>1, <2>2
    <3>2. k = FullReply(l, new, d) /\ l \in LinkSet
      BY <1>2, <2>1, <2>2
    <3> HIDE DEF k, l, d
    <3>3. FullySent(k, l, new, d)
      BY <3>1, <3>2, FullReplyFacts
    <3>4. k \in LinkSet
      BY <3>3 DEF FullySent
    <3> QED
      BY <2>2, <3>3, <3>4 DEF k, l, d
  <2>3. CASE ~(old.slaves[q] = "wait_start" /\ new.slaves[q] # "wait_start")
    <3>1. g[q] = f[q]
      BY <1>2, <2>1, <2>3
    <3> QED
      BY <2>1, <2>3, <3>1
  <2> QED
    BY <2>2, <2>3
<1>4. g \in [Running -> LinkSet]
  BY <1>2, <1>3
<1> QED
  BY <1>3, <1>4

\* A snapshot is of the data set, the ID and the role, and of nothing else.
LEMMA SameSnapshot ==
    ASSUME NEW s \in ServerSet, NEW y \in ServerSet, SameIds(y, s), SameRole(y, s),
           y.data = s.data, y.off = s.off, y.backlog = s.backlog
    PROVE  Snapshot(y) = Snapshot(s)
<1>1. HasSaveInfo(y) = HasSaveInfo(s)
  BY DEF HasSaveInfo, SameRole
<1> QED
  BY <1>1 DEF Snapshot, SameIds

LEMMA BgsaveDoneShape ==
    ASSUME IInv, NEW m \in Running, NEW ok \in BOOLEAN, BgsaveDone(m, ok)
    PROVE  LET s == srv[m]
               x == srv'[m]
           IN  /\ used' \in Counts /\ used'.ids = used.ids /\ s.bgsave # None
               /\ OnlyServer(m) /\ ServerOK(x) /\ SameIds(x, s) /\ SameRole(x, s)
               /\ x.data = s.data /\ x.off = s.off /\ x.backlog = s.backlog
               /\ x.disk \in {s.bgsave, s.disk} /\ x.bgsave \in {None, Snapshot(s)}
               /\ Slaves(x) \subseteq Slaves(s) /\ x.slaves[m] = "none"
               /\ link' \in [Running -> LinkSet] /\ link'[m] = link[m]
               /\ \A q \in Running \ {m} : SlaveStep(m, x, q)
<1> DEFINE s == srv[m]
           y == Over(s, ok)
           x == startBgsaveForReplication(y)
           G == Failed(s, ok)
           f == CloseSlaves(link, s, G)
<1>1. /\ s.bgsave # None /\ srv' = [srv EXCEPT ![m] = x]
      /\ link' = BgsaveReplies(f, y, x)
  BY DEF BgsaveDone
<1>2. used' \in Counts /\ used'.ids = used.ids
  <2> DEFINE c == IF ok THEN used.faults ELSE used.faults + 1
  <2>1. used' = [used EXCEPT !.faults = c]
    BY DEF BgsaveDone
  <2>2. used \in Counts /\ c \in Nat
    BY DEF IInv, Counts
  <2> HIDE DEF c
  <2> QED
    BY <2>1, <2>2 DEF Counts
<1>3. /\ ServerOK(s) /\ s \in ServerSet /\ s.slaves[m] = "none" /\ Running \subseteq Servers
      /\ srv \in [Running -> ServerSet] /\ link \in [Running -> LinkSet]
      /\ scenario \in Scenarios
  BY OneMaster, RunningServers DEF IInv
<1>4. /\ y \in ServerSet /\ SameIds(y, s) /\ SameRole(y, s)
      /\ y.data = s.data /\ y.off = s.off /\ y.backlog = s.backlog
      /\ y.disk = (IF ok THEN s.bgsave ELSE s.disk) /\ y.bgsave = None
      /\ \A r \in Servers : y.slaves[r] = IF s.slaves[r] = "wait_end"
                                          THEN IF ok THEN "online" ELSE "none"
                                          ELSE s.slaves[r]
  <2>1. y = Over(s, ok)
    OBVIOUS
  <2> HIDE DEF s, y
  <2> QED
    BY <1>1, <1>3, <2>1, OverFacts
<1>5. ServerOK(y)
  BY <1>1, <1>3, OverOK
<1> HIDE DEF y
<1>6. Snapshot(y) = Snapshot(s)
  BY <1>3, <1>4, SameSnapshot
<1>7. /\ x \in ServerSet /\ SameIds(x, y) /\ SameRole(x, y) /\ x.disk = y.disk
      /\ x.data = y.data /\ x.off = y.off /\ x.backlog = y.backlog
      /\ x.bgsave = IF Waiting(y, "wait_start") = {} THEN y.bgsave ELSE Snapshot(y)
      /\ \A r \in Servers : x.slaves[r] = IF y.slaves[r] = "wait_start" THEN "wait_end"
                                          ELSE y.slaves[r]
  <2>1. x = startBgsaveForReplication(y)
    OBVIOUS
  <2> HIDE DEF x
  <2> QED
    BY <1>4, <2>1, StartBgsaveFacts
<1>8. ServerOK(x)
  BY <1>5, StartBgsaveOK
<1> HIDE DEF x
<1>9. /\ SameIds(x, s) /\ SameRole(x, s)
      /\ x.data = s.data /\ x.off = s.off /\ x.backlog = s.backlog
      /\ x.disk \in {s.bgsave, s.disk} /\ x.bgsave \in {None, Snapshot(s)}
  BY <1>4, <1>6, <1>7 DEF SameIds, SameRole
<1>10. OnlyServer(m) /\ srv'[m] = x
  BY <1>1, <1>3, <1>7, OneChanged DEF OnlyServer
<1>11. /\ f \in [Running -> LinkSet]
       /\ \A r \in Running :
             /\ ~(r \in G /\ s.slaves[r] = "wait_end") => f[r] = link[r]
             /\ r \in G /\ s.slaves[r] = "wait_end" =>
                   /\ f[r].peer = link[r].peer /\ f[r].reply = link[r].reply
                   /\ f[r].rdb = None /\ f[r].stream = <<>>
  <2>1. f = CloseSlaves(link, s, G)
    OBVIOUS
  <2> HIDE DEF f, s, G
  <2> QED
    BY <1>3, <2>1, CloseFacts
<1>12. \A r \in Running : r \in G <=> ~ok /\ s.slaves[r] = "wait_end"
  BY <1>3 DEF Failed, Waiting
<1> HIDE DEF f, G
<1>13. \A q \in Servers : y.slaves[q] = "wait_start" => x.bgsave = Snapshot(s)
  BY <1>6, <1>7 DEF Waiting
<1>14. Snapshot(s) \in Snapshots
  BY <1>3, SnapshotType
<1>15. /\ link' \in [Running -> LinkSet]
       /\ \A q \in Running :
             /\ y.slaves[q] = "wait_start" /\ x.slaves[q] # "wait_start" =>
                   FullySent(link'[q], f[q], x, x.bgsave)
             /\ ~(y.slaves[q] = "wait_start" /\ x.slaves[q] # "wait_start") => link'[q] = f[q]
  <2>1. \A q \in Servers : y.slaves[q] = "wait_start" /\ x.slaves[q] # "wait_start" =>
               x.bgsave \in Snapshots
    BY <1>13, <1>14
  <2> QED
    BY <1>1, <1>3, <1>7, <1>11, <2>1, BgsaveRepliesFacts
<1>16. \A q \in Running : x.slaves[q] # "wait_start"
  BY <1>3, <1>7
<1>17. link'[m] = link[m] /\ x.slaves[m] = "none"
  BY <1>3, <1>4, <1>7, <1>11, <1>12, <1>15
<1>18. Slaves(x) \subseteq Slaves(s)
  BY <1>4, <1>7 DEF Slaves
<1>19. ASSUME NEW q \in Running \ {m} PROVE SlaveStep(m, x, q)
  <2>1. q \in Servers /\ q \in Running
    BY <1>3
  <2>2. CASE s.slaves[q] = "wait_start"
    <3>1. y.slaves[q] = "wait_start" /\ x.slaves[q] = "wait_end"
      BY <1>4, <1>7, <2>1, <2>2
    <3>2. x.bgsave = Snapshot(s) /\ f[q] = link[q]
      BY <1>11, <1>12, <1>13, <2>1, <2>2, <3>1
    <3>3. FullySent(link'[q], link[q], x, x.bgsave)
      BY <1>15, <2>1, <3>1, <3>2
    <3> QED
      BY <2>2, <3>1, <3>2, <3>3 DEF SlaveStep
  <2>3. CASE s.slaves[q] = "wait_end" /\ ok
    <3>1. y.slaves[q] = "online" /\ x.slaves[q] = "online"
      BY <1>4, <1>7, <2>1, <2>3
    <3>2. link'[q] = f[q] /\ f[q] = link[q]
      BY <1>11, <1>12, <1>15, <2>1, <2>3, <3>1
    <3> QED
      BY <2>3, <3>1, <3>2 DEF SlaveStep
  <2>4. CASE s.slaves[q] = "wait_end" /\ ~ok
    <3>1. y.slaves[q] = "none" /\ x.slaves[q] = "none"
      BY <1>4, <1>7, <2>1, <2>4
    <3>2. link'[q] = f[q] /\ q \in G
      BY <1>12, <1>15, <2>1, <2>4, <3>1
    <3>3. /\ f[q].peer = link[q].peer /\ f[q].reply = link[q].reply
          /\ f[q].rdb = None /\ f[q].stream = <<>>
      BY <1>11, <2>1, <2>4, <3>2
    <3> QED
      BY <2>4, <3>1, <3>2, <3>3 DEF SlaveStep
  <2>5. CASE s.slaves[q] # "wait_start" /\ s.slaves[q] # "wait_end"
    <3>1. y.slaves[q] = s.slaves[q] /\ x.slaves[q] = s.slaves[q]
      BY <1>4, <1>7, <2>1, <2>5
    <3>2. link'[q] = f[q] /\ f[q] = link[q]
      BY <1>11, <1>12, <1>15, <2>1, <2>5, <3>1
    <3> QED
      BY <2>5, <3>1, <3>2 DEF SlaveStep
  <2> QED
    BY <2>2, <2>3, <2>4, <2>5
<1> QED
  BY <1>1, <1>2, <1>8, <1>9, <1>10, <1>15, <1>17, <1>18, <1>19

LEMMA BgsaveDoneKeeps ==
    ASSUME IInv, NEW m \in Running, NEW ok \in BOOLEAN, BgsaveDone(m, ok), scenario' = scenario
    PROVE  IInv'
<1> DEFINE x == srv'[m]
<1>1. /\ used' \in Counts /\ OnlyServer(m) /\ ServerOK(x) /\ SameRole(x, srv[m])
      /\ x.off = srv[m].off /\ Slaves(x) \subseteq Slaves(srv[m]) /\ x.slaves[m] = "none"
      /\ link' \in [Running -> LinkSet] /\ link'[m] = link[m]
      /\ \A q \in Running \ {m} : SlaveStep(m, x, q)
  BY BgsaveDoneShape
<1>2. x = srv'[m] /\ Slaves(srv[m]) \subseteq Running
  BY DEF IInv
<1> HIDE DEF x
<1>3. ASSUME NEW q \in Running \ {m} PROVE LookedAfter(m, x, q)
  BY <1>1, <1>2, SlaveStepOK DEF OnlyServer
<1> QED
  BY <1>1, <1>2, <1>3, MasterKeeps DEF OnlyServer
-----------------------------------------------------------------------------
(* PSYNC. *)

LEMMA AskedOK ==
    ASSUME NEW s, ServerOK(s), s.repl_state = "connect",
           NEW t, t = [s EXCEPT !.repl_state = "psync"]
    PROVE  /\ ServerOK(t) /\ SameIds(t, s) /\ SameFiles(t, s) /\ t.repl_state = "psync"
           /\ t.masterhost = s.masterhost /\ t.cached_master = s.cached_master
           /\ t.master = None /\ s.master = None
           /\ t.data = s.data /\ t.off = s.off /\ t.backlog = s.backlog /\ t.slaves = s.slaves
<1>1. s \in ServerSet /\ s.master = None
  BY DEF ServerOK
<1>2. /\ t \in ServerSet /\ SameIds(t, s) /\ SameFiles(t, s) /\ t.repl_state = "psync"
      /\ t.masterhost = s.masterhost /\ t.cached_master = s.cached_master
      /\ t.master = s.master
  BY <1>1 DEF ServerSet, SameIds, SameFiles
<1>3. t.data = s.data /\ t.off = s.off /\ t.backlog = s.backlog /\ t.slaves = s.slaves
  BY <1>1 DEF ServerSet
<1>4. BacklogOK(t) /\ Slaves(t) = Slaves(s)
  BY <1>3 DEF ServerOK, BacklogOK, Slaves
<1>5. ServerOK(t)
  BY <1>1, <1>2, <1>3, <1>4 DEF ServerOK, SameIds
<1> QED
  BY <1>1, <1>2, <1>3, <1>5

\* r has asked m, which is now x, and its link is l.
Asked(r, m, x, l) ==
    LET t == srv'[r]
    IN  /\ m = srv[r].masterhost /\ m \in Running /\ m # r /\ srv[r].repl_state = "connect"
        /\ srv[m].masterhost = None \/ srv[m].repl_state = "connected"
        /\ srv' \in [Running -> ServerSet] /\ srv'[m] = x
        /\ \A q \in Running \ {m, r} : srv'[q] = srv[q]
        /\ ServerOK(t) /\ SameIds(t, srv[r]) /\ SameFiles(t, srv[r]) /\ t.repl_state = "psync"
        /\ t.masterhost = m /\ t.cached_master = srv[r].cached_master
        /\ t.master = None /\ srv[r].master = None
        /\ t.data = srv[r].data /\ t.off = srv[r].off /\ t.backlog = srv[r].backlog
        /\ t.slaves = srv[r].slaves
        /\ ServerOK(x) /\ SameRole(x, srv[m]) /\ x.data = srv[m].data /\ x.off = srv[m].off
        /\ x.disk = srv[m].disk /\ x.backlog.on
        /\ x.slaves[m] = "none" /\ Slaves(x) \subseteq Slaves(srv[m]) \cup {r}
        /\ link' \in [Running -> LinkSet] /\ link'[r] = l /\ link'[m] = link[m]
        /\ \A q \in Running \ {m, r} : SlaveStep(m, x, q)
        /\ \A n \in Running : srv[n].slaves[r] = "none"

LEMMA AskingFacts ==
    ASSUME IInv, NEW r \in Running, NEW m, m = srv[r].masterhost, NEW s, s = srv[m],
           srv[r].repl_state = "connect", s.masterhost = None \/ s.repl_state = "connected"
    PROVE  /\ m \in Running /\ m # r /\ ServerOK(srv[r]) /\ ServerOK(s) /\ s \in ServerSet
           /\ s.slaves[m] = "none" /\ \A n \in Running : srv[n].slaves[r] = "none"
           /\ Slaves(s) \subseteq Running /\ r \in Servers /\ m \in Servers
<1>1. /\ ServerOK(srv[r]) /\ srv[r].masterhost \in Running \cup {None}
      /\ LinkOK(r, srv[r], link[r]) /\ Running \subseteq Servers /\ None \notin Servers
  BY RunningServers, ReplicationAssumption DEF IInv
<1>2. m # None /\ link[r].peer = None
  BY <1>1 DEF ServerOK, LinkOK
<1>3. m \in Running
  BY <1>1, <1>2
<1>4. m # r
  BY <1>1, <1>2
<1>5. \A n \in Running : srv[n].slaves[r] = "none"
  BY <1>1, <1>2, OneMaster
<1> QED
  BY <1>1, <1>3, <1>4, <1>5, OneMaster DEF IInv

\* What PSYNC of r may make of s.
Answers(s, x, r) ==
    /\ ServerOK(x) /\ SameRole(x, s) /\ x.data = s.data /\ x.off = s.off
    /\ x.disk = s.disk /\ x.backlog.on
    /\ \A q \in Servers \ {r} :
          \/ x.slaves[q] = s.slaves[q] /\ (s.slaves[q] = "wait_end" => x.bgsave = s.bgsave)
          \/ s.slaves[q] = "wait_start" /\ x.slaves[q] = "wait_end" /\ x.bgsave = Snapshot(s)

\* What is common to every answer.
LEMMA AnswerShape ==
    ASSUME IInv, NEW r \in Running, NEW m, m = srv[r].masterhost, NEW s, s = srv[m],
           srv[r].repl_state = "connect", s.masterhost = None \/ s.repl_state = "connected",
           NEW x, Answers(s, x, r), NEW l \in LinkSet, Answer(r, x, l)
    PROVE  Asked(r, m, x, l)
<1> USE DEF Answers
<1>1. /\ m \in Running /\ m # r /\ ServerOK(srv[r]) /\ ServerOK(s) /\ s \in ServerSet
      /\ s.slaves[m] = "none" /\ \A n \in Running : srv[n].slaves[r] = "none"
      /\ Slaves(s) \subseteq Running /\ r \in Servers /\ m \in Servers
  BY AskingFacts
<1>2. /\ srv \in [Running -> ServerSet] /\ link \in [Running -> LinkSet]
      /\ scenario \in Scenarios /\ Running \subseteq Servers
  BY RunningServers DEF IInv
<1>3. x \in ServerSet
  BY DEF ServerOK
<1> DEFINE t == [srv[r] EXCEPT !.repl_state = "psync"]
           f == [srv EXCEPT ![m] = x]
           g == BgsaveReplies(link, s, x)
<1>4. f \in [Running -> ServerSet] /\ f[m] = x /\ \A q \in Running : q # m => f[q] = srv[q]
  BY <1>1, <1>2, <1>3, OneChanged
<1>5. srv' = [f EXCEPT ![r] = t] /\ link' = [g EXCEPT ![r] = l]
  BY <1>1, <1>2 DEF Answer
<1>6. /\ ServerOK(t) /\ SameIds(t, srv[r]) /\ SameFiles(t, srv[r]) /\ t.repl_state = "psync"
      /\ t.masterhost = m /\ t.cached_master = srv[r].cached_master
      /\ t.master = None /\ srv[r].master = None
      /\ t.data = srv[r].data /\ t.off = srv[r].off /\ t.backlog = srv[r].backlog
      /\ t.slaves = srv[r].slaves
  BY <1>1, AskedOK
<1> HIDE DEF t, f
<1>7. t \in ServerSet
  BY <1>6 DEF ServerOK
<1>8. /\ srv' \in [Running -> ServerSet] /\ srv'[r] = t
      /\ \A q \in Running : q # r => srv'[q] = f[q]
  BY <1>4, <1>5, <1>7
<1>9. srv'[m] = x /\ \A q \in Running \ {m, r} : srv'[q] = srv[q]
  BY <1>1, <1>4, <1>8
<1>10. s.slaves[r] = "none"
  BY <1>1
<1>11. \A q \in Servers : s.slaves[q] = "wait_start" /\ x.slaves[q] # "wait_start" =>
          x.bgsave \in Snapshots
  BY <1>1, <1>10, SnapshotType
<1>12. /\ g \in [Running -> LinkSet]
       /\ \A q \in Running :
             /\ s.slaves[q] = "wait_start" /\ x.slaves[q] # "wait_start" =>
                   FullySent(g[q], link[q], x, x.bgsave)
             /\ ~(s.slaves[q] = "wait_start" /\ x.slaves[q] # "wait_start") => g[q] = link[q]
  <2>1. g = BgsaveReplies(link, s, x)
    OBVIOUS
  <2> HIDE DEF g
  <2> QED
    BY <1>2, <1>3, <1>11, <2>1, BgsaveRepliesFacts
<1> HIDE DEF g
<1>13. /\ link' \in [Running -> LinkSet] /\ link'[r] = l
       /\ \A q \in Running : q # r => link'[q] = g[q]
  BY <1>5, <1>12
<1>14. ASSUME NEW q \in Running \ {m, r} PROVE SlaveStep(m, x, q)
  <2>1. q \in Servers \ {r} /\ q \in Running /\ link'[q] = g[q]
    BY <1>2, <1>13
  <2>2. CASE x.slaves[q] = s.slaves[q] /\ (s.slaves[q] = "wait_end" => x.bgsave = s.bgsave)
    <3>1. link'[q] = link[q]
      BY <1>12, <2>1, <2>2
    <3> QED
      BY <2>2, <3>1 DEF SlaveStep
  <2>3. CASE s.slaves[q] = "wait_start" /\ x.slaves[q] = "wait_end" /\ x.bgsave = Snapshot(s)
    <3>1. FullySent(link'[q], link[q], x, x.bgsave)
      BY <1>12, <2>1, <2>3
    <3> QED
      BY <2>3, <3>1 DEF SlaveStep
  <2> QED
    BY <2>1, <2>2, <2>3
<1>15. link'[m] = link[m] /\ x.slaves[m] = "none"
  BY <1>1, <1>12, <1>13
<1>16. Slaves(x) \subseteq Slaves(s) \cup {r}
  BY DEF Slaves
<1> QED
  BY <1>1, <1>6, <1>8, <1>9, <1>13, <1>14, <1>15, <1>16 DEF Asked

LEMMA NewLinkFacts ==
    ASSUME NEW m \in Servers, NEW k, k = [NoLink EXCEPT !.peer = m]
    PROVE  /\ k \in LinkSet /\ k.peer = m /\ k.reply = None /\ k.rdb = None
           /\ k.stream = <<>>
<1> DEFINE n == NoLink
<1>1. n \in LinkSet /\ n.reply = None /\ n.rdb = None /\ n.stream = <<>>
  BY NoLinkFacts
<1>2. k = [n EXCEPT !.peer = m]
  OBVIOUS
<1> HIDE DEF n
<1> QED
  BY <1>1, <1>2 DEF LinkSet

\* +CONTINUE: what r lacks is in the backlog.
Continued(r, m, x, l) ==
    LET c == srv[r].cached_master
        s == srv[m]
    IN  /\ Asked(r, m, x, l) /\ used' = used /\ c # None
        /\ Continues(s, c.replid, c.reploff + 1)
        /\ SameIds(x, s) /\ SameFiles(x, s) /\ x.backlog = s.backlog /\ x.slaves[r] = "online"
        /\ l.peer = m /\ l.reply \in Replies /\ l.reply # None /\ l.reply.type = "continue"
        /\ l.reply.replid = s.replid /\ l.rdb = None
        /\ l.stream = BacklogFrom(s, c.reploff + 1)

LEMMA ContinueShape ==
    ASSUME IInv, NEW r \in Running, NEW m, m = srv[r].masterhost, NEW s, s = srv[m],
           NEW c, c = srv[r].cached_master,
           srv[r].repl_state = "connect", s.masterhost = None \/ s.repl_state = "connected",
           c # None, Continues(s, c.replid, c.reploff + 1), used' = used,
           NEW x, x = Joined(s, r, "online"), NEW l,
           l = [[NoLink EXCEPT !.peer = m] EXCEPT
                   !.reply = [type |-> "continue", replid |-> s.replid, off |-> 0],
                   !.stream = BacklogFrom(s, c.reploff + 1)],
           Answer(r, x, l)
    PROVE  Continued(r, m, x, l)
<1>1. /\ m \in Running /\ m # r /\ ServerOK(srv[r]) /\ ServerOK(s) /\ s \in ServerSet
      /\ r \in Servers /\ m \in Servers
  BY AskingFacts
<1> DEFINE o == c.reploff + 1
           q == BacklogFrom(s, o)
           a == [type |-> "continue", replid |-> s.replid, off |-> 0]
           n == [NoLink EXCEPT !.peer = m]
<1>2. s.backlog.on /\ s.backlog.off <= o /\ o <= s.backlog.off + s.backlog.histlen
  BY DEF Continues
<1>3. o \in Int /\ BacklogOK(s)
  <2>1. srv[r] \in ServerSet /\ BacklogOK(s)
    BY <1>1, Zenon DEF ServerOK
  <2>2. c \in Positions
    BY <2>1, Zenon DEF ServerSet
  <2>3. c.reploff \in Nat
    BY <2>2, Zenon DEF Positions
  <2>4. \A k \in Nat : k + 1 \in Int
    OBVIOUS
  <2> QED
    BY <2>1, <2>3, <2>4, Zenon
<1>4. q \in Seq(Writes)
  <2> HIDE DEF o
  <2> QED
    BY <1>1, <1>2, <1>3, FromFacts
<1>5. a \in Replies /\ a.type = "continue" /\ a.replid = s.replid
  BY <1>1 DEF Replies, ServerSet
<1>6. a # None
  BY <1>5, ReplicationAssumption
<1>7. n \in LinkSet /\ n.peer = m /\ n.rdb = None
  BY <1>1, NewLinkFacts
<1>8. l = [n EXCEPT !.reply = a, !.stream = q]
  OBVIOUS
<1> HIDE DEF q, a, n
<1>9. l \in LinkSet /\ l.peer = m /\ l.reply = a /\ l.rdb = None /\ l.stream = q
  BY <1>4, <1>5, <1>7, <1>8 DEF LinkSet
<1>10. /\ x \in ServerSet
       /\ SameIds(x, s) /\ SameFiles(x, s) /\ SameRole(x, s)
       /\ x.data = s.data /\ x.off = s.off /\ x.backlog = s.backlog
       /\ x.slaves[r] = "online"
       /\ \A p \in Servers : p # r => x.slaves[p] = s.slaves[p]
  <2>1. "online" \in SlaveStates
    BY DEF SlaveStates
  <2>2. HasJoined(x, s, r, "online")
    BY <1>1, <2>1, JoinedAs, Zenon
  <2> QED
    BY <2>2, Zenon DEF HasJoined
<1>11. ServerOK(x)
  <2>1. "online" \in SlaveStates
    BY DEF SlaveStates
  <2> QED
    BY <1>1, <1>2, <2>1, JoinedOK
<1>12. /\ x.bgsave = s.bgsave /\ x.disk = s.disk /\ x.backlog.on
       /\ \A p \in Servers \ {r} :
             \/ x.slaves[p] = s.slaves[p] /\ (s.slaves[p] = "wait_end" => x.bgsave = s.bgsave)
             \/ s.slaves[p] = "wait_start" /\ x.slaves[p] = "wait_end" /\ x.bgsave = Snapshot(s)
  BY <1>2, <1>10 DEF SameFiles
<1>13. Asked(r, m, x, l)
  <2>1. Answers(s, x, r)
    BY <1>10, <1>11, <1>12 DEF Answers
  <2>2. l \in LinkSet
    BY <1>9
  <2> QED
    BY <2>1, <2>2, AnswerShape, Zenon
<1> QED
  BY <1>5, <1>6, <1>9, <1>10, <1>13 DEF Continued, q

\* What a full resynchronization makes of the master, but for its replicas and saves.
Readied(m, x) ==
    LET s == srv[m]
    IN  /\ used' \in Counts
        /\ Fresh(s) => /\ s.masterhost = None /\ ~s.backlog.on /\ x.replid = used.ids + 1
                       /\ x.replid2 = None /\ used'.ids = used.ids + 1
        /\ ~Fresh(s) => SameIds(x, s) /\ x.backlog = s.backlog /\ used'.ids = used.ids

\* A new save.
NewSave(r, m, x, l) ==
    /\ Asked(r, m, x, l) /\ Readied(m, x) /\ x.slaves[r] = "wait_end"
    /\ l.peer = m /\ x.bgsave = Snapshot(x) /\ FullySent(l, [NoLink EXCEPT !.peer = m], x, x.bgsave)

\* A save under way, that c waits for.
SharedSave(r, m, x, l) ==
    LET s == srv[m]
    IN  /\ Asked(r, m, x, l) /\ Readied(m, x) /\ ~Fresh(s) /\ x.bgsave = s.bgsave
        /\ x.slaves[r] = "wait_end"
        /\ l.peer = m /\ l.reply \in Replies /\ l.reply # None /\ l.reply.type = "full"
        /\ l.reply.replid = s.replid /\ l.reply.off = s.bgsave.off
        /\ l.rdb = s.bgsave /\ l.rdb # None
        /\ \E c \in Running : s.slaves[c] = "wait_end" /\ l.stream = link[c].stream

\* A save that r has come too late for.
LateSave(r, m, x, l) ==
    /\ Asked(r, m, x, l) /\ Readied(m, x) /\ x.bgsave = srv[m].bgsave
    /\ x.slaves[r] = "wait_start"
    /\ l.peer = m /\ l.reply = None /\ l.rdb = None /\ l.stream = <<>>

\* The master of a full resynchronization, before r has joined.
LEMMA ReadyShape ==
    ASSUME IInv, NEW r \in Running, NEW m, m = srv[r].masterhost, NEW s, s = srv[m],
           srv[r].repl_state = "connect", s.masterhost = None \/ s.repl_state = "connected",
           used' = [used EXCEPT !.ids = IF Fresh(s) THEN @ + 1 ELSE @],
           NEW y, y = Ready(s, NewId)
    PROVE  /\ ServerOK(y) /\ SameFiles(y, s) /\ SameRole(y, s) /\ y.slaves = s.slaves
           /\ y.data = s.data /\ y.off = s.off /\ y.backlog.on /\ Readied(m, y)
           /\ ~Fresh(s) => y = s
<1> DEFINE i == NewId
           j == IF Fresh(s) THEN used.ids + 1 ELSE used.ids
<1>1. ServerOK(s)
  BY AskingFacts
<1>2. i \in Nat /\ i = used.ids + 1 /\ used \in Counts /\ j \in Nat
  BY DEF NewId, IInv, Counts
<1>3. used' = [used EXCEPT !.ids = j]
  OBVIOUS
<1>4. (Fresh(s) => j = used.ids + 1) /\ (~Fresh(s) => j = used.ids)
  OBVIOUS
<1>5. y = Ready(s, i)
  OBVIOUS
<1> HIDE DEF i, j
<1>6. used' \in Counts /\ used'.ids = j
  BY <1>2, <1>3 DEF Counts
<1>7. /\ ServerOK(y) /\ SameFiles(y, s) /\ SameRole(y, s) /\ y.slaves = s.slaves
      /\ y.data = s.data /\ y.off = s.off /\ y.backlog.on
      /\ ~Fresh(s) => y = s /\ s.backlog.on
      /\ Fresh(s) => y.replid = i /\ y.replid2 = None /\ s.masterhost = None
  BY <1>1, <1>2, <1>5, ReadyOK
<1>8. Fresh(s) => ~s.backlog.on
  BY DEF Fresh
<1>9. Readied(m, y)
  BY <1>2, <1>4, <1>6, <1>7, <1>8 DEF Readied, SameIds
<1> QED
  BY <1>7, <1>9

LEMMA ReadiedSame ==
    ASSUME NEW m, NEW y, Readied(m, y), NEW x, SameIds(x, y), x.backlog = y.backlog
    PROVE  Readied(m, x)
  BY DEF Readied, SameIds

\* x is y, which is s made ready, with r added and a save begun for it.
SavedFor(x, y, s, r) ==
    /\ ServerOK(x) /\ SameIds(x, y) /\ SameRole(x, s) /\ x.disk = s.disk
    /\ x.backlog = y.backlog /\ x.data = s.data /\ x.off = s.off
    /\ x.bgsave = Snapshot(x) /\ x.bgsave = Snapshot(y) /\ x.bgsave \in Snapshots
    /\ x.slaves[r] = "wait_end"
    /\ \A p \in Servers \ {r} : x.slaves[p] = IF s.slaves[p] = "wait_start" THEN "wait_end"
                                              ELSE s.slaves[p]

LEMMA JoinAndSave ==
    ASSUME NEW s, NEW y, ServerOK(y), y.backlog.on, SameFiles(y, s), SameRole(y, s),
           y.slaves = s.slaves, y.data = s.data, y.off = s.off, NEW r \in Servers,
           NEW x, x = startBgsaveForReplication(Joined(y, r, "wait_start"))
    PROVE  SavedFor(x, y, s, r)
<1> DEFINE z == Joined(y, r, "wait_start")
<1>1. "wait_start" \in SlaveStates /\ y \in ServerSet
  BY DEF SlaveStates, ServerOK
<1>2. HasJoined(z, y, r, "wait_start")
  BY <1>1, JoinedAs, Zenon
<1>3. ServerOK(z)
  BY <1>1, JoinedOK, Zenon
<1>4. x = startBgsaveForReplication(z)
  OBVIOUS
<1> HIDE DEF z
<1>5. z \in ServerSet /\ SameIds(z, y) /\ SameFiles(z, y) /\ SameRole(z, y)
  BY <1>2, Zenon DEF HasJoined
<1>6. z.data = y.data /\ z.off = y.off /\ z.backlog = y.backlog
  BY <1>2, Zenon DEF HasJoined
<1>7. /\ z.slaves[r] = "wait_start"
      /\ \A p \in Servers : p # r => z.slaves[p] = s.slaves[p]
  BY <1>2, Zenon DEF HasJoined
<1>8. Waiting(z, "wait_start") # {}
  BY <1>7, Zenon DEF Waiting
<1>9. /\ x \in ServerSet /\ SameIds(x, z) /\ SameRole(x, z) /\ x.disk = z.disk
      /\ x.data = z.data /\ x.off = z.off /\ x.backlog = z.backlog
      /\ x.bgsave = IF Waiting(z, "wait_start") = {} THEN z.bgsave ELSE Snapshot(z)
      /\ \A p \in Servers : x.slaves[p] = IF z.slaves[p] = "wait_start" THEN "wait_end"
                                          ELSE z.slaves[p]
  BY <1>4, <1>5, StartBgsaveFacts
<1>10. ServerOK(x)
  BY <1>3, <1>4, StartBgsaveOK, Zenon
<1>11. x.bgsave = Snapshot(z)
  BY <1>8, <1>9, Zenon
<1>12. Snapshot(x) = Snapshot(z) /\ Snapshot(z) = Snapshot(y) /\ Snapshot(z) \in Snapshots
  <2>1. Snapshot(x) = Snapshot(z)
    BY <1>5, <1>9, SameSnapshot, Zenon
  <2>2. Snapshot(z) = Snapshot(y)
    BY <1>1, <1>5, <1>6, SameSnapshot, Zenon
  <2>3. Snapshot(z) \in Snapshots
    BY <1>5, SnapshotType, Zenon
  <2> QED
    BY <2>1, <2>2, <2>3
<1>13. SameRole(x, s)
  <2>1. SameRole(x, y)
    BY <1>5, <1>9, SameRoles, Zenon
  <2> QED
    BY <2>1, SameRoles, Zenon
<1>14. SameIds(x, y)
  BY <1>5, <1>9, Zenon DEF SameIds
<1>15. x.disk = s.disk
  BY <1>5, <1>9, Zenon DEF SameFiles
<1>16. x.backlog = y.backlog /\ x.data = s.data /\ x.off = s.off
  BY <1>6, <1>9, Zenon
<1>17. x.slaves[r] = "wait_end"
  BY <1>7, <1>9, Zenon
<1>18. \A p \in Servers \ {r} : x.slaves[p] = IF s.slaves[p] = "wait_start" THEN "wait_end"
                                              ELSE s.slaves[p]
  BY <1>7, <1>9
<1> QED
  BY <1>10, <1>11, <1>12, <1>13, <1>14, <1>15, <1>16, <1>17, <1>18, Zenon DEF SavedFor

LEMMA NewSaveShape ==
    ASSUME IInv, NEW r \in Running, NEW m, m = srv[r].masterhost, NEW s, s = srv[m],
           srv[r].repl_state = "connect", s.masterhost = None \/ s.repl_state = "connected",
           used' = [used EXCEPT !.ids = IF Fresh(s) THEN @ + 1 ELSE @], s.bgsave = None,
           NEW y, y = Ready(s, NewId),
           NEW x, x = startBgsaveForReplication(Joined(y, r, "wait_start")), NEW l,
           l = FullReply([NoLink EXCEPT !.peer = m], x, x.bgsave),
           Answer(r, x, l)
    PROVE  NewSave(r, m, x, l)
<1>1. /\ m \in Running /\ m # r /\ ServerOK(s) /\ s \in ServerSet
      /\ r \in Servers /\ m \in Servers /\ Slaves(s) \subseteq Running
  BY AskingFacts
<1>2. /\ ServerOK(y) /\ SameFiles(y, s) /\ SameRole(y, s) /\ y.slaves = s.slaves
      /\ y.data = s.data /\ y.off = s.off /\ y.backlog.on /\ Readied(m, y)
      /\ ~Fresh(s) => y = s
  BY ReadyShape
<1> DEFINE d == x.bgsave
           n == [NoLink EXCEPT !.peer = m]
<1>3. SavedFor(x, y, s, r)
  BY <1>1, <1>2, JoinAndSave, Zenon
<1>4. x \in ServerSet /\ d \in Snapshots /\ d = Snapshot(x)
  BY <1>3, Zenon DEF SavedFor, ServerOK
<1>5. n \in LinkSet /\ n.peer = m
  BY <1>1, NewLinkFacts
<1>6. FullySent(l, n, x, d)
  <2>1. l = FullReply(n, x, d)
    OBVIOUS
  <2> HIDE DEF n, d
  <2> QED
    BY <1>4, <1>5, <2>1, FullReplyFacts, Zenon
<1>7. l \in LinkSet /\ l.peer = m
  BY <1>5, <1>6 DEF FullySent
<1>8. ASSUME NEW p \in Servers \ {r}
      PROVE  \/ x.slaves[p] = s.slaves[p] /\ (s.slaves[p] = "wait_end" => x.bgsave = s.bgsave)
             \/ s.slaves[p] = "wait_start" /\ x.slaves[p] = "wait_end" /\ x.bgsave = Snapshot(s)
  <2>1. x.slaves[p] = IF s.slaves[p] = "wait_start" THEN "wait_end" ELSE s.slaves[p]
    BY <1>3, Zenon DEF SavedFor
  <2>2. s.slaves[p] # "wait_end"
    <3>1. s.slaves[p] # "none" => p \in Running
      BY <1>1 DEF Slaves
    <3>2. p \in Running => Follows(m, s, p, srv[p], link[p])
      BY <1>1 DEF IInv
    <3> QED
      BY <3>1, <3>2 DEF Follows
  <2>3. CASE s.slaves[p] = "wait_start"
    <3>1. ~Fresh(s)
      BY <2>3 DEF Fresh, Slaves
    <3>2. y = s /\ x.bgsave = Snapshot(y)
      BY <1>2, <1>3, <3>1, Zenon DEF SavedFor
    <3> QED
      BY <2>1, <2>3, <3>2, Zenon
  <2>4. CASE s.slaves[p] # "wait_start"
    BY <2>1, <2>2, <2>4, Zenon
  <2> QED
    BY <2>3, <2>4
<1>9. Asked(r, m, x, l)
  <2>1. x.backlog.on
    BY <1>2, <1>3, Zenon DEF SavedFor
  <2>2. Answers(s, x, r)
    BY <1>3, <1>8, <2>1, Zenon DEF Answers, SavedFor
  <2> QED
    BY <1>7, <2>2, AnswerShape, Zenon
<1>10. Readied(m, x)
  <2>1. SameIds(x, y) /\ x.backlog = y.backlog
    BY <1>3, Zenon DEF SavedFor
  <2> QED
    BY <1>2, <2>1, ReadiedSame, Zenon
<1>11. x.slaves[r] = "wait_end"
  BY <1>3, Zenon DEF SavedFor
<1> QED
  BY <1>4, <1>6, <1>7, <1>9, <1>10, <1>11, Zenon DEF NewSave

\* r joins y, and nothing else happens at the master.
LEMMA JoinShape ==
    ASSUME IInv, NEW r \in Running, NEW m, m = srv[r].masterhost, NEW s, s = srv[m],
           srv[r].repl_state = "connect", s.masterhost = None \/ s.repl_state = "connected",
           used' = [used EXCEPT !.ids = IF Fresh(s) THEN @ + 1 ELSE @],
           NEW y, y = Ready(s, NewId), NEW state \in SlaveStates,
           NEW x, x = Joined(y, r, state), NEW l \in LinkSet, Answer(r, x, l)
    PROVE  Asked(r, m, x, l) /\ Readied(m, x) /\ x.bgsave = s.bgsave /\ x.slaves[r] = state
<1>1. m \in Running /\ m # r /\ ServerOK(s) /\ r \in Servers
  BY AskingFacts
<1>2. /\ ServerOK(y) /\ SameFiles(y, s) /\ SameRole(y, s) /\ y.slaves = s.slaves
      /\ y.data = s.data /\ y.off = s.off /\ y.backlog.on /\ Readied(m, y)
  BY ReadyShape
<1>3. y \in ServerSet
  BY <1>2 DEF ServerOK
<1>4. /\ x \in ServerSet
      /\ SameIds(x, y) /\ SameFiles(x, y) /\ SameRole(x, y)
      /\ x.data = y.data /\ x.off = y.off /\ x.backlog = y.backlog
      /\ x.slaves[r] = state
      /\ \A p \in Servers : p # r => x.slaves[p] = y.slaves[p]
  <2>1. HasJoined(x, y, r, state)
    BY <1>1, <1>3, JoinedAs, Zenon
  <2> QED
    BY <2>1, Zenon DEF HasJoined
<1>5. ServerOK(x)
  BY <1>1, <1>2, JoinedOK, Zenon
<1>6. Readied(m, x)
  BY <1>2, <1>4, ReadiedSame, Zenon
<1>7. /\ SameRole(x, s) /\ x.disk = s.disk /\ x.bgsave = s.bgsave
      /\ x.data = s.data /\ x.off = s.off /\ x.backlog.on
      /\ \A p \in Servers \ {r} : x.slaves[p] = s.slaves[p]
  <2>1. SameRole(x, s)
    BY <1>2, <1>4, SameRoles, Zenon
  <2>2. x.disk = s.disk /\ x.bgsave = s.bgsave
    BY <1>2, <1>4, Zenon DEF SameFiles
  <2>3. x.data = s.data /\ x.off = s.off /\ x.backlog.on
    BY <1>2, <1>4, Zenon
  <2>4. ASSUME NEW p \in Servers \ {r} PROVE x.slaves[p] = s.slaves[p]
    <3>1. p \in Servers /\ p # r
      OBVIOUS
    <3>2. x.slaves[p] = y.slaves[p]
      BY <1>4, <3>1, Zenon
    <3> QED
      BY <1>2, <3>2, Zenon
  <2> QED
    BY <2>1, <2>2, <2>3, <2>4
<1>8. Asked(r, m, x, l)
  <2>1. Answers(s, x, r)
    BY <1>5, <1>7 DEF Answers
  <2> QED
    BY <2>1, AnswerShape, Zenon
<1> QED
  BY <1>4, <1>6, <1>7, <1>8

LEMMA SharedSaveShape ==
    ASSUME IInv, NEW r \in Running, NEW m, m = srv[r].masterhost, NEW s, s = srv[m],
           srv[r].repl_state = "connect", s.masterhost = None \/ s.repl_state = "connected",
           used' = [used EXCEPT !.ids = IF Fresh(s) THEN @ + 1 ELSE @],
           s.bgsave # None, Waiting(s, "wait_end") # {},
           NEW y, y = Ready(s, NewId),
           NEW x, x = Joined(y, r, "wait_end"), NEW l,
           l = Attach([NoLink EXCEPT !.peer = m], y), Answer(r, x, l)
    PROVE  SharedSave(r, m, x, l)
<1>1. /\ m \in Running /\ m # r /\ ServerOK(s) /\ s \in ServerSet
      /\ r \in Servers /\ m \in Servers /\ Slaves(s) \subseteq Running
  BY AskingFacts
<1> DEFINE c == CHOOSE p \in Waiting(s, "wait_end") : TRUE
           n == [NoLink EXCEPT !.peer = m]
           d == s.bgsave
           k == FullReply(n, s, d)
           q == link[c].stream
<1>2. c \in Waiting(s, "wait_end")
  OBVIOUS
<1>3. c \in Running /\ s.slaves[c] = "wait_end"
  BY <1>1, <1>2 DEF Waiting, Slaves
<1>4. ~Fresh(s)
  BY <1>1, <1>2 DEF Fresh, Waiting, Slaves
<1>5. y = s
  BY <1>4, ReadyShape
<1>6. l = [k EXCEPT !.stream = q]
  BY <1>5 DEF Attach, Queued
<1> HIDE DEF c
<1>7. q \in Seq(Writes)
  BY <1>3 DEF IInv, LinkSet
<1>8. d \in Snapshots
  BY <1>1 DEF ServerSet
<1>9. n \in LinkSet /\ n.peer = m
  BY <1>1, NewLinkFacts
<1>10. FullySent(k, n, s, d)
  <2>1. k = FullReply(n, s, d)
    OBVIOUS
  <2> HIDE DEF k, n, d
  <2> QED
    BY <1>1, <1>8, <1>9, <2>1, FullReplyFacts
<1> HIDE DEF k, n, q
<1>11. k \in LinkSet
  BY <1>10 DEF FullySent
<1>12. /\ l \in LinkSet /\ l.peer = k.peer /\ l.reply = k.reply /\ l.rdb = k.rdb
       /\ l.stream = q
  BY <1>6, <1>7, <1>11, StreamFacts
<1>13. "wait_end" \in SlaveStates
  BY DEF SlaveStates
<1>14. /\ Asked(r, m, x, l) /\ Readied(m, x) /\ x.bgsave = s.bgsave
       /\ x.slaves[r] = "wait_end"
  BY <1>12, <1>13, JoinShape
<1>15. /\ l.peer = m /\ l.reply \in Replies /\ l.reply # None /\ l.reply.type = "full"
       /\ l.reply.replid = s.replid /\ l.reply.off = s.bgsave.off
       /\ l.rdb = s.bgsave /\ l.rdb # None
  BY <1>9, <1>10, <1>12 DEF FullySent
<1>16. \E p \in Running : s.slaves[p] = "wait_end" /\ l.stream = link[p].stream
  BY <1>3, <1>12 DEF q
<1> QED
  BY <1>4, <1>14, <1>15, <1>16 DEF SharedSave

LEMMA LateSaveShape ==
    ASSUME IInv, NEW r \in Running, NEW m, m = srv[r].masterhost, NEW s, s = srv[m],
           srv[r].repl_state = "connect", s.masterhost = None \/ s.repl_state = "connected",
           used' = [used EXCEPT !.ids = IF Fresh(s) THEN @ + 1 ELSE @],
           NEW y, y = Ready(s, NewId),
           NEW x, x = Joined(y, r, "wait_start"), NEW l,
           l = [NoLink EXCEPT !.peer = m], Answer(r, x, l)
    PROVE  LateSave(r, m, x, l)
<1>1. m \in Servers
  BY AskingFacts
<1>2. l \in LinkSet /\ l.peer = m /\ l.reply = None /\ l.rdb = None /\ l.stream = <<>>
  BY <1>1, NewLinkFacts
<1>3. "wait_start" \in SlaveStates
  BY DEF SlaveStates
<1>4. /\ Asked(r, m, x, l) /\ Readied(m, x) /\ x.bgsave = s.bgsave
      /\ x.slaves[r] = "wait_start"
  BY <1>2, <1>3, JoinShape
<1> QED
  BY <1>2, <1>4 DEF LateSave

\* The four answers.
PsyncAs(r, m, x, l) ==
    Continued(r, m, x, l) \/ NewSave(r, m, x, l) \/ SharedSave(r, m, x, l) \/ LateSave(r, m, x, l)

LEMMA AnswerValues ==
    ASSUME IInv, NEW r \in Running, NEW m, m = srv[r].masterhost, m \in Running, m # r,
           NEW x, NEW l, Answer(r, x, l)
    PROVE  srv'[m] = x /\ link'[r] = l
<1>1. srv \in [Running -> ServerSet] /\ link \in [Running -> LinkSet]
  BY DEF IInv
<1>2. srv' = [srv EXCEPT ![m] = x, ![r].repl_state = "psync"]
  BY DEF Answer
<1>3. srv'[m] = x
  BY <1>1, <1>2
<1>4. link' = [BgsaveReplies(link, srv[m], x) EXCEPT ![r] = l]
  BY DEF Answer
<1>5. DOMAIN BgsaveReplies(link, srv[m], x) = Running
  BY DEF BgsaveReplies
<1> QED
  BY <1>3, <1>4, <1>5

LEMMA PsyncCases ==
    ASSUME IInv, NEW r \in Running, Psync(r)
    PROVE  PsyncAs(r, srv[r].masterhost, srv'[srv[r].masterhost], link'[r])
<1> DEFINE m == srv[r].masterhost
           s == srv[m]
           c == srv[r].cached_master
           new == [NoLink EXCEPT !.peer = m]
           y == Ready(s, NewId)
           x1 == Joined(s, r, "online")
           l1 == [[NoLink EXCEPT !.peer = m] EXCEPT
                   !.reply = [type |-> "continue", replid |-> s.replid, off |-> 0],
                   !.stream = BacklogFrom(s, c.reploff + 1)]
           x2 == startBgsaveForReplication(Joined(y, r, "wait_start"))
           l2 == FullReply([NoLink EXCEPT !.peer = m], x2, x2.bgsave)
           x3 == Joined(y, r, "wait_end")
           l3 == Attach([NoLink EXCEPT !.peer = m], y)
           x4 == Joined(y, r, "wait_start")
<1>1. srv[r].repl_state = "connect" /\ (s.masterhost = None \/ s.repl_state = "connected")
  BY DEF Psync
<1>2. CASE c # None /\ Continues(s, c.replid, c.reploff + 1)
  <2>1. Answer(r, x1, l1) /\ used' = used
    BY <1>2 DEF Psync
  <2>2. m = srv[r].masterhost /\ s = srv[m] /\ c = srv[r].cached_master
    OBVIOUS
  <2>3. m \in Running /\ m # r
    BY <1>1, AskingFacts
  <2>4. srv'[m] = x1 /\ link'[r] = l1
    <3> HIDE DEF x1, l1, m
    <3> QED
      BY <2>1, <2>2, <2>3, AnswerValues
  <2>5. Continued(r, m, x1, l1)
    <3>1. /\ x1 = Joined(s, r, "online")
          /\ l1 = [[NoLink EXCEPT !.peer = m] EXCEPT
                   !.reply = [type |-> "continue", replid |-> s.replid, off |-> 0],
                   !.stream = BacklogFrom(s, c.reploff + 1)]
      OBVIOUS
    <3> HIDE DEF x1, l1, m, s, c
    <3> QED
      BY <1>1, <1>2, <2>1, <2>2, <3>1, ContinueShape
  <2> HIDE DEF x1, l1, m
  <2> QED
    BY <2>4, <2>5 DEF PsyncAs, m
<1>3. CASE ~(c # None /\ Continues(s, c.replid, c.reploff + 1))
  <2>1. /\ used' = [used EXCEPT !.ids = IF Fresh(s) THEN @ + 1 ELSE @]
        /\ IF s.bgsave = None
           THEN Answer(r, x2, l2)
           ELSE IF Waiting(s, "wait_end") # {}
           THEN Answer(r, x3, l3)
           ELSE Answer(r, x4, new)
    BY <1>3 DEF Psync
  <2>2. m = srv[r].masterhost /\ s = srv[m] /\ y = Ready(s, NewId)
    OBVIOUS
  <2>3. m \in Running /\ m # r
    BY <1>1, AskingFacts
  <2>4. CASE s.bgsave = None
    <3>1. x2 = startBgsaveForReplication(Joined(y, r, "wait_start"))
          /\ l2 = FullReply([NoLink EXCEPT !.peer = m], x2, x2.bgsave)
      OBVIOUS
    <3>2. Answer(r, x2, l2)
      BY <2>1, <2>4
    <3> HIDE DEF x2, l2, m, s, y
    <3>3. NewSave(r, m, x2, l2)
      BY <1>1, <2>1, <2>2, <2>4, <3>1, <3>2, NewSaveShape
    <3>4. srv'[m] = x2 /\ link'[r] = l2
      BY <2>2, <2>3, <3>2, AnswerValues
    <3> QED
      BY <3>3, <3>4 DEF PsyncAs, m
  <2>5. CASE s.bgsave # None /\ Waiting(s, "wait_end") # {}
    <3>1. x3 = Joined(y, r, "wait_end") /\ l3 = Attach([NoLink EXCEPT !.peer = m], y)
      OBVIOUS
    <3>2. Answer(r, x3, l3)
      BY <2>1, <2>5
    <3> HIDE DEF x3, l3, m, s, y
    <3>3. SharedSave(r, m, x3, l3)
      BY <1>1, <2>1, <2>2, <2>5, <3>1, <3>2, SharedSaveShape
    <3>4. srv'[m] = x3 /\ link'[r] = l3
      BY <2>2, <2>3, <3>2, AnswerValues
    <3> QED
      BY <3>3, <3>4 DEF PsyncAs, m
  <2>6. CASE s.bgsave # None /\ Waiting(s, "wait_end") = {}
    <3>1. x4 = Joined(y, r, "wait_start") /\ new = [NoLink EXCEPT !.peer = m]
      OBVIOUS
    <3>2. Answer(r, x4, new)
      BY <2>1, <2>6
    <3> HIDE DEF x4, new, m, s, y
    <3>3. LateSave(r, m, x4, new)
      BY <1>1, <2>1, <2>2, <2>6, <3>1, <3>2, LateSaveShape
    <3>4. srv'[m] = x4 /\ link'[r] = new
      BY <2>2, <2>3, <3>2, AnswerValues
    <3> QED
      BY <3>3, <3>4 DEF PsyncAs, m
  <2> QED
    BY <2>4, <2>5, <2>6
<1> QED
  BY <1>2, <1>3

\* r's end of each answer.
LEMMA AskedLooked ==
    ASSUME IInv, NEW r \in Running, NEW m, NEW x, NEW l, Asked(r, m, x, l),
           LinkOK(r, srv'[r], l), Follows(m, x, r, srv'[r], l)
    PROVE  LookedAfter(m, x, r)
  BY DEF Asked, LookedAfter, SameFiles

LEMMA AskedLink ==
    ASSUME IInv, NEW r \in Running, NEW m, NEW x, NEW l, Asked(r, m, x, l)
    PROVE  /\ l \in LinkSet /\ srv'[r].repl_state = "psync" /\ srv'[r].masterhost = m
           /\ m # r /\ m # None /\ m \in Running /\ x \in ServerSet
           /\ srv'[r].cached_master = srv[r].cached_master /\ srv'[r].off = srv[r].off
           /\ x.off = srv[m].off /\ x.off \in Nat /\ srv[m] \in ServerSet
<1>1. Running \subseteq Servers /\ None \notin Servers
  BY RunningServers, ReplicationAssumption DEF IInv
<1>2. m \in Running /\ ServerOK(x)
  BY DEF Asked
<1> QED
  BY <1>1, <1>2 DEF Asked, ServerOK, ServerSet, IInv

LEMMA ContinuedLooked ==
    ASSUME IInv, NEW r \in Running, NEW m, NEW x, NEW l, Continued(r, m, x, l)
    PROVE  LookedAfter(m, x, r)
<1> DEFINE c == srv[r].cached_master
           s == srv[m]
           t == srv'[r]
           o == c.reploff + 1
<1>1. Asked(r, m, x, l)
  BY DEF Continued
<1>2. /\ l \in LinkSet /\ t.repl_state = "psync" /\ t.masterhost = m
      /\ m # r /\ m # None /\ m \in Running /\ t.cached_master = c /\ t.off = srv[r].off
      /\ x.off = s.off /\ s \in ServerSet
  BY <1>1, AskedLink
<1>3. /\ c # None /\ s.backlog.on /\ s.backlog.off <= o /\ o <= s.backlog.off + s.backlog.histlen
  BY DEF Continued, Continues
<1>4. /\ x.slaves[r] = "online" /\ l.peer = m /\ l.reply # None /\ l.reply.type = "continue"
      /\ l.rdb = None /\ l.stream = BacklogFrom(s, o)
  BY DEF Continued
<1>5. ServerOK(srv[r]) /\ ServerOK(s)
  BY <1>2 DEF IInv
<1>6. c.reploff = t.off /\ t.off \in Nat /\ s.off \in Nat
  BY <1>2, <1>3, <1>5 DEF ServerOK, ServerSet
<1>7. Len(l.stream) = s.off + 1 - o
  <2>1. o \in Int
    BY <1>6
  <2>2. BacklogOK(s)
    BY <1>5 DEF ServerOK
  <2> HIDE DEF o, s
  <2> QED
    BY <1>2, <1>3, <1>4, <2>1, <2>2, FromFacts
<1> DEFINE n == Len(l.stream)
<1>8. n = s.off + 1 - o
  BY <1>7
<1> HIDE DEF s, t, n, c
<1>9. t.off + n = x.off
  BY <1>2, <1>6, <1>8
<1>10. LinkOK(r, t, l)
  BY <1>2, <1>3, <1>4 DEF LinkOK
<1>11. Follows(m, x, r, t, l)
  BY <1>4, <1>9 DEF Follows, Flowing, BaseOff, n
<1> QED
  BY <1>1, <1>10, <1>11, AskedLooked DEF t

LEMMA NewSaveLooked ==
    ASSUME IInv, NEW r \in Running, NEW m, NEW x, NEW l, NewSave(r, m, x, l)
    PROVE  LookedAfter(m, x, r)
<1> DEFINE t == srv'[r]
<1>1. Asked(r, m, x, l) /\ x.slaves[r] = "wait_end" /\ l.peer = m /\ x.bgsave = Snapshot(x)
  BY DEF NewSave
<1>2. /\ l \in LinkSet /\ t.repl_state = "psync" /\ t.masterhost = m
      /\ m # r /\ m # None /\ m \in Running /\ x.off \in Nat /\ x \in ServerSet
  BY <1>1, AskedLink
<1>3. /\ l.reply # None /\ l.reply.type = "full" /\ l.reply.off = x.bgsave.off
      /\ l.rdb = x.bgsave /\ l.rdb # None /\ l.stream = <<>>
  BY DEF NewSave, FullySent
<1>4. x.bgsave.off = x.off
  BY <1>1 DEF Snapshot
<1> HIDE DEF t
<1>5. LinkOK(r, t, l)
  BY <1>1, <1>2, <1>3 DEF LinkOK
<1>6. Flowing(t, l) /\ BaseOff(t, l) + Len(l.stream) = x.off
  BY <1>2, <1>3, <1>4 DEF Flowing, BaseOff
<1>7. Follows(m, x, r, t, l)
  BY <1>1, <1>3, <1>6 DEF Follows
<1> QED
  BY <1>1, <1>5, <1>7, AskedLooked DEF t

LEMMA SharedSaveLooked ==
    ASSUME IInv, NEW r \in Running, NEW m, NEW x, NEW l, SharedSave(r, m, x, l)
    PROVE  LookedAfter(m, x, r)
<1> DEFINE t == srv'[r]
           s == srv[m]
<1>1. Asked(r, m, x, l) /\ x.slaves[r] = "wait_end" /\ l.peer = m /\ x.bgsave = s.bgsave
  BY DEF SharedSave
<1>2. /\ l \in LinkSet /\ t.repl_state = "psync" /\ t.masterhost = m
      /\ m # r /\ m # None /\ m \in Running /\ x.off = s.off /\ x \in ServerSet
  BY <1>1, AskedLink
<1>3. /\ l.reply # None /\ l.reply.type = "full" /\ l.reply.off = s.bgsave.off
      /\ l.rdb = s.bgsave /\ l.rdb # None
  BY DEF SharedSave
<1>4. PICK c \in Running : s.slaves[c] = "wait_end" /\ l.stream = link[c].stream
  BY DEF SharedSave
<1>5. Follows(m, s, c, srv[c], link[c])
  BY <1>2 DEF IInv
<1>6. link[c].rdb # None /\ link[c].rdb = s.bgsave
      /\ BaseOff(srv[c], link[c]) + Len(link[c].stream) = s.off
  BY <1>4, <1>5 DEF Follows
<1>7. s.bgsave.off + Len(l.stream) = x.off
  BY <1>2, <1>4, <1>6 DEF BaseOff
<1> HIDE DEF t, s
<1>8. LinkOK(r, t, l)
  BY <1>1, <1>2, <1>3 DEF LinkOK
<1>9. Flowing(t, l) /\ BaseOff(t, l) + Len(l.stream) = x.off
  BY <1>3, <1>7 DEF Flowing, BaseOff
<1>10. Follows(m, x, r, t, l)
  BY <1>1, <1>3, <1>9 DEF Follows
<1> QED
  BY <1>1, <1>8, <1>10, AskedLooked DEF t

LEMMA LateSaveLooked ==
    ASSUME IInv, NEW r \in Running, NEW m, NEW x, NEW l, LateSave(r, m, x, l)
    PROVE  LookedAfter(m, x, r)
<1> DEFINE t == srv'[r]
<1>1. /\ Asked(r, m, x, l) /\ x.slaves[r] = "wait_start" /\ l.peer = m
      /\ l.reply = None /\ l.rdb = None /\ l.stream = <<>>
  BY DEF LateSave
<1>2. /\ l \in LinkSet /\ t.repl_state = "psync" /\ t.masterhost = m
      /\ m # r /\ m # None
  BY <1>1, AskedLink
<1> HIDE DEF t
<1>3. LinkOK(r, t, l)
  BY <1>1, <1>2 DEF LinkOK
<1>4. Follows(m, x, r, t, l)
  BY <1>1, <1>2 DEF Follows
<1> QED
  BY <1>1, <1>3, <1>4, AskedLooked DEF t

LEMMA PsyncKeeps ==
    ASSUME IInv, NEW r \in Running, Psync(r), scenario' = scenario
    PROVE  IInv'
<1> DEFINE m == srv[r].masterhost
           x == srv'[m]
           l == link'[r]
<1>1. PsyncAs(r, m, x, l)
  BY PsyncCases
<1> HIDE DEF m, x, l
<1>2. Asked(r, m, x, l) /\ used' \in Counts /\ LookedAfter(m, x, r)
  <2>1. CASE Continued(r, m, x, l)
    BY <2>1, ContinuedLooked DEF Continued, IInv
  <2>2. CASE NewSave(r, m, x, l)
    BY <2>2, NewSaveLooked DEF NewSave, Readied
  <2>3. CASE SharedSave(r, m, x, l)
    BY <2>3, SharedSaveLooked DEF SharedSave, Readied
  <2>4. CASE LateSave(r, m, x, l)
    BY <2>4, LateSaveLooked DEF LateSave, Readied
  <2> QED
    BY <1>1, <2>1, <2>2, <2>3, <2>4 DEF PsyncAs
<1>3. m \in Running /\ x = srv'[m]
  BY <1>2 DEF Asked
<1>4. Slaves(srv[m]) \subseteq Running
  BY <1>3 DEF IInv
<1>5. Slaves(x) \subseteq Running
  BY <1>2, <1>4 DEF Asked
<1>6. ASSUME NEW q \in Running \ {m} PROVE LookedAfter(m, x, q)
  <2>1. CASE q = r
    BY <1>2, <2>1
  <2>2. CASE q # r
    <3>1. /\ SlaveStep(m, x, q) /\ srv'[q] = srv[q] /\ x.off = srv[m].off
          /\ link' \in [Running -> LinkSet]
      BY <1>2, <2>2 DEF Asked
    <3> QED
      BY <1>3, <3>1, SlaveStepOK
  <2> QED
    BY <2>1, <2>2
<1>7. /\ srv' \in [Running -> ServerSet] /\ link' \in [Running -> LinkSet]
      /\ ServerOK(x) /\ SameRole(x, srv[m]) /\ x.off = srv[m].off
      /\ x.slaves[m] = "none" /\ link'[m] = link[m]
  BY <1>2 DEF Asked
<1> QED
  BY <1>2, <1>3, <1>5, <1>6, <1>7, MasterKeeps
-----------------------------------------------------------------------------
(* The start. *)

LEMMA FirstIds ==
    LET id == CHOOSE f \in [Servers -> 1..Cardinality(Servers)] :
                 \A a, b \in Servers : f[a] = f[b] => a = b
    IN  /\ id \in [Servers -> 1..Cardinality(Servers)] /\ Cardinality(Servers) \in Nat
        /\ \A a, b \in Servers : id[a] = id[b] => a = b
<1> DEFINE n == Cardinality(Servers)
<1>1. n \in Nat /\ ExistsBijection(1..n, Servers)
  BY ReplicationAssumption, FS_CardinalityType
<1>2. ExistsBijection(Servers, 1..n)
  BY <1>1, Fun_ExistsBijSymmetric
<1>3. PICK f \in Bijection(Servers, 1..n) : TRUE
  BY <1>2 DEF ExistsBijection
<1>4. f \in [Servers -> 1..n] /\ \A a, b \in Servers : f[a] = f[b] => a = b
  BY <1>3 DEF Bijection, Injection, IsInjective
<1> QED
  BY <1>1, <1>4

LEMMA InitShape ==
    ASSUME Init
    PROVE  /\ scenario \in Scenarios /\ used \in Counts /\ srv \in [Running -> ServerSet]
           /\ link = [r \in Running |-> NoLink]
           /\ \E id \in [Servers -> Nat] :
                 /\ \A a, b \in Servers : id[a] = id[b] => a = b
                 /\ \A r \in Running : /\ StartsAs(srv[r], EmptyDisk, scenario.hosts[r], id[r])
                                       /\ id[r] <= used.ids
<1> DEFINE n == Cardinality(Servers)
           id == CHOOSE f \in [Servers -> 1..Cardinality(Servers)] :
                    \A a, b \in Servers : f[a] = f[b] => a = b
<1>1. /\ id \in [Servers -> 1..n] /\ n \in Nat
      /\ \A a, b \in Servers : id[a] = id[b] => a = b
  BY FirstIds
<1>2. srv = [s \in Running |-> Started([disk |-> EmptyDisk, masterhost |-> scenario.hosts[s]], id[s])]
  BY DEF Init
<1>3. /\ scenario \in Scenarios /\ link = [s \in Running |-> NoLink]
      /\ used = [ids |-> n, writes |-> 0, changes |-> 0, faults |-> 0, saves |-> 0]
  BY DEF Init
<1> HIDE DEF id, n
<1>4. used \in Counts /\ used.ids = n
  BY <1>1, <1>3 DEF Counts
<1>5. Running \subseteq Servers /\ scenario.hosts \in [Running -> Running \cup {None}]
  BY <1>3, ReplicationAssumption DEF Running
<1>6. EmptyDisk \in Snapshots
  BY DEF EmptyDisk, Snapshots
<1>7. ASSUME NEW r \in Running
      PROVE  /\ StartsAs(srv[r], EmptyDisk, scenario.hosts[r], id[r])
             /\ id[r] <= used.ids /\ srv[r] \in ServerSet
  <2> DEFINE h == scenario.hosts[r]
             s == [disk |-> EmptyDisk, masterhost |-> h]
             d == EmptyDisk
             i == id[r]
  <2>1. h \in Servers \cup {None} /\ i \in Nat /\ i <= n
    BY <1>1, <1>5
  <2>2. srv[r] = Started(s, i)
    BY <1>2
  <2>3. s.disk = d /\ s.masterhost = h /\ d \in Snapshots
    BY <1>6
  <2> HIDE DEF s, h, d, i
  <2>4. StartsAs(srv[r], d, h, i)
    BY <2>1, <2>2, <2>3, StartedOK
  <2>5. srv[r] \in ServerSet
    BY <2>4 DEF StartsAs, ServerOK
  <2> QED
    BY <1>4, <2>1, <2>4, <2>5 DEF h, d, i
<1>8. srv \in [Running -> ServerSet]
  BY <1>2, <1>7
<1>9. id \in [Servers -> Nat]
  BY <1>1
<1> QED
  BY <1>1, <1>3, <1>4, <1>7, <1>8, <1>9

LEMMA InitIInv == Init => IInv
<1> SUFFICES ASSUME Init PROVE IInv
  OBVIOUS
<1>1. /\ scenario \in Scenarios /\ used \in Counts /\ srv \in [Running -> ServerSet]
      /\ link = [r \in Running |-> NoLink]
  BY InitShape
<1>2. PICK id \in [Servers -> Nat] :
         \A r \in Running : StartsAs(srv[r], EmptyDisk, scenario.hosts[r], id[r])
  BY InitShape
<1>3. Running \subseteq Servers /\ scenario.hosts \in [Running -> Running \cup {None}]
  BY <1>1, ReplicationAssumption DEF Running
<1>4. /\ NoLink \in LinkSet /\ NoLink.peer = None /\ NoLink.reply = None
      /\ NoLink.rdb = None /\ NoLink.stream = <<>>
  BY NoLinkFacts
<1>5. link \in [Running -> LinkSet]
  BY <1>1, <1>4
<1>6. ASSUME NEW r \in Running
      PROVE  /\ ServerOK(srv[r]) /\ srv[r].masterhost = scenario.hosts[r]
             /\ srv[r].repl_state \in {"none", "connect"}
             /\ \A q \in Servers : srv[r].slaves[q] = "none"
  BY <1>2 DEF StartsAs
<1>7. ASSUME NEW r \in Running
      PROVE  /\ srv[r].masterhost \in Running \cup {None} /\ Slaves(srv[r]) \subseteq Running
             /\ LinkOK(r, srv[r], link[r])
  <2>1. srv[r].masterhost \in Running \cup {None}
    BY <1>3, <1>6
  <2>2. Slaves(srv[r]) \subseteq Running
    BY <1>6 DEF Slaves
  <2>3. link[r] = NoLink
    BY <1>1
  <2> DEFINE k == NoLink
  <2>4. /\ k \in LinkSet /\ k.peer = None /\ k.reply = None /\ k.rdb = None /\ k.stream = <<>>
    BY <1>4
  <2> HIDE DEF k
  <2>5. LinkOK(r, srv[r], k)
    BY <1>6, <2>4 DEF LinkOK
  <2> QED
    BY <2>1, <2>2, <2>3, <2>5 DEF k
<1>8. \A m, r \in Running : Follows(m, srv[m], r, srv[r], link[r])
  BY <1>3, <1>6, FollowsNone
<1> QED
  BY <1>1, <1>5, <1>6, <1>7, <1>8 DEF IInv
-----------------------------------------------------------------------------
(* The invariant holds. *)

LEMMA NextKeeps == IInv /\ [Next]_vars => IInv'
<1> SUFFICES ASSUME IInv, [Next]_vars PROVE IInv'
  OBVIOUS
<1>1. CASE UNCHANGED vars
  BY <1>1 DEF vars, IInv, Running
<1>2. CASE Next
  <2>1. scenario' = scenario
    BY <1>2 DEF Next
  <2>2. PICK s \in Running :
            \/ Write(s) \/ Psync(s) \/ Receive(s) \/ LinkLost(s) \/ LinkClosed(s)
            \/ Save(s) \/ (\E ok \in BOOLEAN : BgsaveDone(s, ok))
            \/ FreeBacklog(s) \/ LoadFails(s) \/ Restart(s)
            \/ replicationUnsetMaster(s)
            \/ \E m \in Running \ {s} : replicationSetMaster(s, m)
    BY <1>2 DEF Next
  <2>3. CASE Write(s)
    BY <2>1, <2>3, WriteKeeps
  <2>4. CASE Psync(s)
    BY <2>1, <2>4, PsyncKeeps
  <2>5. CASE Receive(s)
    <3>1. used' = used
      BY <2>5 DEF Receive
    <3>2. CASE ReceiveContinue(s)
      BY <2>1, <3>1, <3>2, ReceiveContinueKeeps
    <3>3. CASE ReceiveFull(s)
      BY <2>1, <3>1, <3>3, ReceiveFullKeeps
    <3>4. CASE ReceiveSnapshot(s)
      BY <2>1, <3>1, <3>4, ReceiveSnapshotKeeps
    <3>5. CASE ReceiveWrite(s)
      BY <2>1, <3>1, <3>5, ReceiveWriteKeeps
    <3> QED
      BY <2>5, <3>2, <3>3, <3>4, <3>5 DEF Receive
  <2>6. CASE LinkLost(s)
    BY <2>1, <2>6, LinkLostKeeps
  <2>7. CASE LinkClosed(s)
    BY <2>1, <2>7, LinkClosedKeeps
  <2>8. CASE Save(s)
    BY <2>1, <2>8, SaveKeeps
  <2>9. CASE \E ok \in BOOLEAN : BgsaveDone(s, ok)
    BY <2>1, <2>9, BgsaveDoneKeeps
  <2>10. CASE FreeBacklog(s)
    BY <2>1, <2>10, FreeBacklogKeeps
  <2>11. CASE LoadFails(s)
    BY <2>1, <2>11, LoadFailsKeeps
  <2>12. CASE Restart(s)
    BY <2>1, <2>12, RestartKeeps
  <2>13. CASE replicationUnsetMaster(s)
    BY <2>1, <2>13, UnsetMasterKeeps
  <2>14. CASE \E m \in Running \ {s} : replicationSetMaster(s, m)
    BY <2>1, <2>14, SetMasterKeeps
  <2> QED
    BY <2>2, <2>3, <2>4, <2>5, <2>6, <2>7, <2>8, <2>9, <2>10, <2>11, <2>12, <2>13, <2>14
<1> QED
  BY <1>1, <1>2

\* Every server, every link and every pair of a master and a replica stay as IInv
\* says, for any set of servers and any size of the backlog.
THEOREM Invariance == Spec => []IInv
<1>1. Init => IInv
  BY InitIInv
<1>2. IInv /\ [Next]_vars => IInv'
  BY NextKeeps
<1> QED
  BY <1>1, <1>2, PTL DEF Spec

LEMMA IInvBacklog == IInv => BacklogIsTail
<1> SUFFICES ASSUME IInv, NEW m \in Running, srv[m].backlog.on
             PROVE  LET b == srv[m].backlog
                        n == Len(srv[m].data)
                    IN  /\ b.off + b.histlen = srv[m].off + 1
                        /\ b.histlen <= n
                        /\ BacklogFrom(srv[m], b.off) = SubSeq(srv[m].data, n - b.histlen + 1, n)
  BY DEF BacklogIsTail
<1> DEFINE s == srv[m]
           o == s.backlog.off
           h == s.backlog.histlen
           q == BacklogFrom(s, o)
<1>1. ServerOK(s) /\ s \in ServerSet /\ BacklogOK(s)
  BY DEF IInv, ServerOK
<1>2. o + h = s.off + 1 /\ h <= Len(s.data)
  BY <1>1 DEF BacklogOK
<1>3. o \in Int /\ h \in Nat /\ s.off \in Nat
  BY <1>1, ReplicationAssumption DEF ServerSet, Backlogs
<1>4. o <= o + h
  BY <1>3
<1>5. /\ Len(q) = s.off + 1 - o
      /\ q = SubSeq(s.data, Len(s.data) - Len(q) + 1, Len(s.data))
  <2>1. q = BacklogFrom(s, o) /\ s.backlog.on
    OBVIOUS
  <2>2. s.backlog.off <= o /\ o <= s.backlog.off + s.backlog.histlen
    BY <1>3, <1>4
  <2> HIDE DEF q, o, s
  <2> QED
    BY <1>1, <1>3, <2>1, <2>2, FromFacts
<1>6. Len(q) = h
  <2> DEFINE n == Len(q)
             z == s.off
  <2>1. n = z + 1 - o /\ o + h = z + 1 /\ z \in Nat
    BY <1>2, <1>3, <1>5
  <2> HIDE DEF n, z, o, h
  <2>2. n = h
    BY <1>3, <2>1
  <2> QED
    BY <2>2 DEF n
<1> QED
  BY <1>2, <1>5, <1>6

\* The backlog of every server is the end of the data set the server has, and its
\* offset that of the stream (feedReplicationBacklog, replication.c:127-150).
THEOREM BacklogIsTheTail == Spec => []BacklogIsTail
  BY Invariance, IInvBacklog, PTL

LEMMA IInvSlaves == IInv => SlavesHaveBacklog
  BY DEF IInv, ServerOK, SlavesHaveBacklog

\* No server has replicas and no backlog: the assertion of replicationFeedSlaves()
\* (replication.c:191-192) never fails.
THEOREM SlavesNeedBacklog == Spec => []SlavesHaveBacklog
  BY Invariance, IInvSlaves, PTL

LEMMA IInvOffsets == IInv => OffsetsAgree
<1> SUFFICES ASSUME IInv, NEW r \in Running, Attached(r), srv[r].repl_state = "connected"
             PROVE  /\ srv[r].master.reploff = srv[r].off
                    /\ srv[r].off + Len(link[r].stream) = srv[link[r].peer].off
  BY DEF OffsetsAgree
<1> DEFINE m == link[r].peer
<1>1. ServerOK(srv[r]) /\ LinkOK(r, srv[r], link[r]) /\ srv[r].masterhost \in Running \cup {None}
  BY DEF IInv
<1>2. m # None /\ srv[m].slaves[r] \in {"wait_end", "online"}
  BY DEF Attached
<1>3. m \in Running /\ link[r].rdb = None
  BY <1>1, <1>2 DEF LinkOK
<1>4. Follows(m, srv[m], r, srv[r], link[r])
  BY <1>3 DEF IInv
<1>5. BaseOff(srv[r], link[r]) + Len(link[r].stream) = srv[m].off
  BY <1>2, <1>4 DEF Follows
<1> QED
  BY <1>1, <1>3, <1>5 DEF ServerOK, BaseOff

\* A replica's offset and what is on its way to it make up its master's offset,
\* whatever resynchronizations, failovers and restarts there were.
THEOREM OffsetsMeanTheSame == Spec => []OffsetsAgree
  BY Invariance, IInvOffsets, PTL
-----------------------------------------------------------------------------
(***************************************************************************)
(* Proof that a replica never diverges unnoticed.                          *)
(*                                                                         *)
(* A replication ID stands for a history: the writes that were made under  *)
(* it, in order.  Whatever a server says it has of an ID (its data set, a   *)
(* snapshot with the ID and an offset in it, a second ID, what is on its   *)
(* way to it) is a beginning of that history, the one that the offset      *)
(* measures.                                                               *)
(***************************************************************************)

\* Whether the ID stands for something yet, the offset before its first write, its
\* writes, and the only server that may know of it (None: anybody).
HistorySet == [live : BOOLEAN, base : Int, seq : Seq(Writes), owner : Servers \cup {None}]

\* q knows the first n writes of d as the history of id up to the offset o.
Known(H, q, id, d, n, o) ==
    /\ H[id].live /\ H[id].owner \in {None, q}
    /\ n \in 0..Len(d) /\ n <= Len(H[id].seq) /\ o = H[id].base + n
    /\ \A i \in 1..n : d[i] = H[id].seq[i]
AllKnown(H, q, id, d, o) == Known(H, q, id, d, Len(d), o)

SnapshotKnown(H, q, k) ==
    k # None /\ k.info => AllKnown(H, q, k.replid, k.data, k.off)

\* The history that what is on its way belongs to.
StreamId(s, l) ==
    IF l.reply # None THEN l.reply.replid
    ELSE IF s.repl_state = "transfer" THEN s.master_initial.replid ELSE s.replid

\* What the server r has, as s, with the link l.
OwnKnown(H, r, s) ==
    /\ s.cached_master # None => AllKnown(H, r, s.replid, s.data, s.off)
    /\ s.backlog.on => AllKnown(H, None, s.replid, s.data, s.off)
    /\ s.backlog.on /\ s.replid2 # None =>
          Known(H, None, s.replid2, s.data, Len(s.data) - (s.off + 1 - s.second_replid_offset),
                s.second_replid_offset - 1)
    /\ s.cached_master # None /\ ~s.backlog.on /\ s.replid2 # None => H[s.replid].owner = r
FilesKnown(H, r, s) == SnapshotKnown(H, r, s.disk) /\ SnapshotKnown(H, r, s.bgsave)
StreamKnown(H, s, l) ==
    Flowing(s, l) => AllKnown(H, None, StreamId(s, l), BaseData(s, l) \o l.stream,
                              BaseOff(s, l) + Len(l.stream))
LinkKnown(H, s, l) ==
    /\ SnapshotKnown(H, None, l.rdb) /\ StreamKnown(H, s, l)
    /\ l.reply # None /\ l.reply.type = "continue" => AllKnown(H, None, s.replid, s.data, s.off)

\* The history goes on with the data set of the master that writes it; that of a
\* master without a backlog has not begun.
MasterKnown(H, s) ==
    /\ s.masterhost = None /\ s.backlog.on => H[s.replid].seq = s.data
    /\ s.masterhost = None /\ ~s.backlog.on => ~H[s.replid].live

ServerKnows(H, r, s, l, ids) ==
    /\ OwnKnown(H, r, s) /\ FilesKnown(H, r, s) /\ LinkKnown(H, s, l) /\ MasterKnown(H, s)
    /\ s.replid <= ids

\* Two masters write two histories, and what m sends to r belongs to m's.
PairKnows(m, x, r, s, l) ==
    /\ m # r /\ x.masterhost = None /\ s.masterhost = None => x.replid # s.replid
    /\ x.slaves[r] \in {"wait_end", "online"} => StreamId(s, l) = x.replid

Remembered(H, S, sv, lk, ids) ==
    /\ H \in [Nat -> HistorySet] /\ \A id \in Nat : H[id].live => id <= ids
    /\ \A r \in S : ServerKnows(H, r, sv[r], lk[r], ids)
    /\ \A m, r \in S : PairKnows(m, sv[m], r, sv[r], lk[r])

\* The part of the inductive invariant that is about data sets.
HInv == \E H \in [Nat -> HistorySet] : Remembered(H, Running, srv, link, used.ids)
-----------------------------------------------------------------------------
(* Histories. *)

\* G is H with more histories, and more of each.
Grown(H, G) ==
    \A id \in Nat : H[id].live =>
        /\ G[id].live /\ G[id].base = H[id].base /\ G[id].owner = H[id].owner
        /\ Len(H[id].seq) <= Len(G[id].seq)
        /\ \A i \in 1..Len(H[id].seq) : G[id].seq[i] = H[id].seq[i]

LEMMA HistoryType ==
    ASSUME NEW H \in [Nat -> HistorySet], NEW id \in Nat
    PROVE  /\ H[id] \in HistorySet /\ H[id].seq \in Seq(Writes) /\ Len(H[id].seq) \in Nat
           /\ H[id].base \in Int /\ H[id].owner \in Servers \cup {None}
<1>1. H[id] \in HistorySet
  OBVIOUS
<1>2. H[id].seq \in Seq(Writes) /\ H[id].base \in Int /\ H[id].owner \in Servers \cup {None}
  BY <1>1 DEF HistorySet
<1> QED
  BY <1>1, <1>2, LenProperties

LEMMA GrownSame == ASSUME NEW H \in [Nat -> HistorySet] PROVE Grown(H, H)
<1>1. \A id \in Nat : Len(H[id].seq) \in Nat
  BY HistoryType
<1> QED
  BY <1>1 DEF Grown

LEMMA KnownGrown ==
    ASSUME NEW H \in [Nat -> HistorySet], NEW G \in [Nat -> HistorySet], Grown(H, G),
           NEW id \in Nat, NEW d \in Seq(Writes), NEW q, NEW n, NEW o, Known(H, q, id, d, n, o)
    PROVE  Known(G, q, id, d, n, o)
<1>1. /\ H[id].live /\ G[id].live /\ G[id].base = H[id].base /\ G[id].owner = H[id].owner
      /\ Len(H[id].seq) <= Len(G[id].seq)
      /\ \A i \in 1..Len(H[id].seq) : G[id].seq[i] = H[id].seq[i]
  BY DEF Known, Grown
<1>2. n \in 0..Len(d) /\ n <= Len(H[id].seq) /\ o = H[id].base + n
      /\ \A i \in 1..n : d[i] = H[id].seq[i]
  BY DEF Known
<1>3. Len(H[id].seq) \in Nat /\ Len(G[id].seq) \in Nat /\ n \in Nat
  BY <1>2, HistoryType
<1> DEFINE a == Len(H[id].seq)
           b == Len(G[id].seq)
<1> HIDE DEF a, b
<1>4. n <= b
  BY <1>1, <1>2, <1>3 DEF a, b
<1>5. \A i \in 1..n : i \in 1..a
  BY <1>2, <1>3 DEF a
<1>6. \A i \in 1..n : d[i] = G[id].seq[i]
  BY <1>1, <1>2, <1>5 DEF a
<1> QED
  BY <1>1, <1>2, <1>4, <1>6 DEF Known, b

\* A beginning of what is known is known.
LEMMA KnownPrefix ==
    ASSUME NEW H \in [Nat -> HistorySet], NEW id \in Nat, NEW d \in Seq(Writes),
           NEW e \in Seq(Writes), NEW q, NEW n, NEW o \in Int, Known(H, q, id, d, n, o),
           NEW k \in 0..n, k <= Len(e), \A i \in 1..k : e[i] = d[i],
           NEW p \in Int, p = o - (n - k)
    PROVE  Known(H, q, id, e, k, p)
<1>1. /\ H[id].live /\ H[id].owner \in {None, q} /\ n \in 0..Len(d) /\ n <= Len(H[id].seq)
      /\ o = H[id].base + n /\ \A i \in 1..n : d[i] = H[id].seq[i]
  BY DEF Known
<1>2. Len(H[id].seq) \in Nat /\ Len(d) \in Nat /\ Len(e) \in Nat /\ H[id].base \in Int
  BY HistoryType
<1> DEFINE a == Len(H[id].seq)
           b == H[id].base
           c == Len(e)
<1>3. n \in Nat /\ k \in Nat /\ n <= a /\ o = b + n /\ k <= n /\ a \in Nat /\ b \in Int
      /\ c \in Nat /\ k <= c
  BY <1>1, <1>2
<1> HIDE DEF a, b, c
<1>4. k <= a /\ k \in 0..c /\ p = b + k
  BY <1>3
<1>5. \A i \in 1..k : i \in 1..n
  BY <1>3
<1>6. \A i \in 1..k : e[i] = H[id].seq[i]
  BY <1>1, <1>5
<1> QED
  BY <1>1, <1>4, <1>6 DEF Known, a, b, c

\* What anybody may know, q may know.
LEMMA KnownTo ==
    ASSUME NEW H, NEW id, NEW d, NEW n, NEW o, Known(H, None, id, d, n, o), NEW q
    PROVE  Known(H, q, id, d, n, o)
  BY DEF Known

\* What two servers know is known to all.
LEMMA KnownBoth ==
    ASSUME NEW H, NEW id, NEW d, NEW n, NEW o, NEW q, Known(H, q, id, d, n, o),
           H[id].owner \in {None}
    PROVE  Known(H, None, id, d, n, o)
  BY DEF Known

\* The offset tells how much it is.
LEMMA KnownLength ==
    ASSUME NEW H \in [Nat -> HistorySet], NEW id \in Nat, NEW d \in Seq(Writes),
           NEW e \in Seq(Writes), NEW q, NEW p, NEW n, NEW k, NEW o, NEW u,
           Known(H, q, id, d, n, o), Known(H, p, id, e, k, u)
    PROVE  /\ n \in Nat /\ k \in Nat /\ o \in Int /\ u \in Int /\ n - k = o - u
           /\ \A i \in 1..n : i \in 1..k => d[i] = e[i]
<1>1. n \in 0..Len(d) /\ o = H[id].base + n /\ \A i \in 1..n : d[i] = H[id].seq[i]
  BY DEF Known
<1>2. k \in 0..Len(e) /\ u = H[id].base + k /\ \A i \in 1..k : e[i] = H[id].seq[i]
  BY DEF Known
<1>3. H[id].base \in Int
  BY HistoryType
<1> DEFINE b == H[id].base
<1>4. n \in Nat /\ k \in Nat /\ o = b + n /\ u = b + k /\ b \in Int
  BY <1>1, <1>2, <1>3
<1> HIDE DEF b
<1>5. o \in Int /\ u \in Int /\ n - k = o - u
  BY <1>4
<1> QED
  BY <1>1, <1>2, <1>4, <1>5

LEMMA KnownEqual ==
    ASSUME NEW H \in [Nat -> HistorySet], NEW id \in Nat, NEW d \in Seq(Writes),
           NEW e \in Seq(Writes), NEW q, NEW p, NEW o,
           AllKnown(H, q, id, d, o), AllKnown(H, p, id, e, o)
    PROVE  d = e
<1> DEFINE n == Len(d)
           k == Len(e)
<1>1. Known(H, q, id, d, n, o) /\ Known(H, p, id, e, k, o)
  BY DEF AllKnown
<1> HIDE DEF n, k
<1>2. n \in Nat /\ k \in Nat /\ o \in Int /\ n - k = o - o /\ \A i \in 1..n : i \in 1..k => d[i] = e[i]
  BY <1>1, KnownLength
<1>3. n = k
  BY <1>2
<1>4. \A i \in 1..Len(d) : d[i] = e[i]
  BY <1>2, <1>3 DEF n
<1>5. Len(d) = Len(e)
  BY <1>3 DEF n, k
<1> QED
  BY <1>4, <1>5, SeqEqual
-----------------------------------------------------------------------------
(* What stays known. *)

LEMMA SnapshotFields ==
    ASSUME NEW k \in Snapshots
    PROVE  k.replid \in Nat /\ k.data \in Seq(Writes) /\ k.off \in Nat /\ k # None
  BY ReplicationAssumption DEF Snapshots

LEMMA ServerFields ==
    ASSUME NEW s \in ServerSet
    PROVE  /\ s.replid \in Nat /\ s.data \in Seq(Writes) /\ Len(s.data) \in Nat /\ s.off \in Nat
           /\ s.disk \in Snapshots /\ (s.bgsave # None => s.bgsave \in Snapshots)
           /\ (s.replid2 # None => s.replid2 \in Nat) /\ s.second_replid_offset \in Int
<1>1. /\ s.replid \in Nat /\ s.data \in Seq(Writes) /\ s.off \in Nat
      /\ s.disk \in Snapshots /\ s.bgsave \in Snapshots \cup {None}
      /\ s.replid2 \in Nat \cup {None} /\ s.second_replid_offset \in Int
  BY DEF ServerSet
<1> QED
  BY <1>1, LenProperties

LEMMA StreamTypes ==
    ASSUME NEW s, ServerOK(s), NEW r, NEW l, LinkOK(r, s, l)
    PROVE  /\ StreamId(s, l) \in Nat /\ BaseData(s, l) \in Seq(Writes) /\ BaseOff(s, l) \in Nat
           /\ l.stream \in Seq(Writes) /\ Len(l.stream) \in Nat
           /\ BaseData(s, l) \o l.stream \in Seq(Writes)
           /\ l.rdb # None => l.rdb \in Snapshots
<1>1. s \in ServerSet /\ l \in LinkSet
  BY DEF ServerOK, LinkOK
<1>2. /\ l.stream \in Seq(Writes) /\ l.rdb \in Snapshots \cup {None}
      /\ l.reply \in Replies \cup {None}
  BY <1>1 DEF LinkSet
<1>3. s.repl_state = "transfer" => s.master_initial \in Positions
  BY <1>1 DEF ServerOK, ServerSet
<1>4. s.replid \in Nat /\ s.data \in Seq(Writes) /\ s.off \in Nat
  BY <1>1, ServerFields
<1>5. StreamId(s, l) \in Nat
  <2>1. l.reply # None => l.reply.replid \in Nat
    BY <1>2 DEF Replies
  <2>2. s.repl_state = "transfer" => s.master_initial.replid \in Nat
    BY <1>3 DEF Positions
  <2> QED
    BY <1>4, <2>1, <2>2 DEF StreamId
<1>6. BaseData(s, l) \in Seq(Writes) /\ BaseOff(s, l) \in Nat
  BY <1>2, <1>4, SnapshotFields DEF BaseData, BaseOff
<1>7. BaseData(s, l) \o l.stream \in Seq(Writes)
  BY <1>2, <1>6, ConcatProperties
<1> QED
  BY <1>2, <1>5, <1>6, <1>7, LenProperties

LEMMA SnapshotGrown ==
    ASSUME NEW H \in [Nat -> HistorySet], NEW G \in [Nat -> HistorySet], Grown(H, G),
           NEW q, NEW k, k # None => k \in Snapshots, SnapshotKnown(H, q, k)
    PROVE  SnapshotKnown(G, q, k)
<1> SUFFICES ASSUME k # None, k.info PROVE AllKnown(G, q, k.replid, k.data, k.off)
  BY DEF SnapshotKnown
<1>1. AllKnown(H, q, k.replid, k.data, k.off)
  BY DEF SnapshotKnown
<1>2. k.replid \in Nat /\ k.data \in Seq(Writes)
  BY SnapshotFields
<1> QED
  BY <1>1, <1>2, KnownGrown DEF AllKnown

LEMMA OwnGrown ==
    ASSUME NEW H \in [Nat -> HistorySet], NEW G \in [Nat -> HistorySet], Grown(H, G),
           NEW r, NEW s \in ServerSet, OwnKnown(H, r, s)
    PROVE  OwnKnown(G, r, s)
<1>1. s.replid \in Nat /\ s.data \in Seq(Writes) /\ (s.replid2 # None => s.replid2 \in Nat)
  BY ServerFields
<1>2. s.cached_master # None => AllKnown(G, r, s.replid, s.data, s.off)
  BY <1>1, KnownGrown DEF OwnKnown, AllKnown
<1>3. s.backlog.on => AllKnown(G, None, s.replid, s.data, s.off)
  BY <1>1, KnownGrown DEF OwnKnown, AllKnown
<1>4. s.backlog.on /\ s.replid2 # None =>
          Known(G, None, s.replid2, s.data, Len(s.data) - (s.off + 1 - s.second_replid_offset),
                s.second_replid_offset - 1)
  BY <1>1, KnownGrown DEF OwnKnown
<1>5. s.cached_master # None /\ ~s.backlog.on /\ s.replid2 # None => G[s.replid].owner = r
  <2> SUFFICES ASSUME s.cached_master # None, ~s.backlog.on, s.replid2 # None
               PROVE  G[s.replid].owner = r
    OBVIOUS
  <2>1. H[s.replid].live /\ H[s.replid].owner = r
    BY DEF OwnKnown, AllKnown, Known
  <2> QED
    BY <1>1, <2>1 DEF Grown
<1> QED
  BY <1>2, <1>3, <1>4, <1>5 DEF OwnKnown

LEMMA FilesGrown ==
    ASSUME NEW H \in [Nat -> HistorySet], NEW G \in [Nat -> HistorySet], Grown(H, G),
           NEW r, NEW s \in ServerSet, FilesKnown(H, r, s)
    PROVE  FilesKnown(G, r, s)
  BY ServerFields, SnapshotGrown DEF FilesKnown

LEMMA LinkGrown ==
    ASSUME NEW H \in [Nat -> HistorySet], NEW G \in [Nat -> HistorySet], Grown(H, G),
           NEW s, ServerOK(s), NEW r, NEW l, LinkOK(r, s, l), LinkKnown(H, s, l)
    PROVE  LinkKnown(G, s, l)
<1>1. /\ StreamId(s, l) \in Nat /\ BaseData(s, l) \o l.stream \in Seq(Writes)
      /\ l.rdb # None => l.rdb \in Snapshots
  BY StreamTypes
<1>2. SnapshotKnown(G, None, l.rdb)
  BY <1>1, SnapshotGrown DEF LinkKnown
<1>3. StreamKnown(G, s, l)
  <2> SUFFICES ASSUME Flowing(s, l)
               PROVE  AllKnown(G, None, StreamId(s, l), BaseData(s, l) \o l.stream,
                              BaseOff(s, l) + Len(l.stream))
    BY DEF StreamKnown
  <2> DEFINE i == StreamId(s, l)
             d == BaseData(s, l) \o l.stream
             o == BaseOff(s, l) + Len(l.stream)
  <2>1. AllKnown(H, None, i, d, o)
    BY DEF LinkKnown, StreamKnown
  <2>2. i \in Nat /\ d \in Seq(Writes)
    BY <1>1
  <2> HIDE DEF i, d, o
  <2>3. AllKnown(G, None, i, d, o)
    BY <2>1, <2>2, KnownGrown DEF AllKnown
  <2> QED
    BY <2>3 DEF i, d, o
<1>4. l.reply # None /\ l.reply.type = "continue" => AllKnown(G, None, s.replid, s.data, s.off)
  <2>1. s.replid \in Nat /\ s.data \in Seq(Writes)
    BY ServerFields DEF ServerOK
  <2> QED
    BY <2>1, KnownGrown DEF LinkKnown, AllKnown
<1> QED
  BY <1>2, <1>3, <1>4 DEF LinkKnown

\* A server that has changed in nothing but its replicas.
LEMMA SameKnows ==
    ASSUME NEW s, NEW t, SameIds(t, s), SameFiles(t, s), SameRole(t, s), t.data = s.data,
           t.off = s.off, t.backlog = s.backlog,
           NEW H, NEW r, NEW l, NEW ids, ServerKnows(H, r, s, l, ids)
    PROVE  ServerKnows(H, r, t, l, ids) /\ StreamId(t, l) = StreamId(s, l)
<1>1. /\ t.replid = s.replid /\ t.replid2 = s.replid2
      /\ t.second_replid_offset = s.second_replid_offset
  BY DEF SameIds
<1>2. /\ t.masterhost = s.masterhost /\ t.repl_state = s.repl_state
      /\ t.master_initial = s.master_initial /\ t.cached_master = s.cached_master
  BY DEF SameRole
<1>3. OwnKnown(H, r, t)
  BY <1>1, <1>2 DEF ServerKnows, OwnKnown
<1>4. FilesKnown(H, r, t)
  BY DEF ServerKnows, FilesKnown, SameFiles
<1>5. Flowing(t, l) = Flowing(s, l) /\ StreamId(t, l) = StreamId(s, l)
  BY <1>1, <1>2 DEF Flowing, StreamId
<1>6. BaseData(t, l) = BaseData(s, l) /\ BaseOff(t, l) = BaseOff(s, l)
  BY DEF BaseData, BaseOff
<1>7. StreamKnown(H, t, l)
  BY <1>5, <1>6 DEF ServerKnows, LinkKnown, StreamKnown
<1>8. LinkKnown(H, t, l)
  BY <1>1, <1>7 DEF ServerKnows, LinkKnown
<1>9. MasterKnown(H, t)
  BY <1>1, <1>2 DEF ServerKnows, MasterKnown
<1> QED
  BY <1>1, <1>3, <1>4, <1>5, <1>8, <1>9 DEF ServerKnows

\* A link that is cut brings nothing.
LEMMA CutKnows ==
    ASSUME NEW H, NEW s, ServerOK(s), NEW r, NEW l, LinkOK(r, s, l), l.rdb # None,
           NEW k, k.reply = l.reply, k.rdb = None
    PROVE  LinkKnown(H, s, k)
<1>1. s.repl_state # "connected" /\ (l.reply # None => l.reply.type # "continue")
  BY DEF LinkOK
<1>2. ~Flowing(s, k)
  <2>1. l.reply \in Replies \cup {None}
    BY DEF LinkOK, LinkSet
  <2>2. l.reply # None => l.reply.type = "full"
    BY <1>1, <2>1 DEF Replies
  <2> QED
    BY <1>1, <2>2 DEF Flowing
<1> QED
  BY <1>1, <1>2 DEF LinkKnown, StreamKnown, SnapshotKnown
-----------------------------------------------------------------------------
(* Steps of one server. *)

\* Everybody but m knows what they knew.
LEMMA OthersKnow ==
    ASSUME IInv, NEW H, Remembered(H, Running, srv, link, used.ids),
           NEW m \in Running, NEW x, x = srv'[m], OnlyRoleOf(m),
           KeptSlaves(m, x) \/ DroppedSlaves(m, x),
           NEW G \in [Nat -> HistorySet], Grown(H, G),
           NEW n \in Running, n # m, srv[n].masterhost = None => G[srv[n].replid] = H[srv[n].replid],
           NEW ids \in Nat, used.ids <= ids
    PROVE  /\ ServerKnows(G, n, srv'[n], link'[n], ids)
           /\ StreamId(srv'[n], link'[n]) = StreamId(srv[n], link[n])
<1> DEFINE s == srv[n]
           t == srv'[n]
           l == link[n]
           k == link'[n]
<1>1. /\ H \in [Nat -> HistorySet] /\ ServerKnows(H, n, s, l, used.ids) /\ ServerOK(s)
      /\ LinkOK(n, s, l) /\ s \in ServerSet /\ used.ids \in Nat
  BY DEF Remembered, IInv, ServerOK, Counts
<1>2. /\ SameIds(t, s) /\ SameFiles(t, s) /\ SameRole(t, s) /\ t.data = s.data
      /\ t.off = s.off /\ t.backlog = s.backlog
  BY DEF OnlyRoleOf
<1>3. \/ k = l
      \/ l.rdb # None /\ k.reply = l.reply /\ k.rdb = None
  <2>1. srv[m].slaves[n] = "wait_end" => l.rdb # None
    BY DEF IInv, Follows
  <2> QED
    BY <2>1 DEF KeptSlaves, DroppedSlaves
<1>4. StreamId(s, k) = StreamId(s, l)
  BY <1>3 DEF StreamId
<1>5. OwnKnown(G, n, s) /\ FilesKnown(G, n, s) /\ LinkKnown(G, s, l)
  <2> HIDE DEF s, l
  <2> QED
    BY <1>1, OwnGrown, FilesGrown, LinkGrown DEF ServerKnows
<1>6. LinkKnown(G, s, k)
  <2> HIDE DEF s, l, k
  <2> QED
    BY <1>1, <1>3, <1>5, CutKnows
<1>7. MasterKnown(G, s)
  BY <1>1 DEF ServerKnows, MasterKnown
<1>8. s.replid <= ids
  <2>1. s.replid \in Nat /\ s.replid <= used.ids
    BY <1>1, ServerFields DEF ServerKnows
  <2> QED
    BY <1>1, <2>1
<1>9. ServerKnows(G, n, s, k, ids)
  BY <1>5, <1>6, <1>7, <1>8 DEF ServerKnows
<1> HIDE DEF s, t, k, l
<1>10. ServerKnows(G, n, t, k, ids) /\ StreamId(t, k) = StreamId(s, k)
  BY <1>2, <1>9, SameKnows
<1> QED
  BY <1>4, <1>10 DEF s, t, k, l

LEMMA RoleRemembers ==
    ASSUME IInv, NEW H, Remembered(H, Running, srv, link, used.ids),
           NEW m \in Running, NEW x, x = srv'[m], OnlyRoleOf(m),
           KeptSlaves(m, x) \/ DroppedSlaves(m, x),
           NEW G \in [Nat -> HistorySet], Grown(H, G),
           \A n \in Running \ {m} : srv[n].masterhost = None => G[srv[n].replid] = H[srv[n].replid],
           NEW ids \in Nat, used.ids <= ids, \A id \in Nat : G[id].live => id <= ids,
           ServerKnows(G, m, x, link'[m], ids),
           \A n \in Running \ {m} : srv[n].masterhost = None /\ x.masterhost = None =>
               srv[n].replid # x.replid,
           \A n \in Servers : x.slaves[n] # "none" => x.replid = srv[m].replid,
           \/ StreamId(x, link'[m]) = StreamId(srv[m], link[m])
           \/ \A n \in Running \ {m} : srv'[n].slaves[m] = "none"
    PROVE  Remembered(G, Running, srv', link', ids)
<1>1. ASSUME NEW n \in Running \ {m}
      PROVE  /\ ServerKnows(G, n, srv'[n], link'[n], ids)
             /\ StreamId(srv'[n], link'[n]) = StreamId(srv[n], link[n])
  BY OthersKnow
<1>2. ASSUME NEW n \in Running PROVE ServerKnows(G, n, srv'[n], link'[n], ids)
  BY <1>1
<1>3. ASSUME NEW n \in Running, NEW r \in Running
      PROVE  PairKnows(n, srv'[n], r, srv'[r], link'[r])
  <2>1. PairKnows(n, srv[n], r, srv[r], link[r]) /\ r \in Servers
    BY RunningServers DEF Remembered, IInv
  <2>2. CASE n = m /\ r = m
    <3>1. x.slaves[m] = "none"
      BY <2>1, <2>2, OneMaster DEF KeptSlaves, DroppedSlaves
    <3> QED
      BY <2>2, <3>1 DEF PairKnows
  <2>3. CASE n = m /\ r # m
    <3>1. srv'[r].masterhost = srv[r].masterhost /\ srv'[r].replid = srv[r].replid
      BY <2>3 DEF OnlyRoleOf, SameRole, SameIds
    <3>2. x.slaves[r] # "none" => x.slaves[r] = srv[m].slaves[r] /\ x.replid = srv[m].replid
      BY <2>1 DEF KeptSlaves, DroppedSlaves
    <3>3. StreamId(srv'[r], link'[r]) = StreamId(srv[r], link[r])
      BY <1>1, <2>3
    <3> QED
      BY <2>1, <2>3, <3>1, <3>2, <3>3 DEF PairKnows
  <2>4. CASE n # m /\ r = m
    <3>1. srv'[n].masterhost = srv[n].masterhost /\ srv'[n].replid = srv[n].replid
          /\ srv'[n].slaves[m] \in {"none", srv[n].slaves[m]}
      BY <2>4 DEF OnlyRoleOf, SameRole, SameIds
    <3> QED
      BY <2>1, <2>4, <3>1 DEF PairKnows
  <2>5. CASE n # m /\ r # m
    <3>1. /\ srv'[n].masterhost = srv[n].masterhost /\ srv'[n].replid = srv[n].replid
          /\ srv'[n].slaves[r] = srv[n].slaves[r]
          /\ srv'[r].masterhost = srv[r].masterhost /\ srv'[r].replid = srv[r].replid
      BY <2>1, <2>5 DEF OnlyRoleOf, SameRole, SameIds
    <3>2. StreamId(srv'[r], link'[r]) = StreamId(srv[r], link[r])
      BY <1>1, <2>5
    <3> QED
      BY <2>1, <3>1, <3>2 DEF PairKnows
  <2> QED
    BY <2>2, <2>3, <2>4, <2>5
<1> QED
  BY <1>2, <1>3 DEF Remembered

LEMMA RoleRemembersSame ==
    ASSUME IInv, NEW H, Remembered(H, Running, srv, link, used.ids),
           NEW m \in Running, NEW x, x = srv'[m], OnlyRoleOf(m),
           KeptSlaves(m, x) \/ DroppedSlaves(m, x),
           NEW ids \in Nat, used.ids <= ids, ServerKnows(H, m, x, link'[m], ids),
           \A n \in Running \ {m} : srv[n].masterhost = None /\ x.masterhost = None =>
               srv[n].replid # x.replid,
           \A n \in Servers : x.slaves[n] # "none" => x.replid = srv[m].replid,
           \/ StreamId(x, link'[m]) = StreamId(srv[m], link[m])
           \/ \A n \in Running \ {m} : srv'[n].slaves[m] = "none"
    PROVE  Remembered(H, Running, srv', link', ids)
<1>1. H \in [Nat -> HistorySet] /\ \A id \in Nat : H[id].live => id <= used.ids
  BY DEF Remembered
<1>2. Grown(H, H)
  BY <1>1, GrownSame
<1>3. \A id \in Nat : H[id].live => id <= ids
  BY <1>1 DEF IInv, Counts
<1> QED
  BY <1>1, <1>2, <1>3, RoleRemembers

LEMMA KnowsNow ==
    ASSUME IInv, NEW H, Remembered(H, Running, srv, link, used.ids), NEW m \in Running
    PROVE  /\ H \in [Nat -> HistorySet] /\ used.ids \in Nat
           /\ ServerOK(srv[m]) /\ srv[m] \in ServerSet /\ LinkOK(m, srv[m], link[m])
           /\ OwnKnown(H, m, srv[m]) /\ FilesKnown(H, m, srv[m])
           /\ LinkKnown(H, srv[m], link[m]) /\ MasterKnown(H, srv[m])
           /\ srv[m].replid <= used.ids /\ srv[m].replid \in Nat
<1>1. ServerOK(srv[m]) /\ LinkOK(m, srv[m], link[m]) /\ used.ids \in Nat
  BY DEF IInv, Counts
<1>2. ServerKnows(H, m, srv[m], link[m], used.ids) /\ H \in [Nat -> HistorySet]
  BY DEF Remembered
<1>3. srv[m] \in ServerSet
  BY <1>1 DEF ServerOK
<1> QED
  BY <1>1, <1>2, <1>3, ServerFields DEF ServerKnows

LEMMA OwnSame ==
    ASSUME NEW s, NEW t, SameIds(t, s), t.data = s.data, t.off = s.off,
           t.backlog.on = s.backlog.on, t.cached_master = s.cached_master,
           NEW H, NEW r, OwnKnown(H, r, s)
    PROVE  OwnKnown(H, r, t)
  BY DEF OwnKnown, SameIds

\* The link to the master is lost: the position is kept in cached_master.
LEMMA OwnUnlinked ==
    ASSUME NEW s, ServerOK(s), NEW t, SameIds(t, s), t.data = s.data, t.off = s.off,
           t.backlog = s.backlog,
           t.cached_master = IF s.master = None THEN s.cached_master ELSE s.master,
           NEW H, NEW r, OwnKnown(H, r, s)
    PROVE  OwnKnown(H, r, t)
<1>1. CASE s.master = None
  BY <1>1, OwnSame
<1>2. CASE s.master # None
  <2>1. s.backlog.on
    BY <1>2 DEF ServerOK
  <2>2. AllKnown(H, r, s.replid, s.data, s.off)
    BY <2>1, KnownTo DEF OwnKnown, AllKnown
  <2> QED
    BY <2>1, <2>2 DEF OwnKnown, SameIds
<1> QED
  BY <1>1, <1>2

\* A snapshot with an ID in it is of what its server knows.
LEMMA SnapshotOwn ==
    ASSUME NEW s, ServerOK(s), NEW H, NEW r, OwnKnown(H, r, s)
    PROVE  /\ SnapshotKnown(H, r, Snapshot(s))
           /\ s.backlog.on => SnapshotKnown(H, None, Snapshot(s))
<1>1. /\ Snapshot(s).data = s.data /\ Snapshot(s).off = s.off
      /\ Snapshot(s).replid = s.replid /\ Snapshot(s).info = HasSaveInfo(s)
  BY SnapshotType DEF ServerOK
<1>2. HasSaveInfo(s) => s.backlog.on \/ s.cached_master # None
  BY DEF HasSaveInfo, ServerOK
<1>3. s.backlog.on => AllKnown(H, r, s.replid, s.data, s.off)
  BY KnownTo DEF OwnKnown, AllKnown
<1>4. HasSaveInfo(s) => AllKnown(H, r, s.replid, s.data, s.off)
  BY <1>2, <1>3 DEF OwnKnown
<1>5. s.backlog.on => AllKnown(H, None, s.replid, s.data, s.off)
  BY DEF OwnKnown
<1> QED
  BY <1>1, <1>4, <1>5 DEF SnapshotKnown

LEMMA LinkSame ==
    ASSUME NEW s, NEW t, t.replid = s.replid, t.data = s.data, t.off = s.off,
           t.repl_state = s.repl_state, t.master_initial = s.master_initial,
           NEW H, NEW l, LinkKnown(H, s, l)
    PROVE  LinkKnown(H, t, l) /\ StreamId(t, l) = StreamId(s, l)
<1>1. Flowing(t, l) = Flowing(s, l) /\ StreamId(t, l) = StreamId(s, l)
  BY DEF Flowing, StreamId
<1>2. BaseData(t, l) = BaseData(s, l) /\ BaseOff(t, l) = BaseOff(s, l)
  BY DEF BaseData, BaseOff
<1>3. StreamKnown(H, t, l)
  BY <1>1, <1>2 DEF LinkKnown, StreamKnown
<1> QED
  BY <1>1, <1>3 DEF LinkKnown

\* Without a link nothing is on its way.
LEMMA NoLinkKnown ==
    ASSUME NEW H, NEW s, s.repl_state \in {"none", "connect"}
    PROVE  LinkKnown(H, s, NoLink)
<1> DEFINE k == NoLink
<1>1. k.reply = None /\ k.rdb = None
  BY NoLinkFacts
<1> HIDE DEF k
<1>2. ~Flowing(s, k)
  BY <1>1 DEF Flowing
<1>3. LinkKnown(H, s, k)
  BY <1>1, <1>2 DEF LinkKnown, StreamKnown, SnapshotKnown
<1> QED
  BY <1>3 DEF k

\* A new ID stands for nothing, and for nobody.
LEMMA NewIdUnknown ==
    ASSUME IInv, NEW H, Remembered(H, Running, srv, link, used.ids), NEW i, i = used.ids + 1
    PROVE  i \in Nat /\ ~H[i].live /\ \A n \in Running : srv[n].replid # i
<1>1. used.ids \in Nat /\ i \in Nat
  BY DEF IInv, Counts
<1>2. \A id \in Nat : H[id].live => id <= used.ids
  BY DEF Remembered
<1>3. ASSUME NEW n \in Running PROVE srv[n].replid <= used.ids /\ srv[n].replid \in Nat
  BY KnowsNow
<1>4. \A j \in Nat : j <= used.ids => j # i
  BY <1>1
<1>5. ~H[i].live
  BY <1>1, <1>2, <1>4
<1>6. \A n \in Running : srv[n].replid # i
  BY <1>3, <1>4
<1> QED
  BY <1>1, <1>5, <1>6

LEMMA SaveRemembers ==
    ASSUME IInv, NEW H, Remembered(H, Running, srv, link, used.ids), NEW m \in Running, Save(m)
    PROVE  Remembered(H, Running, srv', link', used'.ids)
<1> DEFINE s == srv[m]
           x == srv'[m]
           l == link[m]
<1>1. /\ used'.ids = used.ids /\ OnlyServer(m) /\ SameIds(x, s) /\ SameRole(x, s)
      /\ x.disk = s.disk /\ x.bgsave = Snapshot(s) /\ x.slaves = s.slaves
      /\ x.data = s.data /\ x.off = s.off /\ x.backlog = s.backlog
      /\ link' = link /\ KeptSlaves(m, x)
  BY SaveShape
<1>2. /\ used.ids \in Nat /\ ServerOK(s) /\ OwnKnown(H, m, s) /\ FilesKnown(H, m, s)
      /\ LinkKnown(H, s, l) /\ MasterKnown(H, s) /\ s.replid <= used.ids
  BY KnowsNow
<1>3. OnlyRoleOf(m)
  BY <1>1, OnlyServerRole
<1>4. \A n \in Running \ {m} : srv[n].masterhost = None /\ s.masterhost = None =>
          srv[n].replid # s.replid
  BY DEF Remembered, PairKnows
<1>5. x = srv'[m] /\ s = srv[m] /\ l = link[m]
  OBVIOUS
<1> HIDE DEF x, s, l
<1>6. x.replid = s.replid /\ x.masterhost = s.masterhost /\ x.cached_master = s.cached_master
      /\ x.repl_state = s.repl_state /\ x.master_initial = s.master_initial
  BY <1>1 DEF SameIds, SameRole
<1>7. OwnKnown(H, m, x)
  BY <1>1, <1>2, <1>6, OwnSame
<1>8. FilesKnown(H, m, x)
  <2>1. SnapshotKnown(H, m, Snapshot(s))
    BY <1>2, SnapshotOwn
  <2> QED
    BY <1>1, <1>2, <2>1 DEF FilesKnown
<1>9. LinkKnown(H, x, l) /\ StreamId(x, l) = StreamId(s, l)
  BY <1>1, <1>2, <1>6, LinkSame
<1>10. MasterKnown(H, x)
  BY <1>1, <1>2, <1>6 DEF MasterKnown
<1>11. link'[m] = l /\ used.ids <= used.ids
  BY <1>1, <1>2, <1>5
<1>12. ServerKnows(H, m, x, link'[m], used.ids)
  BY <1>2, <1>6, <1>7, <1>8, <1>9, <1>10, <1>11 DEF ServerKnows
<1>13. Remembered(H, Running, srv', link', used.ids)
  BY <1>1, <1>2, <1>3, <1>4, <1>5, <1>6, <1>9, <1>11, <1>12, RoleRemembersSame
<1> QED
  BY <1>1, <1>13

LEMMA FreeBacklogRemembers ==
    ASSUME IInv, NEW H, Remembered(H, Running, srv, link, used.ids), NEW m \in Running,
           FreeBacklog(m)
    PROVE  Remembered(H, Running, srv', link', used'.ids)
<1> DEFINE s == srv[m]
           x == srv'[m]
           l == link[m]
           i == used.ids + 1
<1>1. /\ s.masterhost = None /\ used'.ids = i /\ OnlyServer(m)
      /\ SameFiles(x, s) /\ SameRole(x, s)
      /\ x.slaves = s.slaves /\ ~x.backlog.on /\ x.replid = i
      /\ link' = link /\ KeptSlaves(m, x)
  BY FreeBacklogShape
<1>2. /\ used.ids \in Nat /\ ServerOK(s) /\ FilesKnown(H, m, s) /\ LinkOK(m, s, l)
  BY KnowsNow
<1>3. OnlyRoleOf(m)
  BY <1>1, OnlyServerRole
<1>4. i \in Nat /\ ~H[i].live /\ \A n \in Running : srv[n].replid # i
  BY NewIdUnknown
<1>5. Slaves(s) = {}
  BY DEF FreeBacklog
<1>6. used.ids <= i /\ i <= i
  BY <1>2
<1>7. x = srv'[m] /\ s = srv[m] /\ l = link[m] /\ link'[m] = l
  BY <1>1
<1> HIDE DEF x, s, l, i
<1>8. x.masterhost = None /\ x.cached_master = None /\ x.repl_state = "none" /\ l.peer = None
  BY <1>1, <1>2 DEF SameRole, ServerOK, LinkOK
<1>9. l.reply = None /\ l.rdb = None
  BY <1>2, <1>8 DEF LinkOK
<1>10. OwnKnown(H, m, x)
  BY <1>1, <1>8 DEF OwnKnown
<1>11. FilesKnown(H, m, x)
  BY <1>1, <1>2 DEF FilesKnown, SameFiles
<1>12. LinkKnown(H, x, l)
  BY <1>8, <1>9 DEF LinkKnown, SnapshotKnown, StreamKnown, Flowing
<1>13. MasterKnown(H, x)
  BY <1>1, <1>4 DEF MasterKnown
<1>14. ServerKnows(H, m, x, link'[m], i)
  BY <1>1, <1>6, <1>7, <1>10, <1>11, <1>12, <1>13 DEF ServerKnows
<1>15. \A n \in Servers : x.slaves[n] = "none"
  BY <1>1, <1>5 DEF Slaves
<1>16. \A n \in Running \ {m} : srv'[n].slaves[m] = "none"
  <2>1. \A n \in Running \ {m} : srv[n].slaves[m] = "none"
    BY <1>7, <1>8, OneMaster, RunningServers, ReplicationAssumption DEF IInv
  <2> QED
    BY <1>1, <2>1 DEF OnlyServer
<1>17. \A n \in Running \ {m} : srv[n].replid # x.replid
  BY <1>1, <1>4
<1>18. Remembered(H, Running, srv', link', i)
  BY <1>1, <1>3, <1>4, <1>6, <1>7, <1>14, <1>15, <1>16, <1>17, RoleRemembersSame
<1> QED
  BY <1>1, <1>18
-----------------------------------------------------------------------------
(* Steps that cut the link of r to its master. *)

LEMMA CutRemembers ==
    ASSUME IInv, NEW H, Remembered(H, Running, srv, link, used.ids),
           NEW r \in Running, NEW x, Cut(r, x), KeptSlaves(r, x) \/ DroppedSlaves(r, x),
           NEW G \in [Nat -> HistorySet], Grown(H, G),
           \A n \in Running \ {r} : srv[n].masterhost = None => G[srv[n].replid] = H[srv[n].replid],
           NEW ids \in Nat, used.ids <= ids, \A id \in Nat : G[id].live => id <= ids,
           OwnKnown(G, r, x), FilesKnown(G, r, x), MasterKnown(G, x), x.replid <= ids,
           \A n \in Running \ {r} : srv[n].masterhost = None /\ x.masterhost = None =>
               srv[n].replid # x.replid,
           \A n \in Servers : x.slaves[n] # "none" => x.replid = srv[r].replid
    PROVE  Remembered(G, Running, srv', link', ids)
<1>1. /\ x = srv'[r] /\ x.repl_state \in {"none", "connect"} /\ OnlyRoleOf(r)
      /\ \A n \in Running \ {r} : srv'[n].slaves[r] = "none"
      /\ link'[r] = NoLink
  BY DEF Cut
<1>2. LinkKnown(G, x, link'[r])
  BY <1>1, NoLinkKnown
<1>3. ServerKnows(G, r, x, link'[r], ids)
  BY <1>2 DEF ServerKnows
<1> QED
  BY <1>1, <1>3, RoleRemembers

LEMMA CutRemembersSame ==
    ASSUME IInv, NEW H, Remembered(H, Running, srv, link, used.ids),
           NEW r \in Running, NEW x, Cut(r, x), KeptSlaves(r, x) \/ DroppedSlaves(r, x),
           NEW ids \in Nat, used.ids <= ids,
           OwnKnown(H, r, x), FilesKnown(H, r, x), MasterKnown(H, x), x.replid <= ids,
           \A n \in Running \ {r} : srv[n].masterhost = None /\ x.masterhost = None =>
               srv[n].replid # x.replid,
           \A n \in Servers : x.slaves[n] # "none" => x.replid = srv[r].replid
    PROVE  Remembered(H, Running, srv', link', ids)
<1>1. /\ x = srv'[r] /\ x.repl_state \in {"none", "connect"} /\ OnlyRoleOf(r)
      /\ \A n \in Running \ {r} : srv'[n].slaves[r] = "none"
      /\ link'[r] = NoLink
  BY DEF Cut
<1>2. LinkKnown(H, x, link'[r])
  BY <1>1, NoLinkKnown
<1>3. ServerKnows(H, r, x, link'[r], ids)
  BY <1>2 DEF ServerKnows
<1> QED
  BY <1>1, <1>3, RoleRemembersSame

LEMMA OtherMasters ==
    ASSUME IInv, NEW H, Remembered(H, Running, srv, link, used.ids), NEW r \in Running
    PROVE  \A n \in Running \ {r} : srv[n].masterhost = None /\ srv[r].masterhost = None =>
               srv[n].replid # srv[r].replid
  BY DEF Remembered, PairKnows

LEMMA DisconnectRemembers ==
    ASSUME IInv, NEW H, Remembered(H, Running, srv, link, used.ids), NEW r \in Running,
           Disconnect(r), used'.ids = used.ids
    PROVE  Remembered(H, Running, srv', link', used'.ids)
<1> DEFINE s == srv[r]
           x == srv'[r]
<1>1. /\ Cut(r, x) /\ KeptSlaves(r, x) /\ SameIds(x, s) /\ SameFiles(x, s)
      /\ x.masterhost = s.masterhost /\ x.data = s.data /\ x.off = s.off
      /\ x.backlog = s.backlog
      /\ x.cached_master = IF s.master = None THEN s.cached_master ELSE s.master
  BY DisconnectShape
<1>2. /\ used.ids \in Nat /\ ServerOK(s) /\ OwnKnown(H, r, s) /\ FilesKnown(H, r, s)
      /\ MasterKnown(H, s) /\ s.replid <= used.ids
  BY KnowsNow
<1>3. \A n \in Running \ {r} : srv[n].masterhost = None /\ s.masterhost = None =>
          srv[n].replid # s.replid
  BY OtherMasters
<1>4. x = srv'[r] /\ s = srv[r] /\ used.ids <= used.ids
  BY <1>2
<1> HIDE DEF x, s
<1>5. x.replid = s.replid
  BY <1>1 DEF SameIds
<1>6. OwnKnown(H, r, x)
  BY <1>1, <1>2, OwnUnlinked
<1>7. FilesKnown(H, r, x)
  BY <1>1, <1>2 DEF FilesKnown, SameFiles
<1>8. MasterKnown(H, x)
  BY <1>1, <1>2, <1>5 DEF MasterKnown
<1>9. Remembered(H, Running, srv', link', used.ids)
  BY <1>1, <1>2, <1>3, <1>4, <1>5, <1>6, <1>7, <1>8, CutRemembersSame
<1> QED
  BY <1>9

LEMMA LoadFailsRemembers ==
    ASSUME IInv, NEW H, Remembered(H, Running, srv, link, used.ids), NEW r \in Running,
           LoadFails(r)
    PROVE  Remembered(H, Running, srv', link', used'.ids)
<1> DEFINE s == srv[r]
           x == srv'[r]
           snap == link[r].rdb
<1>1. /\ used'.ids = used.ids /\ snap \in Snapshots /\ snap # None /\ s.repl_state = "transfer"
      /\ Cut(r, x) /\ KeptSlaves(r, x) /\ SameIds(x, s) /\ x.disk = snap /\ x.bgsave = s.bgsave
      /\ x.masterhost = s.masterhost /\ ~x.backlog.on /\ x.cached_master = None
  BY LoadFailsShape
<1>2. /\ used.ids \in Nat /\ ServerOK(s) /\ FilesKnown(H, r, s) /\ s.replid <= used.ids
      /\ SnapshotKnown(H, None, snap)
  BY KnowsNow DEF LinkKnown
<1>3. x = srv'[r] /\ s = srv[r] /\ used.ids <= used.ids
  BY <1>2
<1> HIDE DEF x, s, snap
<1>4. x.replid = s.replid /\ s.masterhost # None
  BY <1>1, <1>2 DEF SameIds, ServerOK
<1>5. OwnKnown(H, r, x)
  BY <1>1 DEF OwnKnown
<1>6. FilesKnown(H, r, x)
  <2>1. SnapshotKnown(H, r, snap)
    BY <1>2, KnownTo DEF SnapshotKnown, AllKnown
  <2> QED
    BY <1>1, <1>2, <2>1 DEF FilesKnown
<1>7. MasterKnown(H, x) /\ x.masterhost # None
  BY <1>1, <1>4 DEF MasterKnown
<1>8. Remembered(H, Running, srv', link', used.ids)
  BY <1>1, <1>2, <1>3, <1>4, <1>5, <1>6, <1>7, CutRemembersSame
<1> QED
  BY <1>1, <1>8

LEMMA RestartRemembers ==
    ASSUME IInv, NEW H, Remembered(H, Running, srv, link, used.ids), NEW r \in Running,
           Restart(r)
    PROVE  Remembered(H, Running, srv', link', used'.ids)
<1> DEFINE s == srv[r]
           x == srv'[r]
           k == s.disk
           i == used.ids + 1
           on == s.masterhost # None /\ k.info
<1>1. /\ used'.ids = i /\ k \in Snapshots
      /\ Cut(r, x) /\ DroppedSlaves(r, x)
      /\ x.disk = k /\ x.bgsave = None /\ x.masterhost = s.masterhost
      /\ ~x.backlog.on /\ x.replid2 = None /\ x.data = k.data
      /\ on => x.cached_master # None /\ x.replid = k.replid /\ x.off = k.off
      /\ ~on => x.cached_master = None /\ x.replid = i
  BY RestartShape
<1>2. used.ids \in Nat /\ SnapshotKnown(H, r, k) /\ H \in [Nat -> HistorySet]
  BY KnowsNow DEF FilesKnown
<1>3. i \in Nat /\ ~H[i].live /\ \A n \in Running : srv[n].replid # i
  BY NewIdUnknown
<1>4. \A id \in Nat : H[id].live => id <= used.ids
  BY DEF Remembered
<1>5. x = srv'[r] /\ s = srv[r] /\ used.ids <= i /\ i <= i /\ \A j \in Nat : j <= used.ids => j <= i
  BY <1>2
<1>6. k # None /\ k.replid \in Nat
  BY <1>1, SnapshotFields
<1>7. on => AllKnown(H, r, k.replid, k.data, k.off)
  BY <1>2, <1>6 DEF SnapshotKnown
<1>8. x.masterhost = None => ~on
  BY <1>1
<1> HIDE DEF x, s, k, i, on
<1>9. on => k.replid <= i
  BY <1>4, <1>5, <1>6, <1>7 DEF AllKnown, Known
<1>10. OwnKnown(H, r, x)
  BY <1>1, <1>7 DEF OwnKnown
<1>11. FilesKnown(H, r, x)
  BY <1>1, <1>2 DEF FilesKnown, SnapshotKnown
<1>12. MasterKnown(H, x)
  BY <1>1, <1>3, <1>8 DEF MasterKnown
<1>13. x.replid <= i
  BY <1>1, <1>5, <1>9
<1>14. \A n \in Running \ {r} : srv[n].masterhost = None /\ x.masterhost = None =>
               srv[n].replid # x.replid
  BY <1>1, <1>3, <1>8
<1>15. \A n \in Servers : x.slaves[n] = "none"
  BY <1>1 DEF DroppedSlaves
<1>16. Remembered(H, Running, srv', link', i)
  BY <1>1, <1>3, <1>5, <1>10, <1>11, <1>12, <1>13, <1>14, <1>15, CutRemembersSame
<1> QED
  BY <1>1, <1>16

\* A history that begins with a data set.
Begun(H, id, d, o, q) ==
    [H EXCEPT ![id] = [live |-> TRUE, base |-> o - Len(d), seq |-> d, owner |-> q]]

LEMMA BegunFacts ==
    ASSUME NEW H \in [Nat -> HistorySet], NEW id \in Nat, ~H[id].live, NEW d \in Seq(Writes),
           NEW o \in Nat, NEW q \in Servers \cup {None}, NEW G, G = Begun(H, id, d, o, q)
    PROVE  /\ G \in [Nat -> HistorySet] /\ Grown(H, G) /\ AllKnown(G, q, id, d, o)
           /\ G[id].live /\ G[id].owner = q /\ G[id].seq = d
           /\ \A j \in Nat : j # id => G[j] = H[j]
<1> DEFINE b == o - Len(d)
           h == [live |-> TRUE, base |-> b, seq |-> d, owner |-> q]
<1>1. Len(d) \in Nat /\ b \in Int
  BY LenProperties
<1>2. G = [H EXCEPT ![id] = h]
  BY DEF Begun
<1>3. o = b + Len(d)
  BY <1>1
<1> HIDE DEF b
<1>4. h \in HistorySet /\ h.live /\ h.base = b /\ h.seq = d /\ h.owner = q
  BY <1>1 DEF HistorySet
<1> HIDE DEF h
<1>5. G \in [Nat -> HistorySet] /\ G[id] = h /\ \A j \in Nat : j # id => G[j] = H[j]
  BY <1>2, <1>4
<1>6. Grown(H, G)
  <2>1. \A j \in Nat : Len(H[j].seq) \in Nat
    BY HistoryType
  <2> QED
    BY <1>5, <2>1 DEF Grown
<1>7. AllKnown(G, q, id, d, o)
  <2>1. Len(d) \in 0..Len(d) /\ Len(d) <= Len(d)
    BY <1>1
  <2> QED
    BY <1>3, <1>4, <1>5, <2>1 DEF AllKnown, Known
<1> QED
  BY <1>4, <1>5, <1>6, <1>7

LEMMA SetMasterRemembers ==
    ASSUME IInv, NEW H, Remembered(H, Running, srv, link, used.ids), NEW r \in Running,
           NEW m \in Running, replicationSetMaster(r, m)
    PROVE  \E G \in [Nat -> HistorySet] : Remembered(G, Running, srv', link', used'.ids)
<1> DEFINE s == srv[r]
           x == srv'[r]
<1>1. /\ used'.ids = used.ids
      /\ Cut(r, x) /\ DroppedSlaves(r, x) /\ SameIds(x, s) /\ SameFiles(x, s)
      /\ x.masterhost = m /\ x.data = s.data /\ x.off = s.off
      /\ x.backlog = s.backlog
      /\ s.masterhost = None => x.cached_master # None
      /\ s.masterhost # None =>
            x.cached_master = IF s.master = None THEN s.cached_master ELSE s.master
  BY SetMasterShape
<1>2. /\ used.ids \in Nat /\ ServerOK(s) /\ OwnKnown(H, r, s) /\ FilesKnown(H, r, s)
      /\ MasterKnown(H, s) /\ s.replid <= used.ids /\ H \in [Nat -> HistorySet]
      /\ s.replid \in Nat /\ s \in ServerSet
  BY KnowsNow
<1>3. \A n \in Running \ {r} : srv[n].masterhost = None /\ s.masterhost = None =>
          srv[n].replid # s.replid
  BY OtherMasters
<1>4. x = srv'[r] /\ s = srv[r] /\ used.ids <= used.ids
  BY <1>2
<1>5. m # None /\ r \in Servers
  BY RunningServers, ReplicationAssumption DEF IInv
<1> HIDE DEF x, s
<1>6. x.replid = s.replid /\ x.replid2 = s.replid2
  BY <1>1 DEF SameIds
<1>7. FilesKnown(H, r, x)
  BY <1>1, <1>2 DEF FilesKnown, SameFiles
<1>8. \A G : MasterKnown(G, x)
  BY <1>1, <1>5 DEF MasterKnown
<1>9. \A n \in Servers : x.slaves[n] = "none"
  BY <1>1 DEF DroppedSlaves
<1>10. ASSUME OwnKnown(H, r, x)
       PROVE  Remembered(H, Running, srv', link', used.ids)
  BY <1>1, <1>2, <1>4, <1>5, <1>6, <1>7, <1>8, <1>9, <1>10, CutRemembersSame
<1>11. CASE s.masterhost # None
  <2>1. OwnKnown(H, r, x)
    BY <1>1, <1>2, <1>11, OwnUnlinked
  <2> QED
    BY <1>1, <1>2, <1>10, <2>1
<1>12. CASE s.masterhost = None /\ s.backlog.on
  <2>1. AllKnown(H, r, s.replid, s.data, s.off)
    BY <1>2, <1>12, KnownTo DEF OwnKnown, AllKnown
  <2>2. OwnKnown(H, r, x)
    BY <1>1, <1>2, <1>12, <2>1 DEF OwnKnown, SameIds
  <2> QED
    BY <1>1, <1>2, <1>10, <2>2
<1>13. CASE s.masterhost = None /\ ~s.backlog.on
  <2> DEFINE q == IF s.replid2 # None THEN r ELSE None
             i == s.replid
             d == s.data
             o == s.off
  <2>1. ~H[i].live
    BY <1>2, <1>13 DEF MasterKnown
  <2>2. q \in Servers \cup {None} /\ q \in {None, r} /\ (s.replid2 # None => q = r)
    BY <1>5
  <2>3. i \in Nat /\ d \in Seq(Writes) /\ o \in Nat
    BY <1>2, ServerFields
  <2> HIDE DEF q, i, d, o
  <2>4. PICK G : G = Begun(H, i, d, o, q)
    OBVIOUS
  <2>5. /\ G \in [Nat -> HistorySet] /\ Grown(H, G) /\ AllKnown(G, q, i, d, o)
        /\ G[i].owner = q /\ \A j \in Nat : j # i => G[j] = H[j]
    BY <1>2, <2>1, <2>2, <2>3, <2>4, BegunFacts
  <2>6. AllKnown(G, r, i, d, o)
    BY <2>2, <2>5 DEF AllKnown, Known
  <2>7. OwnKnown(G, r, x)
    BY <1>1, <1>6, <1>13, <2>2, <2>5, <2>6 DEF OwnKnown, i, d, o
  <2>8. FilesKnown(G, r, x)
    <3>1. FilesKnown(G, r, s)
      BY <1>2, <2>5, FilesGrown
    <3> QED
      BY <1>1, <3>1 DEF FilesKnown, SameFiles
  <2>9. \A n \in Running \ {r} : srv[n].masterhost = None => G[srv[n].replid] = H[srv[n].replid]
    <3>1. \A n \in Running : srv[n].replid \in Nat
      BY KnowsNow
    <3> QED
      BY <1>3, <1>13, <2>5, <3>1 DEF i
  <2>10. \A id \in Nat : G[id].live => id <= used.ids
    BY <1>2, <2>5 DEF Remembered, i
  <2>11. Remembered(G, Running, srv', link', used.ids)
    BY <1>1, <1>2, <1>4, <1>5, <1>6, <1>8, <1>9, <2>5, <2>7, <2>8, <2>9, <2>10, CutRemembers
  <2> QED
    BY <1>1, <2>5, <2>11
<1> QED
  BY <1>11, <1>12, <1>13

LEMMA UnsetMasterRemembers ==
    ASSUME IInv, NEW H, Remembered(H, Running, srv, link, used.ids), NEW r \in Running,
           replicationUnsetMaster(r)
    PROVE  \E G \in [Nat -> HistorySet] : Remembered(G, Running, srv', link', used'.ids)
<1> DEFINE s == srv[r]
           x == srv'[r]
           i == used.ids + 1
<1>1. /\ used'.ids = i /\ Cut(r, x) /\ DroppedSlaves(r, x) /\ SameFiles(x, s)
      /\ x.masterhost = None /\ x.cached_master = None
      /\ x.data = s.data /\ x.off = s.off /\ x.backlog = s.backlog
      /\ x.replid = i /\ x.replid2 = s.replid
      /\ x.second_replid_offset = s.off + 1
  BY UnsetMasterShape
<1>2. /\ used.ids \in Nat /\ OwnKnown(H, r, s) /\ FilesKnown(H, r, s)
      /\ H \in [Nat -> HistorySet] /\ s \in ServerSet
  BY KnowsNow
<1>3. i \in Nat /\ ~H[i].live /\ \A n \in Running : srv[n].replid # i
  BY NewIdUnknown
<1>4. x = srv'[r] /\ s = srv[r] /\ used.ids <= i /\ i <= i /\ \A j \in Nat : j <= used.ids => j <= i
  BY <1>2
<1>5. s.data \in Seq(Writes) /\ s.off \in Nat /\ Len(s.data) \in Nat /\ s.replid \in Nat
  BY <1>2, ServerFields
<1> HIDE DEF x, s, i
<1>6. FilesKnown(H, r, x)
  BY <1>1, <1>2 DEF FilesKnown, SameFiles
<1>7. \A n \in Servers : x.slaves[n] = "none"
  BY <1>1 DEF DroppedSlaves
<1>8. \A id \in Nat : H[id].live => id <= used.ids
  BY DEF Remembered
<1>9. \A n \in Running \ {r} : srv[n].replid # x.replid
  BY <1>1, <1>3
<1>10. CASE ~s.backlog.on
  <2>1. OwnKnown(H, r, x) /\ MasterKnown(H, x)
    BY <1>1, <1>3, <1>10 DEF OwnKnown, MasterKnown
  <2>2. x.replid <= i
    BY <1>1, <1>4
  <2>3. Remembered(H, Running, srv', link', i)
    BY <1>1, <1>3, <1>4, <1>6, <1>7, <1>9, <2>1, <2>2, CutRemembersSame
  <2> QED
    BY <1>1, <1>2, <2>3
<1>11. CASE s.backlog.on
  <2> DEFINE d == s.data
             o == s.off
             n2 == Len(x.data) - (x.off + 1 - x.second_replid_offset)
             o2 == x.second_replid_offset - 1
  <2>1. d \in Seq(Writes) /\ o \in Nat
    BY <1>5
  <2>2. n2 = Len(d) /\ o2 = o
    BY <1>1, <1>5
  <2>3. AllKnown(H, None, s.replid, d, o)
    BY <1>2, <1>11 DEF OwnKnown
  <2> HIDE DEF d, o, n2, o2
  <2>4. PICK G : G = Begun(H, i, d, o, None)
    OBVIOUS
  <2>5. /\ G \in [Nat -> HistorySet] /\ Grown(H, G) /\ AllKnown(G, None, i, d, o)
        /\ G[i].seq = d /\ \A j \in Nat : j # i => G[j] = H[j]
    BY <1>2, <1>3, <2>1, <2>4, BegunFacts
  <2>6. AllKnown(G, None, s.replid, d, o)
    BY <1>2, <1>5, <2>1, <2>3, <2>5, KnownGrown DEF AllKnown
  <2>7. OwnKnown(G, r, x)
    <3>1. AllKnown(G, None, x.replid, x.data, x.off)
      BY <1>1, <2>5 DEF d, o
    <3>2. Known(G, None, x.replid2, x.data, n2, o2)
      BY <1>1, <2>2, <2>6 DEF AllKnown, d
    <3> QED
      BY <1>1, <3>1, <3>2 DEF OwnKnown, n2, o2
  <2>8. FilesKnown(G, r, x)
    <3>1. FilesKnown(G, r, s)
      BY <1>2, <2>5, FilesGrown
    <3> QED
      BY <1>1, <3>1 DEF FilesKnown, SameFiles
  <2>9. MasterKnown(G, x)
    BY <1>1, <1>11, <2>5 DEF MasterKnown, d
  <2>10. \A n \in Running \ {r} : srv[n].masterhost = None => G[srv[n].replid] = H[srv[n].replid]
    <3>1. \A n \in Running : srv[n].replid \in Nat
      BY KnowsNow
    <3> QED
      BY <1>3, <2>5, <3>1
  <2>11. \A id \in Nat : G[id].live => id <= i
    BY <1>4, <1>8, <2>5
  <2>12. x.replid <= i
    BY <1>1, <1>4
  <2>13. Remembered(G, Running, srv', link', i)
    BY <1>1, <1>3, <1>4, <1>7, <1>9, <2>5, <2>7, <2>8, <2>9, <2>10, <2>11, <2>12, CutRemembers
  <2> QED
    BY <1>1, <2>5, <2>13
<1> QED
  BY <1>10, <1>11
-----------------------------------------------------------------------------
(* What a replica reads. *)

LEMMA ConcatFacts ==
    ASSUME NEW d \in Seq(Writes), NEW q \in Seq(Writes), NEW e, e = d \o q
    PROVE  /\ e \in Seq(Writes) /\ Len(d) \in Nat /\ Len(q) \in Nat /\ Len(e) = Len(d) + Len(q)
           /\ \A i \in 1..Len(d) : e[i] = d[i]
           /\ \A i \in 1..Len(q) : e[Len(d) + i] = q[i]
<1>1. /\ e \in Seq(Writes) /\ Len(e) = Len(d) + Len(q)
      /\ \A i \in 1 .. Len(d) + Len(q) : e[i] = IF i <= Len(d) THEN d[i] ELSE q[i - Len(d)]
  BY ConcatProperties
<1>2. Len(d) \in Nat /\ Len(q) \in Nat
  BY LenProperties
<1> DEFINE a == Len(d)
           b == Len(q)
<1>3. a \in Nat /\ b \in Nat
  BY <1>2
<1>4. \A i \in 1 .. a + b : e[i] = IF i <= a THEN d[i] ELSE q[i - a]
  BY <1>1
<1> HIDE DEF a, b
<1>5. ASSUME NEW i \in 1..a PROVE e[i] = d[i]
  <2>1. i \in 1..a + b /\ i <= a
    BY <1>3
  <2> QED
    BY <1>4, <2>1
<1>6. ASSUME NEW i \in 1..b PROVE e[a + i] = q[i]
  <2> DEFINE j == a + i
  <2>1. j \in 1..a + b /\ ~(j <= a) /\ j - a = i
    BY <1>3
  <2> HIDE DEF j
  <2>2. e[j] = q[j - a]
    BY <1>4, <2>1
  <2> QED
    BY <2>1, <2>2 DEF j
<1> QED
  BY <1>1, <1>2, <1>5, <1>6 DEF a, b

\* What the replica has, or the snapshot has, is a beginning of what flows.
LEMMA BaseKnown ==
    ASSUME NEW H \in [Nat -> HistorySet], NEW r, NEW s, ServerOK(s), NEW l, LinkOK(r, s, l),
           LinkKnown(H, s, l), Flowing(s, l)
    PROVE  AllKnown(H, None, StreamId(s, l), BaseData(s, l), BaseOff(s, l))
<1> DEFINE i == StreamId(s, l)
           d == BaseData(s, l)
           q == l.stream
           o == BaseOff(s, l)
           e == d \o q
<1>1. i \in Nat /\ d \in Seq(Writes) /\ o \in Nat /\ q \in Seq(Writes)
  BY StreamTypes
<1>2. AllKnown(H, None, i, e, o + Len(q))
  BY DEF LinkKnown, StreamKnown
<1>3. e = d \o q
  OBVIOUS
<1> HIDE DEF i, d, q, o, e
<1>4. /\ e \in Seq(Writes) /\ Len(d) \in Nat /\ Len(q) \in Nat /\ Len(e) = Len(d) + Len(q)
      /\ \A j \in 1..Len(d) : e[j] = d[j]
  BY <1>1, <1>3, ConcatFacts
<1> DEFINE n == Len(e)
           k == Len(d)
           u == o + Len(q)
<1>5. Known(H, None, i, e, n, u)
  BY <1>2 DEF AllKnown
<1>6. u \in Int /\ k \in 0..n /\ k <= Len(d) /\ o \in Int /\ o = u - (n - k)
  BY <1>1, <1>4
<1>7. \A j \in 1..k : d[j] = e[j]
  BY <1>4
<1> HIDE DEF n, k, u
<1>8. Known(H, None, i, d, k, o)
  BY <1>1, <1>4, <1>5, <1>6, <1>7, KnownPrefix
<1> QED
  BY <1>8 DEF AllKnown, i, d, o, k

LEMMA ReceiveFullRemembers ==
    ASSUME IInv, NEW H, Remembered(H, Running, srv, link, used.ids), NEW m \in Running,
           ReceiveFull(m), used' = used
    PROVE  Remembered(H, Running, srv', link', used'.ids)
<1> DEFINE s == srv[m]
           x == srv'[m]
           l == link[m]
           k == link'[m]
<1>1. /\ l.reply # None /\ l.reply.type = "full" /\ s.repl_state = "psync"
      /\ OnlyServer(m) /\ SameIds(x, s) /\ SameFiles(x, s)
      /\ x.masterhost = s.masterhost /\ x.repl_state = "transfer"
      /\ x.data = s.data /\ x.off = s.off /\ ~x.backlog.on
      /\ x.cached_master = None /\ x.master_initial.replid = l.reply.replid
      /\ DroppedSlaves(m, x)
      /\ k.reply = None /\ k.rdb = l.rdb /\ k.stream = l.stream
  BY ReceiveFullShape
<1>2. /\ used.ids \in Nat /\ ServerOK(s) /\ FilesKnown(H, m, s) /\ LinkKnown(H, s, l)
      /\ s.replid <= used.ids
  BY KnowsNow
<1>3. OnlyRoleOf(m)
  BY <1>1, OnlyServerRole
<1>4. x = srv'[m] /\ s = srv[m] /\ l = link[m] /\ k = link'[m] /\ used.ids <= used.ids
  BY <1>2
<1> HIDE DEF x, s, l, k
<1>5. x.replid = s.replid /\ x.masterhost # None
  BY <1>1, <1>2 DEF SameIds, ServerOK
<1>6. OwnKnown(H, m, x) /\ MasterKnown(H, x)
  BY <1>1, <1>5 DEF OwnKnown, MasterKnown
<1>7. FilesKnown(H, m, x)
  BY <1>1, <1>2 DEF FilesKnown, SameFiles
<1>8. StreamId(x, k) = StreamId(s, l)
  BY <1>1 DEF StreamId
<1>9. LinkKnown(H, x, k)
  <2>1. Flowing(x, k) => Flowing(s, l)
    BY <1>1 DEF Flowing
  <2>2. Flowing(x, k) => BaseData(x, k) = BaseData(s, l) /\ BaseOff(x, k) = BaseOff(s, l)
    BY <1>1 DEF BaseData, BaseOff
  <2>3. StreamKnown(H, x, k)
    BY <1>1, <1>2, <1>8, <2>1, <2>2 DEF LinkKnown, StreamKnown
  <2> QED
    BY <1>1, <1>2, <2>3 DEF LinkKnown
<1>10. ServerKnows(H, m, x, link'[m], used.ids)
  BY <1>2, <1>4, <1>5, <1>6, <1>7, <1>9 DEF ServerKnows
<1>11. \A n \in Servers : x.slaves[n] = "none"
  BY <1>1 DEF DroppedSlaves
<1>12. Remembered(H, Running, srv', link', used.ids)
  BY <1>1, <1>2, <1>3, <1>4, <1>5, <1>8, <1>10, <1>11, RoleRemembersSame
<1> QED
  BY <1>12

LEMMA ReceiveSnapshotRemembers ==
    ASSUME IInv, NEW H, Remembered(H, Running, srv, link, used.ids), NEW m \in Running,
           ReceiveSnapshot(m), used' = used
    PROVE  Remembered(H, Running, srv', link', used'.ids)
<1> DEFINE s == srv[m]
           x == srv'[m]
           l == link[m]
           k == link'[m]
<1>1. /\ s.repl_state = "transfer" /\ l.rdb # None /\ l.reply = None
      /\ OnlyServer(m) /\ ServerOK(x) /\ x.disk = l.rdb /\ x.bgsave = s.bgsave
      /\ x.masterhost = s.masterhost /\ x.repl_state = "connected"
      /\ x.data = l.rdb.data /\ x.off = l.rdb.off /\ x.backlog.on
      /\ x.replid = s.master_initial.replid /\ x.replid2 = None
      /\ DroppedSlaves(m, x)
      /\ k.reply = None /\ k.rdb = None /\ k.stream = l.stream
  BY ReceiveSnapshotShape
<1>2. /\ used.ids \in Nat /\ ServerOK(s) /\ FilesKnown(H, m, s) /\ LinkKnown(H, s, l)
      /\ LinkOK(m, s, l) /\ H \in [Nat -> HistorySet]
  BY KnowsNow
<1>3. OnlyRoleOf(m)
  BY <1>1, OnlyServerRole
<1>4. x = srv'[m] /\ s = srv[m] /\ l = link[m] /\ k = link'[m] /\ used.ids <= used.ids
  BY <1>2
<1> HIDE DEF x, s, l, k
<1>5. x.masterhost # None /\ x.cached_master = None
  BY <1>1, <1>2 DEF ServerOK
<1>6. /\ StreamId(s, l) = x.replid /\ StreamId(x, k) = x.replid
      /\ BaseData(s, l) = x.data /\ BaseOff(s, l) = x.off
      /\ BaseData(x, k) = x.data /\ BaseOff(x, k) = x.off /\ Flowing(s, l)
  BY <1>1 DEF StreamId, BaseData, BaseOff, Flowing
<1>7. AllKnown(H, None, x.replid, x.data, x.off)
  BY <1>2, <1>6, BaseKnown
<1>8. OwnKnown(H, m, x) /\ MasterKnown(H, x)
  BY <1>1, <1>5, <1>7 DEF OwnKnown, MasterKnown
<1>9. FilesKnown(H, m, x)
  <2>1. SnapshotKnown(H, m, l.rdb)
    BY <1>2, KnownTo DEF LinkKnown, SnapshotKnown, AllKnown
  <2> QED
    BY <1>1, <1>2, <2>1 DEF FilesKnown
<1>10. LinkKnown(H, x, k)
  <2>1. StreamKnown(H, x, k)
    BY <1>1, <1>2, <1>6 DEF LinkKnown, StreamKnown
  <2> QED
    BY <1>1, <2>1 DEF LinkKnown, SnapshotKnown
<1>11. x.replid <= used.ids
  <2>1. x.replid \in Nat
    BY <1>1, ServerFields DEF ServerOK
  <2> QED
    BY <1>7, <2>1 DEF AllKnown, Known, Remembered
<1>12. ServerKnows(H, m, x, link'[m], used.ids)
  BY <1>4, <1>8, <1>9, <1>10, <1>11 DEF ServerKnows
<1>13. \A n \in Servers : x.slaves[n] = "none"
  BY <1>1 DEF DroppedSlaves
<1>14. Remembered(H, Running, srv', link', used.ids)
  BY <1>1, <1>2, <1>3, <1>4, <1>5, <1>6, <1>12, <1>13, RoleRemembersSame
<1> QED
  BY <1>14

LEMMA ReceiveContinueRemembers ==
    ASSUME IInv, NEW H, Remembered(H, Running, srv, link, used.ids), NEW m \in Running,
           ReceiveContinue(m), used' = used
    PROVE  Remembered(H, Running, srv', link', used'.ids)
<1> DEFINE s == srv[m]
           x == srv'[m]
           l == link[m]
           k == link'[m]
<1>1. /\ l.reply \in Replies /\ l.reply.type = "continue"
      /\ s.repl_state = "psync" /\ s.cached_master # None
      /\ OnlyServer(m) /\ ServerOK(x) /\ SameFiles(x, s)
      /\ x.masterhost = s.masterhost
      /\ x.repl_state = "connected" /\ x.data = s.data /\ x.off = s.off
      /\ x.replid = l.reply.replid /\ x.backlog.on
      /\ k.reply = None /\ k.rdb = None /\ l.rdb = None
      /\ k.stream = l.stream
  BY ReceiveContinueShape
<1>2. /\ l.reply.replid = s.replid =>
            /\ x.replid2 = s.replid2 /\ x.second_replid_offset = s.second_replid_offset
            /\ KeptSlaves(m, x)
      /\ l.reply.replid # s.replid =>
            /\ x.replid2 = s.replid /\ x.second_replid_offset = s.off + 1
            /\ DroppedSlaves(m, x)
  BY ReceiveContinueShape
<1>3. /\ used.ids \in Nat /\ ServerOK(s) /\ OwnKnown(H, m, s) /\ FilesKnown(H, m, s)
      /\ LinkKnown(H, s, l) /\ LinkOK(m, s, l) /\ H \in [Nat -> HistorySet]
      /\ s.replid \in Nat /\ s \in ServerSet
  BY KnowsNow
<1>4. OnlyRoleOf(m)
  BY <1>1, OnlyServerRole
<1>5. /\ x = srv'[m] /\ s = srv[m] /\ l = link[m] /\ k = link'[m] /\ used.ids <= used.ids
      /\ m \in Servers /\ None \notin Servers
  BY <1>3, RunningServers, ReplicationAssumption DEF IInv
<1> HIDE DEF x, s, l, k
<1>6. l.reply # None
  BY <1>1, ReplicationAssumption
<1>7. x.masterhost # None /\ x.cached_master = None
  BY <1>1, <1>3 DEF ServerOK
<1>8. /\ StreamId(s, l) = x.replid /\ StreamId(x, k) = x.replid
      /\ BaseData(s, l) = x.data /\ BaseOff(s, l) = x.off
      /\ BaseData(x, k) = x.data /\ BaseOff(x, k) = x.off /\ Flowing(s, l)
  BY <1>1, <1>6 DEF StreamId, BaseData, BaseOff, Flowing
<1>9. AllKnown(H, None, x.replid, x.data, x.off)
  BY <1>3, <1>8, BaseKnown
<1>10. AllKnown(H, None, s.replid, s.data, s.off)
  BY <1>1, <1>3, <1>6 DEF LinkKnown
<1>11. ~s.backlog.on => s.replid2 = None
  <2>1. H[s.replid].owner = None
    BY <1>10 DEF AllKnown, Known
  <2> QED
    BY <1>1, <1>3, <1>5, <2>1 DEF OwnKnown
<1>12. x.replid2 # None =>
          Known(H, None, x.replid2, x.data, Len(x.data) - (x.off + 1 - x.second_replid_offset),
                x.second_replid_offset - 1)
  <2>1. CASE l.reply.replid = s.replid
    BY <1>1, <1>2, <1>3, <1>11, <2>1 DEF OwnKnown
  <2>2. CASE l.reply.replid # s.replid
    <3> DEFINE n2 == Len(x.data) - (x.off + 1 - x.second_replid_offset)
               o2 == x.second_replid_offset - 1
    <3>1. s.off \in Nat /\ Len(s.data) \in Nat
      BY <1>3, ServerFields
    <3>2. n2 = Len(s.data) /\ o2 = s.off /\ x.replid2 = s.replid
      BY <1>1, <1>2, <2>2, <3>1
    <3> HIDE DEF n2, o2
    <3>3. Known(H, None, x.replid2, x.data, n2, o2)
      BY <1>1, <1>10, <3>2 DEF AllKnown
    <3> QED
      BY <3>3 DEF n2, o2
  <2> QED
    BY <2>1, <2>2
<1>13. OwnKnown(H, m, x) /\ MasterKnown(H, x)
  BY <1>1, <1>7, <1>9, <1>12 DEF OwnKnown, MasterKnown
<1>14. FilesKnown(H, m, x)
  BY <1>1, <1>3 DEF FilesKnown, SameFiles
<1>15. LinkKnown(H, x, k)
  <2>1. StreamKnown(H, x, k)
    BY <1>1, <1>3, <1>8 DEF LinkKnown, StreamKnown
  <2> QED
    BY <1>1, <2>1 DEF LinkKnown, SnapshotKnown
<1>16. x.replid <= used.ids
  <2>1. x.replid \in Nat
    BY <1>1, ServerFields DEF ServerOK
  <2> QED
    BY <1>9, <2>1 DEF AllKnown, Known, Remembered
<1>17. ServerKnows(H, m, x, link'[m], used.ids)
  BY <1>5, <1>13, <1>14, <1>15, <1>16 DEF ServerKnows
<1>18. /\ KeptSlaves(m, x) \/ DroppedSlaves(m, x)
       /\ \A n \in Servers : x.slaves[n] # "none" => x.replid = s.replid
  BY <1>1, <1>2 DEF DroppedSlaves
<1>19. Remembered(H, Running, srv', link', used.ids)
  BY <1>3, <1>4, <1>5, <1>7, <1>8, <1>17, <1>18, RoleRemembersSame
<1> QED
  BY <1>19
-----------------------------------------------------------------------------
(* Writes. *)

LEMMA AppendFacts ==
    ASSUME NEW d \in Seq(Writes), NEW w \in Writes, NEW e, e = Append(d, w)
    PROVE  /\ e \in Seq(Writes) /\ Len(d) \in Nat /\ Len(e) = Len(d) + 1
           /\ \A i \in 1..Len(d) : e[i] = d[i]
           /\ e[Len(d) + 1] = w
  BY AppendProperties, LenProperties

LEMMA ConcatAppend ==
    ASSUME NEW d \in Seq(Writes), NEW q \in Seq(Writes), NEW w \in Writes
    PROVE  d \o Append(q, w) = Append(d \o q, w)
<1> DEFINE p == Append(q, w)
           e == d \o q
           f == d \o p
           g == Append(e, w)
<1>1. /\ p \in Seq(Writes) /\ Len(p) = Len(q) + 1 /\ Len(q) \in Nat
      /\ (\A i \in 1..Len(q) : p[i] = q[i]) /\ p[Len(q) + 1] = w
  <2>1. p = Append(q, w)
    OBVIOUS
  <2> HIDE DEF p
  <2> QED
    BY <2>1, AppendFacts
<1>2. /\ e \in Seq(Writes) /\ Len(d) \in Nat /\ Len(e) = Len(d) + Len(q)
      /\ \A i \in 1..Len(d) : e[i] = d[i]
      /\ \A i \in 1..Len(q) : e[Len(d) + i] = q[i]
  <2>1. e = d \o q
    OBVIOUS
  <2> HIDE DEF e
  <2> QED
    BY <2>1, ConcatFacts
<1> HIDE DEF p, e
<1>3. /\ f \in Seq(Writes) /\ Len(f) = Len(d) + Len(p)
      /\ \A i \in 1..Len(d) : f[i] = d[i]
      /\ \A i \in 1..Len(p) : f[Len(d) + i] = p[i]
  <2>1. f = d \o p /\ p \in Seq(Writes)
    BY <1>1
  <2> HIDE DEF f
  <2> QED
    BY <2>1, ConcatFacts
<1>4. /\ g \in Seq(Writes) /\ Len(g) = Len(e) + 1
      /\ (\A i \in 1..Len(e) : g[i] = e[i]) /\ g[Len(e) + 1] = w
  <2>1. g = Append(e, w)
    OBVIOUS
  <2> HIDE DEF g
  <2> QED
    BY <1>2, <2>1, AppendFacts
<1> HIDE DEF f, g
<1> DEFINE a == Len(d)
           b == Len(q)
<1>5. a \in Nat /\ b \in Nat /\ Len(f) = a + b + 1 /\ Len(g) = a + b + 1
  BY <1>1, <1>2, <1>3, <1>4
<1>6. ASSUME NEW i \in 1..a + b + 1 PROVE f[i] = g[i]
  <2>1. CASE i <= a
    <3>1. i \in 1..a /\ i \in 1..Len(e)
      BY <1>1, <1>2, <2>1
    <3> QED
      BY <1>2, <1>3, <1>4, <3>1
  <2>2. CASE i > a /\ i <= a + b
    <3> DEFINE j == i - a
    <3>1. i = a + j /\ j \in 1..b /\ j \in 1..Len(p) /\ i \in 1..Len(e)
      BY <1>1, <1>2, <2>2
    <3> HIDE DEF j
    <3>2. f[i] = p[j] /\ p[j] = q[j] /\ e[i] = q[j] /\ g[i] = e[i]
      BY <1>1, <1>2, <1>3, <1>4, <3>1
    <3> QED
      BY <3>2
  <2>3. CASE i = a + b + 1
    <3> DEFINE j == b + 1
    <3>1. i = a + j /\ j \in 1..Len(p) /\ i = Len(e) + 1
      BY <1>1, <1>2, <2>3
    <3>2. p[j] = w
      BY <1>1
    <3> HIDE DEF j
    <3>3. f[i] = p[j] /\ g[i] = w
      BY <1>3, <1>4, <3>1
    <3> QED
      BY <3>2, <3>3
  <2> QED
    BY <1>5, <2>1, <2>2, <2>3
<1>7. f = g
  BY <1>3, <1>4, <1>5, <1>6, SeqEqual
<1> QED
  BY <1>7 DEF f, g, p, e

\* A replica gets the write that its master has made.
LEMMA StreamFed ==
    ASSUME NEW G \in [Nat -> HistorySet], NEW r, NEW s, ServerOK(s), NEW l, LinkOK(r, s, l),
           LinkKnown(G, s, l), Flowing(s, l), NEW d \in Seq(Writes), NEW w \in Writes,
           NEW o \in Nat, BaseOff(s, l) + Len(l.stream) = o,
           AllKnown(G, None, StreamId(s, l), Append(d, w), o + 1),
           NEW k, k.reply = l.reply, k.rdb = l.rdb, k.stream = Append(l.stream, w)
    PROVE  LinkKnown(G, s, k) /\ StreamId(s, k) = StreamId(s, l)
<1> DEFINE i == StreamId(s, l)
           b == BaseData(s, l)
           q == l.stream
           u == BaseOff(s, l)
           e == b \o q
           f == Append(d, w)
<1>1. i \in Nat /\ b \in Seq(Writes) /\ u \in Nat /\ q \in Seq(Writes) /\ Len(q) \in Nat
      /\ e \in Seq(Writes)
  BY StreamTypes
<1>2. AllKnown(G, None, i, e, u + Len(q)) /\ u + Len(q) = o
  BY DEF LinkKnown, StreamKnown
<1>3. StreamId(s, k) = i /\ BaseData(s, k) = b /\ BaseOff(s, k) = u
      /\ k.stream = Append(q, w)
  BY DEF StreamId, BaseData, BaseOff
<1>4. AllKnown(G, None, i, f, o + 1)
  OBVIOUS
<1>5. /\ f \in Seq(Writes) /\ Len(d) \in Nat /\ Len(f) = Len(d) + 1
      /\ \A j \in 1..Len(d) : f[j] = d[j]
  <2>1. f = Append(d, w)
    OBVIOUS
  <2> HIDE DEF f
  <2> QED
    BY <2>1, AppendFacts
<1>6. /\ Len(k.stream) = Len(q) + 1 /\ b \o k.stream = Append(e, w)
  <2>1. Len(Append(q, w)) = Len(q) + 1
    BY <1>1, AppendFacts
  <2> HIDE DEF b, q
  <2>2. b \o Append(q, w) = Append(b \o q, w)
    BY <1>1, ConcatAppend
  <2> QED
    BY <1>3, <2>1, <2>2
<1>7. l.reply # None /\ l.reply.type = "continue" => AllKnown(G, None, s.replid, s.data, s.off)
  BY DEF LinkKnown
<1>8. SnapshotKnown(G, None, k.rdb)
  BY DEF LinkKnown
<1>9. Append(d, w) = f
  OBVIOUS
<1> HIDE DEF i, b, q, u, e, f
<1>10. e = d
  <2> DEFINE n == Len(e)
             c == Len(f)
             o1 == o + 1
  <2>1. Known(G, None, i, e, n, o) /\ Known(G, None, i, f, c, o1)
    BY <1>2, <1>4 DEF AllKnown
  <2> HIDE DEF n, c, o1
  <2>2. n \in Nat /\ c \in Nat /\ n - c = o - o1 /\ \A j \in 1..n : j \in 1..c => e[j] = f[j]
    <3>1. i \in Nat /\ e \in Seq(Writes) /\ f \in Seq(Writes)
      BY <1>1, <1>5
    <3> QED
      BY <2>1, <3>1, KnownLength
  <2>3. n + 1 = c /\ c = Len(d) + 1 /\ Len(d) \in Nat
    BY <1>5, <2>2 DEF o1, c
  <2>4. n = Len(d)
    BY <2>2, <2>3
  <2>5. \A j \in 1..n : j \in 1..c
    BY <2>2, <2>3
  <2>6. \A j \in 1..n : e[j] = d[j]
    BY <1>5, <2>2, <2>4, <2>5
  <2> QED
    BY <1>1, <2>4, <2>6, SeqEqual DEF n
<1>11. b \o k.stream = f
  BY <1>6, <1>9, <1>10
<1>12. u + Len(k.stream) = o + 1
  BY <1>1, <1>2, <1>6
<1>13. StreamKnown(G, s, k)
  BY <1>3, <1>4, <1>11, <1>12 DEF StreamKnown
<1> QED
  BY <1>3, <1>7, <1>8, <1>13 DEF LinkKnown, i

\* A write in the data set of m and on its way to m's replicas.
LEMMA FeedRemembers ==
    ASSUME IInv, NEW H, Remembered(H, Running, srv, link, used.ids),
           NEW m \in Running, NEW w \in Writes, NEW s, s = srv[m], NEW x, x = srv'[m],
           OnlyServer(m), FedLinks(m, w), x.slaves = s.slaves, x.replid = s.replid,
           x.masterhost = s.masterhost,
           NEW G \in [Nat -> HistorySet], Grown(H, G), \A id \in Nat : G[id].live => id <= used.ids,
           \A n \in Running \ {m} : srv[n].masterhost = None => G[srv[n].replid] = H[srv[n].replid],
           s.backlog.on => AllKnown(G, None, s.replid, Append(s.data, w), s.off + 1),
           ServerKnows(G, m, x, link'[m], used.ids), StreamId(x, link'[m]) = StreamId(s, link[m])
    PROVE  Remembered(G, Running, srv', link', used.ids)
<1>1. ServerOK(s) /\ s.data \in Seq(Writes) /\ s.off \in Nat
  BY KnowsNow, ServerFields
<1>2. ASSUME NEW n \in Running \ {m}
      PROVE  /\ srv'[n] = srv[n] /\ ServerKnows(G, n, srv[n], link'[n], used.ids)
             /\ StreamId(srv[n], link'[n]) = StreamId(srv[n], link[n])
  <2> DEFINE t == srv[n]
             l == link[n]
             k == link'[n]
  <2>1. /\ H \in [Nat -> HistorySet] /\ ServerOK(t) /\ t \in ServerSet /\ LinkOK(n, t, l)
        /\ OwnKnown(H, n, t) /\ FilesKnown(H, n, t) /\ LinkKnown(H, t, l) /\ MasterKnown(H, t)
        /\ t.replid <= used.ids
    BY KnowsNow
  <2>2. /\ k.reply = l.reply /\ k.rdb = l.rdb
        /\ s.slaves[n] \in {"wait_end", "online"} => k.stream = Append(l.stream, w)
        /\ s.slaves[n] \notin {"wait_end", "online"} => k = l
    BY DEF FedLinks
  <2>3. s.slaves[n] \in {"wait_end", "online"} =>
            /\ Flowing(t, l) /\ BaseOff(t, l) + Len(l.stream) = s.off
            /\ StreamId(t, l) = s.replid
    BY DEF IInv, Follows, Remembered, PairKnows
  <2>4. t.masterhost = None => G[t.replid] = H[t.replid]
    OBVIOUS
  <2>5. s.slaves[n] \in {"wait_end", "online"} => s.backlog.on
    BY <1>1, RunningServers DEF ServerOK, Slaves, IInv
  <2>6. srv'[n] = t
    BY DEF OnlyServer
  <2> HIDE DEF t, l, k
  <2>7. OwnKnown(G, n, t) /\ FilesKnown(G, n, t) /\ LinkKnown(G, t, l)
    BY <2>1, OwnGrown, FilesGrown, LinkGrown
  <2>8. MasterKnown(G, t)
    BY <2>1, <2>4 DEF MasterKnown
  <2>9. LinkKnown(G, t, k) /\ StreamId(t, k) = StreamId(t, l)
    <3>1. CASE s.slaves[n] \in {"wait_end", "online"}
      <4>1. AllKnown(G, None, StreamId(t, l), Append(s.data, w), s.off + 1)
        BY <2>3, <2>5, <3>1
      <4>2. /\ Flowing(t, l) /\ BaseOff(t, l) + Len(l.stream) = s.off
            /\ k.stream = Append(l.stream, w) /\ k.reply = l.reply /\ k.rdb = l.rdb
        BY <2>2, <2>3, <3>1
      <4> DEFINE d == s.data
                 o == s.off
      <4>3. /\ d \in Seq(Writes) /\ o \in Nat /\ BaseOff(t, l) + Len(l.stream) = o
            /\ AllKnown(G, None, StreamId(t, l), Append(d, w), o + 1)
        BY <1>1, <4>1, <4>2
      <4>4. ServerOK(t) /\ LinkOK(n, t, l) /\ LinkKnown(G, t, l) /\ Flowing(t, l)
        BY <2>1, <2>7, <4>2
      <4>5. k.stream = Append(l.stream, w) /\ k.reply = l.reply /\ k.rdb = l.rdb
        BY <4>2
      <4> HIDE DEF d, o
      <4> QED
        BY <4>3, <4>4, <4>5, StreamFed, SMTT(30)
    <3>2. CASE s.slaves[n] \notin {"wait_end", "online"}
      BY <2>2, <2>7, <3>2
    <3> QED
      BY <3>1, <3>2
  <2>10. ServerKnows(G, n, t, k, used.ids)
    BY <2>1, <2>7, <2>8, <2>9 DEF ServerKnows
  <2> QED
    BY <2>6, <2>9, <2>10 DEF t, l, k
<1>3. \A n \in Running : ServerKnows(G, n, srv'[n], link'[n], used.ids)
  BY <1>2
<1>4. ASSUME NEW n \in Running, NEW r \in Running
      PROVE  PairKnows(n, srv'[n], r, srv'[r], link'[r])
  <2>1. PairKnows(n, srv[n], r, srv[r], link[r])
    BY DEF Remembered
  <2>2. ASSUME NEW q \in Running
        PROVE  /\ srv'[q].masterhost = srv[q].masterhost /\ srv'[q].replid = srv[q].replid
               /\ srv'[q].slaves = srv[q].slaves
    BY DEF OnlyServer
  <2>3. StreamId(srv'[r], link'[r]) = StreamId(srv[r], link[r])
    BY <1>2
  <2> QED
    BY <2>1, <2>2, <2>3 DEF PairKnows
<1> QED
  BY <1>3, <1>4 DEF Remembered

\* The second ID of a server that has one write more.
LEMMA SecondIdFed ==
    ASSUME NEW s \in ServerSet, NEW w \in Writes, NEW x, SameIds(x, s), NEW G,
           G \in [Nat -> HistorySet], x.data = Append(s.data, w), x.off = s.off + 1,
           x.replid2 # None,
           Known(G, None, s.replid2, s.data, Len(s.data) - (s.off + 1 - s.second_replid_offset),
                 s.second_replid_offset - 1)
    PROVE  Known(G, None, x.replid2, x.data, Len(x.data) - (x.off + 1 - x.second_replid_offset),
                 x.second_replid_offset - 1)
<1> DEFINE d == s.data
           e == x.data
           i == s.replid2
           n == Len(d) - (s.off + 1 - s.second_replid_offset)
           k == Len(e) - (x.off + 1 - x.second_replid_offset)
           o == s.second_replid_offset - 1
<1>1. /\ d \in Seq(Writes) /\ Len(d) \in Nat /\ s.off \in Nat /\ s.second_replid_offset \in Int
      /\ i \in Nat /\ x.replid2 = i /\ x.second_replid_offset = s.second_replid_offset
  BY ServerFields DEF SameIds
<1>2. /\ e \in Seq(Writes) /\ Len(e) = Len(d) + 1 /\ \A j \in 1..Len(d) : e[j] = d[j]
  BY <1>1, AppendFacts
<1>3. k = n /\ o \in Int /\ x.second_replid_offset - 1 = o /\ n \in Int
  <2> DEFINE a == Len(d)
             b == Len(e)
             u == s.off
             v == x.off
             y == s.second_replid_offset
             z == x.second_replid_offset
  <2>1. /\ a \in Nat /\ b = a + 1 /\ u \in Nat /\ v = u + 1 /\ y \in Int /\ z = y
        /\ n = a - (u + 1 - y) /\ k = b - (v + 1 - z) /\ o = y - 1
    BY <1>1, <1>2
  <2> HIDE DEF a, b, u, v, y, z, n, k, o
  <2>2. k = n /\ o \in Int /\ z - 1 = o /\ n \in Int
    BY <2>1
  <2> QED
    BY <2>2 DEF z
<1>4. Known(G, None, i, d, n, o)
  OBVIOUS
<1>5. k = Len(e) - (x.off + 1 - x.second_replid_offset)
  OBVIOUS
<1> HIDE DEF d, e, i, n, k, o
<1>6. n \in 0..Len(d)
  BY <1>4 DEF Known
<1>7. n \in 0..n /\ n <= Len(e) /\ o = o - (n - n) /\ \A j \in 1..n : j \in 1..Len(d)
  BY <1>1, <1>2, <1>3, <1>6
<1>8. \A j \in 1..n : e[j] = d[j]
  BY <1>2, <1>7
<1>9. Known(G, None, i, e, n, o)
  BY <1>1, <1>2, <1>3, <1>4, <1>7, <1>8, KnownPrefix
<1> QED
  BY <1>1, <1>3, <1>5, <1>9 DEF e

\* The history that a master writes gets longer.
Longer(H, id, e) == [H EXCEPT ![id] = [H[id] EXCEPT !.seq = e]]
GoesOn(H, G, id, e, o) ==
    /\ G \in [Nat -> HistorySet] /\ Grown(H, G) /\ AllKnown(G, None, id, e, o)
    /\ G[id].live /\ H[id].live /\ G[id].seq = e
    /\ \A j \in Nat : j # id => G[j] = H[j]

LEMMA LongerFacts ==
    ASSUME NEW H \in [Nat -> HistorySet], NEW id \in Nat, NEW d \in Seq(Writes), H[id].seq = d,
           NEW o \in Nat, AllKnown(H, None, id, d, o), NEW e \in Seq(Writes),
           Len(e) = Len(d) + 1, \A i \in 1..Len(d) : e[i] = d[i], NEW G, G = Longer(H, id, e)
    PROVE  GoesOn(H, G, id, e, o + 1)
<1>1. /\ e \in Seq(Writes) /\ Len(d) \in Nat /\ Len(e) = Len(d) + 1
      /\ \A i \in 1..Len(d) : e[i] = d[i]
  BY LenProperties
<1> DEFINE h == [H[id] EXCEPT !.seq = e]
           b == H[id].base
<1>2. /\ H[id].live /\ H[id].owner = None /\ o = b + Len(d) /\ b \in Int /\ H[id] \in HistorySet
  BY HistoryType DEF AllKnown, Known
<1>3. /\ h \in HistorySet /\ h.live /\ h.base = b /\ h.seq = e /\ h.owner = None
  BY <1>1, <1>2 DEF HistorySet
<1>4. G = [H EXCEPT ![id] = h]
  BY DEF Longer
<1> HIDE DEF h
<1>5. G \in [Nat -> HistorySet] /\ G[id] = h /\ \A j \in Nat : j # id => G[j] = H[j]
  BY <1>3, <1>4
<1>6. Grown(H, G)
  <2>1. ASSUME NEW j \in Nat, H[j].live
        PROVE  /\ G[j].live /\ G[j].base = H[j].base /\ G[j].owner = H[j].owner
               /\ Len(H[j].seq) <= Len(G[j].seq)
               /\ \A i \in 1..Len(H[j].seq) : G[j].seq[i] = H[j].seq[i]
    <3>1. CASE j = id
      <4>1. Len(d) <= Len(e)
        BY <1>1
      <4> QED
        BY <1>1, <1>2, <1>3, <1>5, <3>1, <4>1
    <3>2. CASE j # id
      <4>1. Len(H[j].seq) \in Nat
        BY HistoryType
      <4> QED
        BY <1>5, <2>1, <3>2, <4>1
    <3> QED
      BY <3>1, <3>2
  <2> QED
    BY <2>1 DEF Grown
<1>7. AllKnown(G, None, id, e, o + 1)
  <2>1. o + 1 = b + Len(e) /\ Len(e) \in 0..Len(e) /\ Len(e) <= Len(e)
    <3> DEFINE n == Len(d)
               k == Len(e)
    <3>1. o = b + n /\ n \in Nat /\ k = n + 1 /\ b \in Int
      BY <1>1, <1>2
    <3> HIDE DEF n, k, b
    <3>2. o + 1 = b + k /\ k \in 0..k /\ k <= k
      BY <3>1
    <3> QED
      BY <3>2 DEF k
  <2> QED
    BY <1>3, <1>5, <2>1 DEF AllKnown, Known
<1> QED
  BY <1>2, <1>3, <1>5, <1>6, <1>7 DEF GoesOn

LEMMA WriteRemembers ==
    ASSUME IInv, NEW H, Remembered(H, Running, srv, link, used.ids), NEW m \in Running, Write(m)
    PROVE  \E G \in [Nat -> HistorySet] : Remembered(G, Running, srv', link', used'.ids)
<1> DEFINE w == used.writes + 1
           s == srv[m]
           x == srv'[m]
           l == link[m]
<1>1. /\ w \in Writes /\ used'.ids = used.ids /\ s.masterhost = None
      /\ OnlyServer(m) /\ ServerOK(x) /\ SameIds(x, s) /\ SameFiles(x, s)
      /\ SameRole(x, s) /\ x.slaves = s.slaves /\ x.data = Append(s.data, w)
      /\ x.backlog.on = s.backlog.on
      /\ x.off = IF s.backlog.on THEN s.off + 1 ELSE s.off
      /\ FedLinks(m, w) /\ link'[m] = link[m]
  BY WriteShape
<1>2. /\ H \in [Nat -> HistorySet] /\ used.ids \in Nat /\ ServerOK(s) /\ s \in ServerSet
      /\ LinkOK(m, s, l) /\ OwnKnown(H, m, s) /\ FilesKnown(H, m, s) /\ MasterKnown(H, s)
      /\ s.replid <= used.ids /\ s.replid \in Nat
  BY KnowsNow
<1>3. \A n \in Running \ {m} : srv[n].masterhost = None => srv[n].replid # s.replid
  BY <1>1 DEF Remembered, PairKnows
<1>4. \A n \in Running : srv[n].replid \in Nat
  BY KnowsNow
<1>5. \A id \in Nat : H[id].live => id <= used.ids
  BY DEF Remembered
<1>6. x = srv'[m] /\ s = srv[m] /\ l = link[m] /\ link'[m] = l
  BY <1>1
<1> HIDE DEF x, s, l, w
<1>7. /\ x.masterhost = None /\ x.cached_master = None /\ x.repl_state = "none" /\ l.peer = None
      /\ x.replid = s.replid /\ s.repl_state = "none" /\ x.master_initial = s.master_initial
      /\ x.masterhost = s.masterhost
  BY <1>1, <1>2 DEF SameRole, SameIds, ServerOK, LinkOK
<1>8. l.reply = None /\ l.rdb = None
  BY <1>2, <1>7 DEF LinkOK
<1>9. StreamId(x, l) = StreamId(s, l)
  BY <1>7, <1>8 DEF StreamId
<1>10. \A K : LinkKnown(K, x, l)
  BY <1>7, <1>8 DEF LinkKnown, SnapshotKnown, StreamKnown, Flowing
<1>11. CASE ~s.backlog.on
  <2>1. OwnKnown(H, m, x)
    BY <1>1, <1>7, <1>11 DEF OwnKnown
  <2>2. FilesKnown(H, m, x)
    BY <1>1, <1>2 DEF FilesKnown, SameFiles
  <2>3. MasterKnown(H, x)
    BY <1>1, <1>2, <1>7, <1>11 DEF MasterKnown
  <2>4. ServerKnows(H, m, x, link'[m], used.ids)
    BY <1>2, <1>6, <1>7, <1>10, <2>1, <2>2, <2>3 DEF ServerKnows
  <2>5. Grown(H, H)
    BY <1>2, GrownSame
  <2>6. StreamId(x, link'[m]) = StreamId(s, link[m])
    BY <1>6, <1>9
  <2>7. Remembered(H, Running, srv', link', used.ids)
    BY <1>1, <1>2, <1>5, <1>6, <1>7, <1>11, <2>4, <2>5, <2>6, FeedRemembers
  <2> QED
    BY <1>1, <1>2, <2>7
<1>12. CASE s.backlog.on
  <2> DEFINE d == s.data
             e == x.data
             id == s.replid
             o == s.off
  <2>2. /\ id \in Nat /\ d \in Seq(Writes) /\ o \in Nat /\ e = Append(d, w)
        /\ AllKnown(H, None, id, d, o) /\ H[id].seq = d
    <3>1. d \in Seq(Writes) /\ o \in Nat
      BY <1>2, ServerFields
    <3> QED
      BY <1>1, <1>2, <1>12, <3>1 DEF OwnKnown, MasterKnown
  <2>3. PICK G \in [Nat -> HistorySet] :
          /\ Grown(H, G) /\ AllKnown(G, None, id, e, o + 1)
          /\ G[id].live /\ H[id].live /\ G[id].seq = e
          /\ \A j \in Nat : j # id => G[j] = H[j]
    <3> HIDE DEF d, e, id, o
    <3>1. /\ H \in [Nat -> HistorySet] /\ e \in Seq(Writes) /\ Len(e) = Len(d) + 1
          /\ \A i \in 1..Len(d) : e[i] = d[i]
      BY <1>1, <1>2, <2>2, AppendFacts
    <3>2. PICK K : K = Longer(H, id, e)
      OBVIOUS
    <3>3. GoesOn(H, K, id, e, o + 1)
      <4>1. /\ id \in Nat /\ d \in Seq(Writes) /\ o \in Nat
            /\ AllKnown(H, None, id, d, o) /\ H[id].seq = d
        BY <2>2
      <4> QED
        BY <3>1, <3>2, <4>1, LongerFacts
    <3> QED
      BY <3>3 DEF GoesOn
  <2>4. OwnKnown(G, m, s) /\ FilesKnown(G, m, s)
    BY <1>2, <2>3, OwnGrown, FilesGrown
  <2>5. x.off = o + 1 /\ x.backlog.on /\ x.replid = id
    BY <1>1, <1>7, <1>12
  <2>6. x.replid2 # None =>
          Known(G, None, x.replid2, x.data, Len(x.data) - (x.off + 1 - x.second_replid_offset),
                x.second_replid_offset - 1)
    <3> SUFFICES ASSUME x.replid2 # None
                 PROVE  Known(G, None, x.replid2, x.data,
                              Len(x.data) - (x.off + 1 - x.second_replid_offset),
                              x.second_replid_offset - 1)
      OBVIOUS
    <3>1. s.replid2 # None
      BY <1>1 DEF SameIds
    <3>2. Known(G, None, s.replid2, s.data, Len(s.data) - (s.off + 1 - s.second_replid_offset),
                s.second_replid_offset - 1)
      BY <1>12, <2>4, <3>1 DEF OwnKnown
    <3>3. x.off = s.off + 1
      BY <2>5
    <3> QED
      BY <1>1, <1>2, <2>3, <3>2, <3>3, SecondIdFed
  <2>7. AllKnown(G, None, x.replid, x.data, x.off)
    BY <2>3, <2>5
  <2>8. OwnKnown(G, m, x)
    BY <1>7, <2>6, <2>7 DEF OwnKnown
  <2>9. FilesKnown(G, m, x)
    BY <1>1, <2>4 DEF FilesKnown, SameFiles
  <2>10. MasterKnown(G, x)
    BY <2>3, <2>5 DEF MasterKnown
  <2>11. ServerKnows(G, m, x, link'[m], used.ids)
    BY <1>2, <1>6, <1>7, <1>10, <2>8, <2>9, <2>10 DEF ServerKnows
  <2>12. StreamId(x, link'[m]) = StreamId(s, link[m])
    BY <1>6, <1>9
  <2>13. \A j \in Nat : G[j].live => j <= used.ids
    BY <1>5, <2>2, <2>3
  <2>14. \A n \in Running \ {m} : srv[n].masterhost = None => G[srv[n].replid] = H[srv[n].replid]
    BY <1>3, <1>4, <2>3
  <2>15. AllKnown(G, None, s.replid, Append(s.data, w), s.off + 1)
    BY <2>2, <2>3
  <2> HIDE DEF d, e, id, o
  <2>16. Remembered(G, Running, srv', link', used.ids)
    BY <1>1, <1>6, <1>7, <2>3, <2>11, <2>12, <2>13, <2>14, <2>15, FeedRemembers, SMTT(30)
  <2> QED
    BY <1>1, <2>3, <2>16
<1> QED
  BY <1>11, <1>12

LEMMA ConcatHead ==
    ASSUME NEW d \in Seq(Writes), NEW q \in Seq(Writes), q # <<>>
    PROVE  Append(d, Head(q)) \o Tail(q) = d \o q
<1> DEFINE p == Append(d, Head(q))
           t == Tail(q)
           f == p \o t
           g == d \o q
<1>1. /\ Head(q) \in Writes /\ t \in Seq(Writes) /\ Len(q) \in Nat \ {0} /\ Len(t) = Len(q) - 1
      /\ Head(q) = q[1] /\ \A i \in 1..Len(q) - 1 : t[i] = q[i + 1]
  <2>1. Len(q) \in Nat /\ Len(q) # 0
    BY EmptySeq, LenProperties
  <2>2. Head(q) \in Writes /\ t \in Seq(Writes) /\ Len(t) = Len(q) - 1
    BY HeadTailProperties
  <2>3. Head(q) = q[1] /\ \A i \in 1..Len(q) - 1 : t[i] = q[i + 1]
    BY <2>1
  <2> QED
    BY <2>1, <2>2, <2>3
<1>2. /\ p \in Seq(Writes) /\ Len(d) \in Nat /\ Len(p) = Len(d) + 1
      /\ (\A i \in 1..Len(d) : p[i] = d[i]) /\ p[Len(d) + 1] = q[1]
  <2>1. p = Append(d, q[1]) /\ q[1] \in Writes
    BY <1>1
  <2> HIDE DEF p
  <2> QED
    BY <2>1, AppendFacts
<1> HIDE DEF p, t
<1>3. /\ f \in Seq(Writes) /\ Len(f) = Len(p) + Len(t)
      /\ \A i \in 1..Len(p) : f[i] = p[i]
      /\ \A i \in 1..Len(t) : f[Len(p) + i] = t[i]
  <2>1. f = p \o t /\ p \in Seq(Writes) /\ t \in Seq(Writes)
    BY <1>1, <1>2
  <2> HIDE DEF f
  <2> QED
    BY <2>1, ConcatFacts
<1>4. /\ g \in Seq(Writes) /\ Len(g) = Len(d) + Len(q)
      /\ \A i \in 1..Len(d) : g[i] = d[i]
      /\ \A i \in 1..Len(q) : g[Len(d) + i] = q[i]
  <2>1. g = d \o q
    OBVIOUS
  <2> HIDE DEF g
  <2> QED
    BY <2>1, ConcatFacts
<1> HIDE DEF f, g
<1> DEFINE a == Len(d)
           b == Len(q)
<1>5. a \in Nat /\ b \in Nat /\ Len(f) = a + b /\ Len(g) = a + b
  BY <1>1, <1>2, <1>3, <1>4
<1>6. ASSUME NEW i \in 1..a + b PROVE f[i] = g[i]
  <2>1. CASE i <= a
    <3>1. i \in 1..a /\ i \in 1..Len(p)
      BY <1>2, <2>1
    <3> QED
      BY <1>2, <1>3, <1>4, <3>1
  <2>2. CASE i = a + 1
    <3>1. i = a + 1 /\ 1 \in 1..b /\ i \in 1..Len(p)
      BY <1>1, <1>2, <2>2
    <3>2. g[a + 1] = q[1] /\ f[i] = p[i] /\ p[a + 1] = q[1]
      BY <1>2, <1>3, <1>4, <3>1
    <3> QED
      BY <3>1, <3>2
  <2>3. CASE i > a + 1
    <3> DEFINE j == i - a
               h == i - a - 1
    <3>1. i = a + j /\ j \in 1..b /\ j = h + 1 /\ i = Len(p) + h /\ h \in 1..Len(t)
          /\ h \in 1..b - 1
      BY <1>1, <1>2, <1>5, <2>3
    <3> HIDE DEF j, h
    <3>2. g[i] = q[j] /\ f[i] = t[h] /\ t[h] = q[h + 1]
      BY <1>1, <1>3, <1>4, <3>1
    <3> QED
      BY <3>1, <3>2
  <2> QED
    BY <1>5, <2>1, <2>2, <2>3
<1>7. f = g
  BY <1>3, <1>4, <1>5, <1>6, SeqEqual
<1> QED
  BY <1>7 DEF f, g, p, t

LEMMA ReceiveWriteRemembers ==
    ASSUME IInv, NEW H, Remembered(H, Running, srv, link, used.ids), NEW m \in Running,
           ReceiveWrite(m), used' = used, IInv'
    PROVE  Remembered(H, Running, srv', link', used'.ids)
<1> DEFINE w == Head(link[m].stream)
           s == srv[m]
           x == srv'[m]
           l == link[m]
           k == link'[m]
<1>1. /\ w \in Writes /\ s.repl_state = "connected" /\ s.backlog.on
      /\ OnlyServer(m) /\ ServerOK(x) /\ SameIds(x, s) /\ SameFiles(x, s)
      /\ x.slaves = s.slaves /\ x.masterhost = s.masterhost
      /\ x.repl_state = "connected"
      /\ x.data = Append(s.data, w) /\ x.off = s.off + 1 /\ x.backlog.on
      /\ FedLinks(m, w) /\ k.reply = None /\ k.rdb = None
      /\ l.reply = None /\ l.rdb = None
      /\ l.stream # <<>> /\ k.stream = Tail(l.stream)
  BY ReceiveWriteShape
<1>2. /\ used.ids \in Nat /\ ServerOK(s) /\ OwnKnown(H, m, s) /\ FilesKnown(H, m, s)
      /\ LinkKnown(H, s, l) /\ LinkOK(m, s, l) /\ H \in [Nat -> HistorySet]
      /\ s.replid \in Nat /\ s \in ServerSet /\ s.replid <= used.ids
  BY KnowsNow
<1>3. LinkOK(m, x, k)
  <2>1. Running' = Running
    BY DEF ReceiveWrite, IInv
  <2> QED
    BY <2>1 DEF IInv
<1>4. x = srv'[m] /\ s = srv[m] /\ l = link[m] /\ k = link'[m] /\ w = Head(l.stream)
  OBVIOUS
<1>5. \A id \in Nat : H[id].live => id <= used.ids
  BY DEF Remembered
<1> HIDE DEF x, s, l, k, w
<1>6. /\ x.masterhost # None /\ x.cached_master = None /\ x.replid = s.replid
  BY <1>1 DEF ServerOK, SameIds
<1>7. /\ StreamId(s, l) = s.replid /\ StreamId(x, k) = s.replid
      /\ BaseData(s, l) = s.data /\ BaseOff(s, l) = s.off
      /\ BaseData(x, k) = x.data /\ BaseOff(x, k) = x.off /\ Flowing(s, l) /\ Flowing(x, k)
  BY <1>1, <1>6 DEF StreamId, BaseData, BaseOff, Flowing
<1>8. AllKnown(H, None, s.replid, s.data \o l.stream, s.off + Len(l.stream))
  BY <1>2, <1>7 DEF LinkKnown, StreamKnown
<1>9. x.data \o k.stream = s.data \o l.stream /\ x.off + Len(k.stream) = s.off + Len(l.stream)
  <2> DEFINE d == s.data
             q == l.stream
             o == s.off
  <2>1. d \in Seq(Writes) /\ q \in Seq(Writes) /\ q # <<>> /\ o \in Nat
    BY <1>1, <1>2, ServerFields, StreamTypes
  <2>2. x.data = Append(d, Head(q)) /\ k.stream = Tail(q) /\ x.off = o + 1
    BY <1>1, <1>4
  <2> HIDE DEF d, q, o
  <2>3. Len(Tail(q)) = Len(q) - 1 /\ Len(q) \in Nat
    BY <2>1, HeadTailProperties, LenProperties
  <2>4. o + 1 + Len(Tail(q)) = o + Len(q)
    BY <2>1, <2>3
  <2>5. Append(d, Head(q)) \o Tail(q) = d \o q
    BY <2>1, ConcatHead
  <2> QED
    BY <2>2, <2>4, <2>5 DEF d, q, o
<1>10. StreamKnown(H, x, k)
  BY <1>7, <1>8, <1>9 DEF StreamKnown
<1>11. LinkKnown(H, x, k)
  BY <1>1, <1>10 DEF LinkKnown, SnapshotKnown
<1>12. AllKnown(H, None, x.replid, x.data, x.off)
  <2>1. AllKnown(H, None, StreamId(x, k), BaseData(x, k), BaseOff(x, k))
    BY <1>1, <1>2, <1>3, <1>7, <1>11, BaseKnown
  <2> QED
    BY <1>6, <1>7, <2>1
<1>13. x.replid2 # None =>
          Known(H, None, x.replid2, x.data, Len(x.data) - (x.off + 1 - x.second_replid_offset),
                x.second_replid_offset - 1)
  <2> SUFFICES ASSUME x.replid2 # None
               PROVE  Known(H, None, x.replid2, x.data,
                            Len(x.data) - (x.off + 1 - x.second_replid_offset),
                            x.second_replid_offset - 1)
    OBVIOUS
  <2>1. s.replid2 # None
    BY <1>1 DEF SameIds
  <2>2. Known(H, None, s.replid2, s.data, Len(s.data) - (s.off + 1 - s.second_replid_offset),
              s.second_replid_offset - 1)
    BY <1>1, <1>2, <2>1 DEF OwnKnown
  <2> QED
    BY <1>1, <1>2, <2>2, SecondIdFed
<1>14. OwnKnown(H, m, x) /\ MasterKnown(H, x)
  BY <1>1, <1>6, <1>12, <1>13 DEF OwnKnown, MasterKnown
<1>15. FilesKnown(H, m, x)
  BY <1>1, <1>2 DEF FilesKnown, SameFiles
<1>16. ServerKnows(H, m, x, link'[m], used.ids)
  BY <1>2, <1>4, <1>6, <1>11, <1>14, <1>15 DEF ServerKnows
<1>17. StreamId(x, link'[m]) = StreamId(s, link[m])
  BY <1>4, <1>7
<1>18. AllKnown(H, None, s.replid, Append(s.data, w), s.off + 1)
  BY <1>1, <1>6, <1>12
<1>19. Grown(H, H)
  BY <1>2, GrownSame
<1>20. Remembered(H, Running, srv', link', used.ids)
  BY <1>1, <1>2, <1>4, <1>5, <1>6, <1>16, <1>17, <1>18, <1>19, FeedRemembers
<1> QED
  BY <1>20
-----------------------------------------------------------------------------
(* A master changes what it has of its replicas. *)

\* What the replica q of m, which is now x, knows after the step.
Served(G, m, x, q, ids) ==
    /\ ServerKnows(G, q, srv'[q], link'[q], ids)
    /\ x.slaves[q] \in {"wait_end", "online"} => StreamId(srv'[q], link'[q]) = x.replid
    /\ \/ StreamId(srv'[q], link'[q]) = StreamId(srv[q], link[q])
       \/ \A n \in Running \ {m} : srv[n].slaves[q] = "none"
    /\ srv'[q].masterhost = srv[q].masterhost /\ srv'[q].replid = srv[q].replid
    /\ srv'[q].slaves = srv[q].slaves

LEMMA MasterRemembers ==
    ASSUME IInv, NEW H, Remembered(H, Running, srv, link, used.ids),
           NEW m \in Running, NEW x, x = srv'[m], x.masterhost = srv[m].masterhost,
           x.slaves[m] = "none", NEW ids \in Nat,
           NEW G \in [Nat -> HistorySet], \A id \in Nat : G[id].live => id <= ids,
           ServerKnows(G, m, x, link'[m], ids),
           \/ StreamId(x, link'[m]) = StreamId(srv[m], link[m])
           \/ \A n \in Running : srv[n].slaves[m] = "none",
           \A n \in Running \ {m} : srv[n].masterhost = None /\ x.masterhost = None =>
               srv[n].replid # x.replid,
           \A q \in Running \ {m} : Served(G, m, x, q, ids)
    PROVE  Remembered(G, Running, srv', link', ids)
<1>1. \A n \in Running : ServerKnows(G, n, srv'[n], link'[n], ids)
  BY DEF Served
<1>2. ASSUME NEW n \in Running, NEW r \in Running
      PROVE  PairKnows(n, srv'[n], r, srv'[r], link'[r])
  <2>1. PairKnows(n, srv[n], r, srv[r], link[r])
    BY DEF Remembered
  <2>2. ASSUME NEW q \in Running \ {m}
        PROVE  /\ srv'[q].masterhost = srv[q].masterhost /\ srv'[q].replid = srv[q].replid
               /\ srv'[q].slaves = srv[q].slaves
    BY DEF Served
  <2>3. CASE n = m /\ r = m
    BY <2>3 DEF PairKnows
  <2>4. CASE n = m /\ r # m
    <3>1. x.slaves[r] \in {"wait_end", "online"} => StreamId(srv'[r], link'[r]) = x.replid
      BY <2>4 DEF Served
    <3>2. srv'[r].masterhost = srv[r].masterhost /\ srv'[r].replid = srv[r].replid
      BY <2>2, <2>4
    <3> QED
      BY <2>4, <3>1, <3>2 DEF PairKnows
  <2>5. CASE n # m /\ r = m
    <3>1. /\ srv'[n].masterhost = srv[n].masterhost /\ srv'[n].replid = srv[n].replid
          /\ srv'[n].slaves = srv[n].slaves
      BY <2>2, <2>5
    <3> QED
      BY <2>1, <2>5, <3>1 DEF PairKnows
  <2>6. CASE n # m /\ r # m
    <3>1. /\ srv'[n].masterhost = srv[n].masterhost /\ srv'[n].replid = srv[n].replid
          /\ srv'[n].slaves = srv[n].slaves
          /\ srv'[r].masterhost = srv[r].masterhost /\ srv'[r].replid = srv[r].replid
      BY <2>2, <2>6
    <3>2. \/ StreamId(srv'[r], link'[r]) = StreamId(srv[r], link[r])
          \/ srv[n].slaves[r] = "none"
      BY <2>6 DEF Served
    <3> QED
      BY <2>1, <3>1, <3>2 DEF PairKnows
  <2> QED
    BY <2>3, <2>4, <2>5, <2>6
<1> QED
  BY <1>1, <1>2 DEF Remembered

\* A snapshot of y, which is what its server knows, with the ID of x.
LEMMA FullySentKnown ==
    ASSUME NEW G \in [Nat -> HistorySet], NEW y, ServerOK(y), NEW p, OwnKnown(G, p, y),
           y.backlog.on, NEW x, x.replid = y.replid, NEW k, NEW l, NEW snap, snap = Snapshot(y),
           FullySent(k, l, x, snap), NEW t
    PROVE  LinkKnown(G, t, k) /\ StreamId(t, k) = x.replid
<1>1. snap \in Snapshots /\ snap.data = y.data /\ snap.off = y.off /\ y.data \in Seq(Writes)
      /\ y.off \in Nat
  BY SnapshotType, ServerFields DEF ServerOK
<1>2. /\ k.reply # None /\ k.reply.type = "full" /\ k.reply.replid = x.replid
      /\ k.rdb = snap /\ k.rdb # None /\ k.stream = <<>>
  BY DEF FullySent
<1>3. SnapshotKnown(G, None, k.rdb)
  BY <1>2, SnapshotOwn
<1>4. StreamId(t, k) = y.replid /\ BaseData(t, k) = y.data /\ BaseOff(t, k) = y.off
  BY <1>1, <1>2 DEF StreamId, BaseData, BaseOff
<1>5. AllKnown(G, None, y.replid, y.data, y.off)
  BY DEF OwnKnown
<1>6. y.data \o k.stream = y.data /\ y.off + Len(k.stream) = y.off
  BY <1>1, <1>2
<1>7. StreamKnown(G, t, k)
  BY <1>4, <1>5, <1>6 DEF StreamKnown
<1> QED
  BY <1>2, <1>3, <1>4, <1>7 DEF LinkKnown

LEMMA SlaveStepKnows ==
    ASSUME IInv, NEW H, Remembered(H, Running, srv, link, used.ids), NEW m \in Running,
           NEW s, s = srv[m], NEW x, x = srv'[m], s.backlog.on => x.replid = s.replid,
           NEW G \in [Nat -> HistorySet], Grown(H, G), NEW ids \in Nat, used.ids <= ids,
           NEW q \in Running, q # m, SlaveStep(m, x, q), srv'[q] = srv[q],
           srv[q].masterhost = None => G[srv[q].replid] = H[srv[q].replid]
    PROVE  Served(G, m, x, q, ids)
<1> DEFINE t == srv[q]
           l == link[q]
           k == link'[q]
<1>1. /\ H \in [Nat -> HistorySet] /\ ServerOK(t) /\ t \in ServerSet /\ LinkOK(q, t, l)
      /\ OwnKnown(H, q, t) /\ FilesKnown(H, q, t) /\ LinkKnown(H, t, l) /\ MasterKnown(H, t)
      /\ t.replid <= used.ids /\ t.replid \in Nat /\ used.ids \in Nat
  BY KnowsNow
<1>2. /\ s.slaves[q] # "none" => /\ s.backlog.on
                                 /\ \A n \in Running \ {m} : srv[n].slaves[q] = "none"
      /\ s.slaves[q] = "wait_end" => l.rdb # None
      /\ s.slaves[q] \in {"wait_end", "online"} => StreamId(t, l) = s.replid
  <2>1. ServerOK(s) /\ q \in Servers
    BY RunningServers DEF IInv
  <2>2. s.slaves[q] # "none" => s.backlog.on
    BY <2>1 DEF ServerOK, Slaves
  <2>3. Follows(m, s, q, t, l) /\ PairKnows(m, s, q, t, l)
    BY DEF IInv, Remembered
  <2> QED
    BY <2>2, <2>3, OneMaster DEF Follows, PairKnows
<1>3. ServerOK(s) /\ OwnKnown(H, m, s) /\ s \in ServerSet
  BY KnowsNow
<1>4. \/ k = l /\ (x.slaves[q] = s.slaves[q] \/ s.slaves[q] = "wait_end")
      \/ /\ s.slaves[q] = "wait_end" /\ x.slaves[q] = "none"
         /\ k.reply = l.reply /\ k.rdb = None
      \/ s.slaves[q] = "wait_start" /\ FullySent(k, l, x, Snapshot(s))
  BY DEF SlaveStep
<1>5. t = srv[q] /\ l = link[q] /\ k = link'[q] /\ srv'[q] = t
  OBVIOUS
<1>6. t.masterhost = None => G[t.replid] = H[t.replid]
  OBVIOUS
<1> HIDE DEF t, l, k
<1>7. OwnKnown(G, q, t) /\ FilesKnown(G, q, t) /\ LinkKnown(G, t, l)
  BY <1>1, OwnGrown, FilesGrown, LinkGrown
<1>8. MasterKnown(G, t)
  BY <1>1, <1>6 DEF MasterKnown
<1>9. t.replid <= ids
  BY <1>1
<1>10. /\ LinkKnown(G, t, k)
       /\ x.slaves[q] \in {"wait_end", "online"} => StreamId(t, k) = x.replid
       /\ \/ StreamId(t, k) = StreamId(t, l)
          \/ \A n \in Running \ {m} : srv[n].slaves[q] = "none"
  <2>1. CASE k = l /\ (x.slaves[q] = s.slaves[q] \/ s.slaves[q] = "wait_end")
    <3>1. x.slaves[q] \in {"wait_end", "online"} => StreamId(t, l) = x.replid
      BY <1>2, <2>1
    <3> QED
      BY <1>7, <2>1, <3>1
  <2>2. CASE /\ s.slaves[q] = "wait_end" /\ x.slaves[q] = "none"
             /\ k.reply = l.reply /\ k.rdb = None
    <3>1. LinkKnown(G, t, k)
      BY <1>1, <1>2, <2>2, CutKnows
    <3> QED
      BY <1>2, <2>2, <3>1
  <2>3. CASE s.slaves[q] = "wait_start" /\ FullySent(k, l, x, Snapshot(s))
    <3>1. OwnKnown(G, m, s) /\ s.backlog.on /\ x.replid = s.replid
      BY <1>1, <1>2, <1>3, <2>3, OwnGrown
    <3>2. PICK snap : snap = Snapshot(s)
      OBVIOUS
    <3>3. LinkKnown(G, t, k) /\ StreamId(t, k) = x.replid
      BY <1>3, <2>3, <3>1, <3>2, FullySentKnown
    <3> QED
      BY <1>2, <2>3, <3>3
  <2> QED
    BY <1>4, <2>1, <2>2, <2>3
<1>11. ServerKnows(G, q, t, k, ids)
  BY <1>7, <1>8, <1>9, <1>10 DEF ServerKnows
<1> QED
  BY <1>5, <1>10, <1>11 DEF Served

LEMMA BgsaveDoneRemembers ==
    ASSUME IInv, NEW H, Remembered(H, Running, srv, link, used.ids), NEW m \in Running,
           NEW ok \in BOOLEAN, BgsaveDone(m, ok)
    PROVE  Remembered(H, Running, srv', link', used'.ids)
<1> DEFINE s == srv[m]
           x == srv'[m]
           l == link[m]
<1>1. /\ used'.ids = used.ids /\ s.bgsave # None
      /\ OnlyServer(m) /\ SameIds(x, s) /\ SameRole(x, s)
      /\ x.data = s.data /\ x.off = s.off /\ x.backlog = s.backlog
      /\ x.disk \in {s.bgsave, s.disk} /\ x.bgsave \in {None, Snapshot(s)}
      /\ x.slaves[m] = "none" /\ link'[m] = link[m]
      /\ \A q \in Running \ {m} : SlaveStep(m, x, q)
  BY BgsaveDoneShape
<1>2. /\ H \in [Nat -> HistorySet] /\ used.ids \in Nat /\ ServerOK(s) /\ OwnKnown(H, m, s)
      /\ FilesKnown(H, m, s) /\ LinkKnown(H, s, l) /\ MasterKnown(H, s) /\ s.replid <= used.ids
  BY KnowsNow
<1>3. \A n \in Running \ {m} : srv[n].masterhost = None /\ s.masterhost = None =>
          srv[n].replid # s.replid
  BY DEF Remembered, PairKnows
<1>4. x = srv'[m] /\ s = srv[m] /\ l = link[m] /\ link'[m] = l /\ used.ids <= used.ids
  BY <1>1, <1>2
<1>5. \A id \in Nat : H[id].live => id <= used.ids
  BY DEF Remembered
<1> HIDE DEF x, s, l
<1>6. x.replid = s.replid /\ x.masterhost = s.masterhost /\ x.cached_master = s.cached_master
      /\ x.repl_state = s.repl_state /\ x.master_initial = s.master_initial
  BY <1>1 DEF SameIds, SameRole
<1>7. OwnKnown(H, m, x)
  BY <1>1, <1>2, <1>6, OwnSame
<1>8. FilesKnown(H, m, x)
  <2>1. SnapshotKnown(H, m, Snapshot(s)) /\ SnapshotKnown(H, m, None)
    BY <1>2, SnapshotOwn DEF SnapshotKnown
  <2> QED
    BY <1>1, <1>2, <2>1 DEF FilesKnown
<1>9. LinkKnown(H, x, l) /\ StreamId(x, l) = StreamId(s, l)
  BY <1>1, <1>2, <1>6, LinkSame
<1>10. MasterKnown(H, x)
  BY <1>1, <1>2, <1>6 DEF MasterKnown
<1>11. ServerKnows(H, m, x, link'[m], used.ids)
  BY <1>2, <1>4, <1>6, <1>7, <1>8, <1>9, <1>10 DEF ServerKnows
<1>12. Grown(H, H)
  BY <1>2, GrownSame
<1>13. ASSUME NEW q \in Running \ {m} PROVE Served(H, m, x, q, used.ids)
  <2>1. srv'[q] = srv[q] /\ SlaveStep(m, x, q) /\ q # m
    BY <1>1 DEF OnlyServer
  <2> QED
    BY <1>2, <1>4, <1>6, <1>12, <2>1, SlaveStepKnows
<1>14. Remembered(H, Running, srv', link', used.ids)
  BY <1>1, <1>2, <1>3, <1>4, <1>5, <1>6, <1>9, <1>11, <1>13, MasterRemembers
<1> QED
  BY <1>1, <1>14

\* A beginning and the rest.
LEMMA PrefixRest ==
    ASSUME NEW d \in Seq(Writes), NEW e \in Seq(Writes), NEW q \in Seq(Writes),
           Len(e) = Len(d) + Len(q), \A i \in 1..Len(d) : d[i] = e[i],
           \A i \in 1..Len(q) : q[i] = e[Len(d) + i]
    PROVE  d \o q = e
<1> DEFINE f == d \o q
           a == Len(d)
           b == Len(q)
<1>1. a \in Nat /\ b \in Nat
  BY LenProperties
<1>2. /\ f \in Seq(Writes) /\ Len(f) = a + b
      /\ (\A i \in 1..a : f[i] = d[i]) /\ \A i \in 1..b : f[a + i] = q[i]
  <2>1. f = d \o q
    OBVIOUS
  <2> HIDE DEF f
  <2> QED
    BY <2>1, ConcatFacts
<1>3. Len(e) = a + b /\ (\A i \in 1..a : d[i] = e[i]) /\ \A i \in 1..b : q[i] = e[a + i]
  OBVIOUS
<1> HIDE DEF f, a, b
<1>4. ASSUME NEW i \in 1..a + b PROVE f[i] = e[i]
  <2>1. CASE i <= a
    <3>1. i \in 1..a
      BY <1>1, <2>1
    <3> QED
      BY <1>2, <1>3, <3>1
  <2>2. CASE i > a
    <3> DEFINE j == i - a
    <3>1. j \in 1..b /\ i = a + j
      BY <1>1, <2>2
    <3> HIDE DEF j
    <3> QED
      BY <1>2, <1>3, <3>1
  <2> QED
    BY <1>1, <2>1, <2>2
<1>5. f = e
  BY <1>2, <1>3, <1>4, SeqEqual
<1> QED
  BY <1>5 DEF f

LEMMA RestOf ==
    ASSUME NEW e \in Seq(Writes), NEW b \in Nat, b <= Len(e), NEW a, a = Len(e) - b,
           NEW i \in 1..b
    PROVE  SubSeq(e, Len(e) - b + 1, Len(e))[i] = e[a + i]
<1> DEFINE c == Len(e)
           j == a + i
<1>1. c \in Nat /\ c - b + 1 = a + 1 /\ a \in Nat /\ a + 1 + i - 1 = j /\ i \in 1..(c - (a + 1) + 1)
      /\ a + 1 \in 1..c + 1
  BY LenProperties
<1>2. SubSeq(e, a + 1, c)[i] = e[a + 1 + i - 1]
  BY <1>1
<1> QED
  BY <1>1, <1>2

\* What r, as u, is sent as q is the rest of the data set of its master, s.
RestSent(H, u, s, q) ==
    /\ AllKnown(H, None, u.replid, u.data, u.off)
    /\ u.data \o q = s.data /\ u.off + Len(q) = s.off

\* What m's backlog has and r lacks.
LEMMA ContinuedData ==
    ASSUME NEW H \in [Nat -> HistorySet], NEW r, NEW m, NEW s, ServerOK(s), OwnKnown(H, m, s),
           NEW u, ServerOK(u), OwnKnown(H, r, u), NEW c, c = u.cached_master, c # None,
           Continues(s, c.replid, c.reploff + 1), NEW q, q = BacklogFrom(s, c.reploff + 1)
    PROVE  RestSent(H, u, s, q)
<1> DEFINE id == u.replid
           d == u.data
           o == u.off
           e == s.data
           v == s.off
           y == s.second_replid_offset
           n2 == Len(e) - (v + 1 - y)
           o2 == y - 1
<1>1. /\ id \in Nat /\ d \in Seq(Writes) /\ o \in Nat /\ e \in Seq(Writes) /\ v \in Nat
      /\ y \in Int /\ s \in ServerSet /\ s.replid \in Nat
  BY ServerFields DEF ServerOK
<1>2. c.replid = id /\ c.reploff = o /\ BacklogOK(s) /\ AllKnown(H, r, id, d, o)
  BY DEF ServerOK, OwnKnown
<1>3. /\ s.backlog.on /\ s.backlog.off <= o + 1 /\ o + 1 <= s.backlog.off + s.backlog.histlen
      /\ (id = s.replid \/ (id = s.replid2 /\ o + 1 <= y))
  BY <1>2 DEF Continues, KnownId
<1>4. /\ q \in Seq(Writes) /\ Len(q) = v + 1 - (o + 1) /\ Len(q) <= Len(e)
      /\ q = SubSeq(e, Len(e) - Len(q) + 1, Len(e))
  <2> DEFINE z == o + 1
  <2>1. z \in Int /\ s.backlog.off <= z /\ z <= s.backlog.off + s.backlog.histlen
        /\ q = BacklogFrom(s, z)
    BY <1>1, <1>2, <1>3
  <2> HIDE DEF z
  <2>2. /\ q \in Seq(Writes) /\ Len(q) = s.off + 1 - z
        /\ Len(q) <= Len(s.data)
        /\ q = SubSeq(s.data, Len(s.data) - Len(q) + 1, Len(s.data))
    BY <1>1, <1>2, <1>3, <2>1, FromFacts
  <2> QED
    BY <2>2 DEF z
<1>5. AllKnown(H, None, s.replid, e, v)
  BY <1>3 DEF OwnKnown
<1>6. id # s.replid => Known(H, None, id, e, n2, o2)
  <2>1. id # None
    BY <1>1, ReplicationAssumption
  <2> QED
    BY <1>3, <2>1 DEF OwnKnown
<1>7. y \in Int /\ n2 = Len(e) - (v + 1 - y) /\ o2 = y - 1
  BY <1>1
<1>8. Len(d) \in Nat /\ Len(e) \in Nat /\ Len(q) \in Nat
  BY <1>1, <1>4, LenProperties
<1> HIDE DEF id, d, o, e, v, y, n2, o2
<1>9. AllKnown(H, None, id, d, o)
  <2>1. H[id].owner = None
    BY <1>5, <1>6 DEF AllKnown, Known
  <2> QED
    BY <1>2, <2>1, KnownBoth DEF AllKnown
<1>10. Len(d) = Len(e) - Len(q) /\ \A i \in 1..Len(d) : d[i] = e[i]
  <2> DEFINE a == Len(d)
             b == Len(q)
             k == Len(e)
  <2>1. a \in Nat /\ b \in Nat /\ k \in Nat /\ b = v + 1 - (o + 1) /\ b <= k
        /\ n2 = k - (v + 1 - y) /\ Known(H, None, id, d, a, o)
    BY <1>4, <1>7, <1>8, <1>9 DEF AllKnown
  <2>2. CASE id = s.replid
    <3>1. Known(H, None, id, e, k, v)
      BY <1>5, <2>2 DEF AllKnown
    <3> HIDE DEF a, b, k
    <3>2. a - k = o - v /\ \A i \in 1..a : i \in 1..k => d[i] = e[i]
      <4>1. id \in Nat /\ d \in Seq(Writes) /\ e \in Seq(Writes) /\ Known(H, None, id, d, a, o)
        BY <1>1, <2>1
      <4> QED
        BY <3>1, <4>1, KnownLength
    <3>3. a = k - b /\ \A i \in 1..a : i \in 1..k
      <4>1. /\ a \in Nat /\ b \in Nat /\ k \in Nat /\ b = v + 1 - (o + 1) /\ o \in Nat /\ v \in Nat
            /\ a - k = o - v
        BY <1>1, <2>1, <3>2
      <4> QED
        BY <4>1
    <3>4. \A i \in 1..a : d[i] = e[i]
      BY <3>2, <3>3
    <3> QED
      BY <3>3, <3>4 DEF a, b, k
  <2>3. CASE id # s.replid
    <3>1. Known(H, None, id, e, n2, o2)
      BY <1>6, <2>3
    <3> HIDE DEF a, b, k
    <3>2. n2 \in Nat /\ a - n2 = o - o2 /\ \A i \in 1..a : i \in 1..n2 => d[i] = e[i]
      <4>1. id \in Nat /\ d \in Seq(Writes) /\ e \in Seq(Writes) /\ Known(H, None, id, d, a, o)
        BY <1>1, <2>1
      <4> QED
        BY <3>1, <4>1, KnownLength
    <3>3. a = k - b /\ \A i \in 1..a : i \in 1..n2
      <4>1. /\ a \in Nat /\ b \in Nat /\ k \in Nat /\ b = v + 1 - (o + 1) /\ o \in Nat /\ v \in Nat
            /\ n2 = k - (v + 1 - y) /\ y \in Int /\ o2 = y - 1 /\ o + 1 <= y
            /\ n2 \in Nat /\ a - n2 = o - o2
        BY <1>1, <1>3, <1>7, <2>1, <2>3, <3>2
      <4> QED
        BY <4>1
    <3>4. \A i \in 1..a : d[i] = e[i]
      BY <3>2, <3>3
    <3> QED
      BY <3>3, <3>4 DEF a, b, k
  <2> QED
    BY <2>2, <2>3
<1>11. d \o q = e
  <2> DEFINE a == Len(d)
             b == Len(q)
  <2>1. a \in Nat /\ b \in Nat /\ b <= Len(e) /\ a = Len(e) - b /\ Len(e) \in Nat
        /\ q = SubSeq(e, Len(e) - b + 1, Len(e))
    BY <1>4, <1>8, <1>10
  <2> HIDE DEF a, b
  <2>2. ASSUME NEW i \in 1..b PROVE q[i] = e[a + i]
    <3>1. SubSeq(e, Len(e) - b + 1, Len(e))[i] = e[a + i]
      BY <1>1, <2>1, RestOf
    <3> QED
      BY <2>1, <3>1
  <2>3. Len(e) = a + b
    BY <2>1
  <2>4. /\ d \in Seq(Writes) /\ e \in Seq(Writes) /\ q \in Seq(Writes) /\ Len(e) = Len(d) + Len(q)
        /\ (\A i \in 1..Len(d) : d[i] = e[i]) /\ \A i \in 1..Len(q) : q[i] = e[Len(d) + i]
    BY <1>1, <1>4, <1>10, <2>2, <2>3 DEF a, b
  <2> QED
    BY <2>4, PrefixRest
<1>12. o + Len(q) = v
  <2> DEFINE b == Len(q)
  <2>1. o \in Nat /\ v \in Nat /\ b = v + 1 - (o + 1)
    BY <1>1, <1>4
  <2> HIDE DEF b
  <2>2. o + b = v
    BY <2>1
  <2> QED
    BY <2>2 DEF b
<1> QED
  BY <1>9, <1>11, <1>12 DEF RestSent, id, d, o, e, v

\* The replica that has asked knows what it knew, and what its link brings.
LEMMA AskedServed ==
    ASSUME IInv, NEW H, Remembered(H, Running, srv, link, used.ids), NEW r \in Running,
           NEW m, NEW x, NEW l, Asked(r, m, x, l),
           NEW G \in [Nat -> HistorySet], Grown(H, G), NEW ids \in Nat, used.ids <= ids,
           LinkKnown(G, srv'[r], l),
           x.slaves[r] \in {"wait_end", "online"} => StreamId(srv'[r], l) = x.replid
    PROVE  Served(G, m, x, r, ids)
<1> DEFINE s == srv[r]
           t == srv'[r]
<1>1. /\ SameIds(t, s) /\ SameFiles(t, s) /\ t.masterhost = s.masterhost
      /\ t.cached_master = s.cached_master /\ t.data = s.data /\ t.off = s.off
      /\ t.backlog = s.backlog /\ t.slaves = s.slaves /\ link'[r] = l
      /\ \A n \in Running : srv[n].slaves[r] = "none"
  BY DEF Asked
<1>2. t.masterhost # None
  BY AskedLink
<1>3. /\ H \in [Nat -> HistorySet] /\ used.ids \in Nat /\ s \in ServerSet /\ s.replid <= used.ids
      /\ OwnKnown(H, r, s) /\ FilesKnown(H, r, s) /\ s.replid \in Nat
  BY KnowsNow
<1>4. t = srv'[r] /\ s = srv[r]
  OBVIOUS
<1> HIDE DEF s, t
<1>5. OwnKnown(G, r, s) /\ FilesKnown(G, r, s)
  BY <1>3, OwnGrown, FilesGrown
<1>6. OwnKnown(G, r, t)
  BY <1>1, <1>5, OwnSame
<1>7. FilesKnown(G, r, t)
  BY <1>1, <1>5 DEF FilesKnown, SameFiles
<1>8. MasterKnown(G, t)
  BY <1>2 DEF MasterKnown
<1>9. t.replid = s.replid /\ t.replid <= ids
  BY <1>1, <1>3 DEF SameIds
<1>10. ServerKnows(G, r, t, l, ids)
  BY <1>4, <1>6, <1>7, <1>8, <1>9 DEF ServerKnows
<1> QED
  BY <1>1, <1>4, <1>9, <1>10 DEF Served

\* m, which is now x, is known to write the history of its ID in G.
NowKnown(H, G, m, x, ids) ==
    /\ G \in [Nat -> HistorySet] /\ Grown(H, G) /\ \A id \in Nat : G[id].live => id <= ids
    /\ ids \in Nat /\ used.ids <= ids /\ (srv[m].backlog.on => x.replid = srv[m].replid)
    /\ OwnKnown(G, m, x) /\ ServerKnows(G, m, x, link[m], ids)
    /\ \A n \in Running \ {m} : srv[n].masterhost = None => G[srv[n].replid] = H[srv[n].replid]
    /\ \A n \in Running \ {m} : srv[n].masterhost = None /\ x.masterhost = None =>
           srv[n].replid # x.replid
    /\ \/ StreamId(x, link[m]) = StreamId(srv[m], link[m])
       \/ \A n \in Running : srv[n].slaves[m] = "none"

LEMMA AskedRemembers ==
    ASSUME IInv, NEW H, Remembered(H, Running, srv, link, used.ids), NEW r \in Running,
           NEW m, NEW x, NEW l, Asked(r, m, x, l), NEW G, NEW ids, NowKnown(H, G, m, x, ids),
           LinkKnown(G, srv'[r], l),
           x.slaves[r] \in {"wait_end", "online"} => StreamId(srv'[r], l) = x.replid
    PROVE  Remembered(G, Running, srv', link', ids)
<1>1. /\ m \in Running /\ x = srv'[m] /\ x.slaves[m] = "none" /\ link'[m] = link[m]
      /\ \A q \in Running \ {m, r} : srv'[q] = srv[q] /\ SlaveStep(m, x, q)
      /\ x.masterhost = srv[m].masterhost
  BY DEF Asked, SameRole
<1>2. /\ G \in [Nat -> HistorySet] /\ Grown(H, G) /\ ids \in Nat /\ used.ids <= ids
      /\ \A id \in Nat : G[id].live => id <= ids
  BY DEF NowKnown
<1>3. ASSUME NEW q \in Running \ {m} PROVE Served(G, m, x, q, ids)
  <2>1. CASE q = r
    BY <1>2, <2>1, AskedServed
  <2>2. CASE q # r
    <3>1. srv'[q] = srv[q] /\ SlaveStep(m, x, q) /\ q # m /\ q \in Running
      BY <1>1, <2>2
    <3>2. /\ srv[q].masterhost = None => G[srv[q].replid] = H[srv[q].replid]
          /\ srv[m].backlog.on => x.replid = srv[m].replid
      BY DEF NowKnown
    <3> QED
      BY <1>1, <1>2, <3>1, <3>2, SlaveStepKnows
  <2> QED
    BY <2>1, <2>2
<1>4. /\ ServerKnows(G, m, x, link'[m], ids)
      /\ \A n \in Running \ {m} : srv[n].masterhost = None /\ x.masterhost = None =>
             srv[n].replid # x.replid
      /\ \/ StreamId(x, link'[m]) = StreamId(srv[m], link[m])
         \/ \A n \in Running : srv[n].slaves[m] = "none"
  BY <1>1 DEF NowKnown
<1> QED
  BY <1>1, <1>2, <1>3, <1>4, MasterRemembers

\* m has only gained a replica.
LEMMA SameNowKnown ==
    ASSUME IInv, NEW H, Remembered(H, Running, srv, link, used.ids), NEW m \in Running,
           NEW s, s = srv[m], NEW x, SameIds(x, s), SameRole(x, s), x.disk = s.disk,
           x.data = s.data, x.off = s.off, x.backlog = s.backlog, ServerOK(x),
           x.bgsave \in {s.bgsave, Snapshot(x)}
    PROVE  NowKnown(H, H, m, x, used.ids)
<1> DEFINE l == link[m]
<1>1. /\ H \in [Nat -> HistorySet] /\ used.ids \in Nat /\ ServerOK(s) /\ OwnKnown(H, m, s)
      /\ FilesKnown(H, m, s) /\ LinkKnown(H, s, l) /\ MasterKnown(H, s) /\ s.replid <= used.ids
  BY KnowsNow
<1>2. \A n \in Running \ {m} : srv[n].masterhost = None /\ s.masterhost = None =>
          srv[n].replid # s.replid
  BY DEF Remembered, PairKnows
<1>3. \A id \in Nat : H[id].live => id <= used.ids
  BY DEF Remembered
<1>4. l = link[m]
  OBVIOUS
<1> HIDE DEF l
<1>5. x.replid = s.replid /\ x.masterhost = s.masterhost /\ x.cached_master = s.cached_master
      /\ x.repl_state = s.repl_state /\ x.master_initial = s.master_initial
  BY DEF SameIds, SameRole
<1>6. OwnKnown(H, m, x)
  BY <1>1, <1>5, OwnSame
<1>7. FilesKnown(H, m, x)
  <2>1. SnapshotKnown(H, m, Snapshot(x))
    BY <1>6, SnapshotOwn
  <2> QED
    BY <1>1, <2>1 DEF FilesKnown
<1>8. LinkKnown(H, x, l) /\ StreamId(x, l) = StreamId(s, l)
  BY <1>1, <1>5, LinkSame
<1>9. MasterKnown(H, x)
  BY <1>1, <1>5 DEF MasterKnown
<1>10. ServerKnows(H, m, x, l, used.ids)
  BY <1>1, <1>5, <1>6, <1>7, <1>8, <1>9 DEF ServerKnows
<1>11. Grown(H, H) /\ used.ids <= used.ids
  BY <1>1, GrownSame
<1>12. StreamId(x, link[m]) = StreamId(srv[m], link[m]) /\ ServerKnows(H, m, x, link[m], used.ids)
  BY <1>4, <1>8, <1>10
<1> QED
  BY <1>1, <1>2, <1>3, <1>5, <1>6, <1>11, <1>12 DEF NowKnown

\* m's history begins with its first replica.
LEMMA FreshNowKnown ==
    ASSUME IInv, NEW H, Remembered(H, Running, srv, link, used.ids), NEW m \in Running,
           NEW s, s = srv[m], NEW x, SameRole(x, s), x.disk = s.disk,
           x.data = s.data, x.off = s.off, x.backlog.on, ServerOK(x),
           x.bgsave \in {s.bgsave, Snapshot(x)},
           s.masterhost = None, ~s.backlog.on, x.replid = used.ids + 1, x.replid2 = None
    PROVE  \E G : NowKnown(H, G, m, x, used.ids + 1)
<1> DEFINE l == link[m]
           i == used.ids + 1
           d == x.data
           o == x.off
<1>1. /\ H \in [Nat -> HistorySet] /\ used.ids \in Nat /\ ServerOK(s) /\ s \in ServerSet
      /\ FilesKnown(H, m, s) /\ LinkOK(m, s, l)
  BY KnowsNow
<1>2. i \in Nat /\ ~H[i].live /\ \A n \in Running : srv[n].replid # i /\ srv[n].replid \in Nat
  BY NewIdUnknown, KnowsNow
<1>3. \A id \in Nat : H[id].live => id <= used.ids
  BY DEF Remembered
<1>4. l = link[m] /\ i = used.ids + 1 /\ x.replid = i
  OBVIOUS
<1>5. d \in Seq(Writes) /\ o \in Nat /\ d = x.data /\ o = x.off
  BY ServerFields DEF ServerOK
<1>6. used.ids <= i /\ i <= i /\ \A j \in Nat : j <= used.ids => j <= i
  BY <1>1
<1> HIDE DEF l, i, d, o
<1>7. /\ x.masterhost = None /\ x.cached_master = None /\ x.repl_state = "none" /\ l.peer = None
  BY <1>1 DEF SameRole, ServerOK, LinkOK
<1>8. l.reply = None /\ l.rdb = None
  BY <1>1, <1>7 DEF LinkOK
<1>9. PICK G : G = Begun(H, i, d, o, None)
  OBVIOUS
<1>10. /\ G \in [Nat -> HistorySet] /\ Grown(H, G) /\ AllKnown(G, None, i, d, o)
       /\ G[i].seq = d /\ \A j \in Nat : j # i => G[j] = H[j]
  BY <1>1, <1>2, <1>5, <1>9, BegunFacts, SMTT(30)
<1>11. OwnKnown(G, m, x)
  BY <1>4, <1>5, <1>7, <1>10 DEF OwnKnown
<1>12. FilesKnown(G, m, x)
  <2>1. SnapshotKnown(G, m, Snapshot(x))
    BY <1>11, SnapshotOwn
  <2>2. FilesKnown(G, m, s)
    BY <1>1, <1>10, FilesGrown
  <2> QED
    BY <2>1, <2>2 DEF FilesKnown
<1>13. LinkKnown(G, x, l)
  BY <1>7, <1>8 DEF LinkKnown, SnapshotKnown, StreamKnown, Flowing
<1>14. MasterKnown(G, x)
  BY <1>4, <1>5, <1>10 DEF MasterKnown
<1>15. ServerKnows(G, m, x, link[m], i)
  BY <1>4, <1>6, <1>11, <1>12, <1>13, <1>14 DEF ServerKnows
<1>16. \A n \in Running : srv[n].slaves[m] = "none"
  BY <1>4, <1>7, OneMaster, RunningServers, ReplicationAssumption DEF IInv
<1>17. \A id \in Nat : G[id].live => id <= i
  BY <1>3, <1>6, <1>10
<1>18. \A n \in Running \ {m} : G[srv[n].replid] = H[srv[n].replid] /\ srv[n].replid # x.replid
  BY <1>2, <1>4, <1>10
<1>19. NowKnown(H, G, m, x, i)
  BY <1>2, <1>6, <1>10, <1>11, <1>15, <1>16, <1>17, <1>18 DEF NowKnown
<1> QED
  BY <1>4, <1>19

LEMMA ContinuedRemembers ==
    ASSUME IInv, NEW H, Remembered(H, Running, srv, link, used.ids), NEW r \in Running,
           NEW m, NEW x, NEW l, Continued(r, m, x, l)
    PROVE  Remembered(H, Running, srv', link', used'.ids)
<1> DEFINE c == srv[r].cached_master
           s == srv[m]
           u == srv[r]
           t == srv'[r]
<1>1. /\ Asked(r, m, x, l) /\ used' = used /\ c # None
      /\ Continues(s, c.replid, c.reploff + 1)
      /\ SameIds(x, s) /\ SameFiles(x, s) /\ x.backlog = s.backlog
      /\ l.reply # None /\ l.reply.type = "continue"
      /\ l.reply.replid = s.replid /\ l.rdb = None
      /\ l.stream = BacklogFrom(s, c.reploff + 1)
  BY DEF Continued
<1>2. /\ m \in Running /\ ServerOK(x) /\ SameRole(x, s) /\ x.data = s.data /\ x.off = s.off
      /\ x.disk = s.disk /\ t.repl_state = "psync" /\ SameIds(t, u) /\ t.data = u.data
      /\ t.off = u.off
  BY <1>1 DEF Asked
<1>3. /\ H \in [Nat -> HistorySet] /\ ServerOK(s) /\ OwnKnown(H, m, s)
      /\ ServerOK(u) /\ OwnKnown(H, r, u)
  BY <1>2, KnowsNow
<1>4. NowKnown(H, H, m, x, used.ids)
  <2>1. s = srv[m] /\ x.bgsave \in {s.bgsave, Snapshot(x)}
    BY <1>1 DEF SameFiles
  <2> HIDE DEF s, u, t, c
  <2> QED
    BY <1>1, <1>2, <2>1, SameNowKnown
<1>5. s = srv[m] /\ u = srv[r] /\ t = srv'[r] /\ c = u.cached_master
  OBVIOUS
<1> HIDE DEF s, u, t, c
<1>6. /\ AllKnown(H, None, u.replid, u.data, u.off)
      /\ u.data \o l.stream = s.data /\ u.off + Len(l.stream) = s.off
  <2>1. PICK q : q = l.stream
    OBVIOUS
  <2>2. q = BacklogFrom(s, c.reploff + 1)
    BY <1>1, <2>1
  <2>3. RestSent(H, u, s, q)
    <3>1. c = u.cached_master /\ c # None /\ Continues(s, c.replid, c.reploff + 1)
      BY <1>1, <1>5
    <3> QED
      BY <1>3, <2>2, <3>1, ContinuedData
  <2> QED
    BY <2>1, <2>3 DEF RestSent
<1>7. s.backlog.on
  BY <1>1 DEF Continues
<1>8. AllKnown(H, None, s.replid, s.data, s.off)
  BY <1>3, <1>7 DEF OwnKnown
<1>9. /\ StreamId(t, l) = s.replid /\ BaseData(t, l) = u.data /\ BaseOff(t, l) = u.off
      /\ t.replid = u.replid /\ x.replid = s.replid
  BY <1>1, <1>2 DEF StreamId, BaseData, BaseOff, SameIds
<1>10. StreamKnown(H, t, l)
  BY <1>6, <1>8, <1>9 DEF StreamKnown
<1>11. AllKnown(H, None, t.replid, t.data, t.off)
  BY <1>2, <1>6, <1>9
<1>12. LinkKnown(H, srv'[r], l) /\ StreamId(srv'[r], l) = x.replid
  BY <1>1, <1>5, <1>9, <1>10, <1>11 DEF LinkKnown, SnapshotKnown
<1>13. Remembered(H, Running, srv', link', used.ids)
  BY <1>1, <1>4, <1>12, AskedRemembers
<1> QED
  BY <1>1, <1>13

LEMMA ReadiedNowKnown ==
    ASSUME IInv, NEW H, Remembered(H, Running, srv, link, used.ids), NEW r \in Running,
           NEW m, NEW x, NEW l, Asked(r, m, x, l), Readied(m, x),
           x.bgsave \in {srv[m].bgsave, Snapshot(x)}
    PROVE  \E G : NowKnown(H, G, m, x, used'.ids)
<1> DEFINE s == srv[m]
<1>1. /\ m \in Running /\ ServerOK(x) /\ SameRole(x, s) /\ x.data = s.data /\ x.off = s.off
      /\ x.disk = s.disk /\ x.backlog.on /\ s = srv[m] /\ x.bgsave \in {s.bgsave, Snapshot(x)}
  BY DEF Asked
<1>2. /\ Fresh(s) => /\ s.masterhost = None /\ ~s.backlog.on /\ x.replid = used.ids + 1
                     /\ x.replid2 = None /\ used'.ids = used.ids + 1
      /\ ~Fresh(s) => SameIds(x, s) /\ x.backlog = s.backlog /\ used'.ids = used.ids
  BY DEF Readied
<1> HIDE DEF s
<1>3. CASE Fresh(s)
  <2>1. \E G : NowKnown(H, G, m, x, used.ids + 1)
    BY <1>1, <1>2, <1>3, FreshNowKnown
  <2> QED
    BY <1>2, <1>3, <2>1
<1>4. CASE ~Fresh(s)
  <2>1. NowKnown(H, H, m, x, used.ids)
    BY <1>1, <1>2, <1>4, SameNowKnown
  <2> QED
    BY <1>2, <1>4, <2>1
<1> QED
  BY <1>3, <1>4

LEMMA NewSaveRemembers ==
    ASSUME IInv, NEW H, Remembered(H, Running, srv, link, used.ids), NEW r \in Running,
           NEW m, NEW x, NEW l, NewSave(r, m, x, l)
    PROVE  \E G \in [Nat -> HistorySet] : Remembered(G, Running, srv', link', used'.ids)
<1> DEFINE n == [NoLink EXCEPT !.peer = m]
           snap == x.bgsave
<1>1. /\ Asked(r, m, x, l) /\ Readied(m, x) /\ snap = Snapshot(x) /\ FullySent(l, n, x, snap)
  BY DEF NewSave
<1>2. ServerOK(x) /\ x.backlog.on /\ x.bgsave \in {srv[m].bgsave, Snapshot(x)}
  BY <1>1 DEF Asked
<1> HIDE DEF n, snap
<1>3. PICK G : NowKnown(H, G, m, x, used'.ids)
  BY <1>1, <1>2, ReadiedNowKnown
<1>4. G \in [Nat -> HistorySet] /\ OwnKnown(G, m, x)
  BY <1>3 DEF NowKnown
<1>5. LinkKnown(G, srv'[r], l) /\ StreamId(srv'[r], l) = x.replid
  BY <1>1, <1>2, <1>4, FullySentKnown
<1>6. Remembered(G, Running, srv', link', used'.ids)
  BY <1>1, <1>3, <1>5, AskedRemembers
<1> QED
  BY <1>4, <1>6

LEMMA LateSaveRemembers ==
    ASSUME IInv, NEW H, Remembered(H, Running, srv, link, used.ids), NEW r \in Running,
           NEW m, NEW x, NEW l, LateSave(r, m, x, l)
    PROVE  \E G \in [Nat -> HistorySet] : Remembered(G, Running, srv', link', used'.ids)
<1>1. /\ Asked(r, m, x, l) /\ Readied(m, x) /\ x.bgsave = srv[m].bgsave
      /\ x.slaves[r] = "wait_start" /\ l.reply = None /\ l.rdb = None
  BY DEF LateSave
<1>2. srv'[r].repl_state = "psync"
  BY <1>1 DEF Asked
<1>3. PICK G : NowKnown(H, G, m, x, used'.ids)
  BY <1>1, ReadiedNowKnown
<1>4. G \in [Nat -> HistorySet]
  BY <1>3 DEF NowKnown
<1>5. LinkKnown(G, srv'[r], l)
  BY <1>1, <1>2 DEF LinkKnown, SnapshotKnown, StreamKnown, Flowing
<1>6. Remembered(G, Running, srv', link', used'.ids)
  BY <1>1, <1>3, <1>5, AskedRemembers
<1> QED
  BY <1>4, <1>6

LEMMA SharedSaveRemembers ==
    ASSUME IInv, NEW H, Remembered(H, Running, srv, link, used.ids), NEW r \in Running,
           NEW m, NEW x, NEW l, SharedSave(r, m, x, l)
    PROVE  Remembered(H, Running, srv', link', used'.ids)
<1> DEFINE s == srv[m]
           t == srv'[r]
<1>1. /\ Asked(r, m, x, l) /\ Readied(m, x) /\ ~Fresh(s) /\ x.bgsave = s.bgsave
      /\ x.slaves[r] = "wait_end" /\ l.reply # None /\ l.reply.type = "full"
      /\ l.reply.replid = s.replid /\ l.rdb = s.bgsave /\ l.rdb # None
  BY DEF SharedSave
<1>2. PICK c \in Running : s.slaves[c] = "wait_end" /\ l.stream = link[c].stream
  BY DEF SharedSave
<1>3. SameIds(x, s) /\ x.backlog = s.backlog /\ used'.ids = used.ids
  BY <1>1 DEF Readied
<1>4. /\ m \in Running /\ ServerOK(x) /\ SameRole(x, s) /\ x.data = s.data /\ x.off = s.off
      /\ x.disk = s.disk /\ x.bgsave \in {s.bgsave, Snapshot(x)}
  BY <1>1 DEF Asked
<1>5. NowKnown(H, H, m, x, used.ids)
  BY <1>3, <1>4, SameNowKnown
<1> DEFINE a == srv[c]
           k == link[c]
<1>6. LinkKnown(H, a, k)
  BY KnowsNow
<1>7. /\ k.rdb # None /\ k.rdb = s.bgsave /\ Flowing(a, k) /\ StreamId(a, k) = s.replid
  BY <1>2, <1>4 DEF IInv, Follows, Remembered, PairKnows
<1>8. l.stream = k.stream /\ t = srv'[r]
  BY <1>2
<1> HIDE DEF s, t, a, k
<1>9. /\ StreamId(t, l) = StreamId(a, k) /\ BaseData(t, l) = BaseData(a, k)
      /\ BaseOff(t, l) = BaseOff(a, k)
  BY <1>1, <1>7 DEF StreamId, BaseData, BaseOff
<1>10. StreamKnown(H, t, l)
  BY <1>6, <1>7, <1>8, <1>9 DEF LinkKnown, StreamKnown
<1>11. LinkKnown(H, t, l)
  BY <1>1, <1>6, <1>7, <1>10 DEF LinkKnown
<1>12. StreamId(t, l) = x.replid
  BY <1>3, <1>7, <1>9 DEF SameIds
<1>13. Remembered(H, Running, srv', link', used.ids)
  BY <1>1, <1>5, <1>8, <1>11, <1>12, AskedRemembers
<1> QED
  BY <1>3, <1>13

LEMMA PsyncRemembers ==
    ASSUME IInv, NEW H, Remembered(H, Running, srv, link, used.ids), NEW r \in Running, Psync(r)
    PROVE  \E G \in [Nat -> HistorySet] : Remembered(G, Running, srv', link', used'.ids)
<1> DEFINE m == srv[r].masterhost
           x == srv'[m]
           l == link'[r]
<1>1. PsyncAs(r, m, x, l)
  BY PsyncCases
<1>2. H \in [Nat -> HistorySet]
  BY DEF Remembered
<1> HIDE DEF m, x, l
<1>3. CASE Continued(r, m, x, l)
  BY <1>2, <1>3, ContinuedRemembers
<1>4. CASE NewSave(r, m, x, l)
  BY <1>4, NewSaveRemembers
<1>5. CASE SharedSave(r, m, x, l)
  BY <1>2, <1>5, SharedSaveRemembers
<1>6. CASE LateSave(r, m, x, l)
  BY <1>6, LateSaveRemembers
<1> QED
  BY <1>1, <1>3, <1>4, <1>5, <1>6 DEF PsyncAs
-----------------------------------------------------------------------------
(* The histories are there all the time. *)

LEMMA InitRemembers ==
    ASSUME Init
    PROVE  HInv
<1>1. /\ scenario \in Scenarios /\ used \in Counts /\ srv \in [Running -> ServerSet]
      /\ link = [r \in Running |-> NoLink]
  BY InitShape
<1>2. PICK id \in [Servers -> Nat] :
         /\ \A a, b \in Servers : id[a] = id[b] => a = b
         /\ \A r \in Running : /\ StartsAs(srv[r], EmptyDisk, scenario.hosts[r], id[r])
                               /\ id[r] <= used.ids
  BY InitShape
<1>3. Running \subseteq Servers
  BY <1>1, RunningServers
<1> DEFINE h == [live |-> FALSE, base |-> 0, seq |-> <<>>, owner |-> None]
<1>4. h \in HistorySet /\ ~h.live
  BY DEF HistorySet
<1> HIDE DEF h
<1>5. PICK H : H = [i \in Nat |-> h]
  OBVIOUS
<1>6. H \in [Nat -> HistorySet] /\ \A i \in Nat : ~H[i].live
  BY <1>4, <1>5
<1>7. ~EmptyDisk.info
  BY DEF EmptyDisk
<1>8. ASSUME NEW r \in Running
      PROVE  /\ srv[r].replid = id[r] /\ ServerKnows(H, r, srv[r], link[r], used.ids)
             /\ \A q \in Servers : srv[r].slaves[q] = "none"
  <2> DEFINE s == srv[r]
  <2>1. /\ StartsAs(s, EmptyDisk, scenario.hosts[r], id[r]) /\ id[r] <= used.ids
        /\ id[r] \in Nat
    BY <1>2, <1>3
  <2>2. link[r] = NoLink
    BY <1>1
  <2> HIDE DEF s
  <2>3. /\ s.repl_state \in {"none", "connect"} /\ ~s.backlog.on /\ s.cached_master = None
        /\ s.disk = EmptyDisk /\ s.bgsave = None /\ s.replid = id[r]
        /\ \A q \in Servers : s.slaves[q] = "none"
    BY <1>7, <2>1 DEF StartsAs
  <2>4. OwnKnown(H, r, s)
    BY <2>3 DEF OwnKnown
  <2>5. FilesKnown(H, r, s)
    BY <1>7, <2>3 DEF FilesKnown, SnapshotKnown
  <2>6. LinkKnown(H, s, link[r])
    BY <2>2, <2>3, NoLinkKnown
  <2>7. MasterKnown(H, s)
    BY <1>6, <2>1, <2>3 DEF MasterKnown
  <2>8. ServerKnows(H, r, s, link[r], used.ids)
    BY <2>1, <2>3, <2>4, <2>5, <2>6, <2>7 DEF ServerKnows
  <2> QED
    BY <2>3, <2>8 DEF s
<1>9. ASSUME NEW m \in Running, NEW r \in Running
      PROVE  PairKnows(m, srv[m], r, srv[r], link[r])
  <2>1. m # r => srv[m].replid # srv[r].replid
    BY <1>2, <1>3, <1>8
  <2>2. srv[m].slaves[r] = "none"
    BY <1>3, <1>8
  <2> QED
    BY <2>1, <2>2 DEF PairKnows
<1>10. Remembered(H, Running, srv, link, used.ids)
  BY <1>6, <1>8, <1>9 DEF Remembered
<1> QED
  BY <1>6, <1>10 DEF HInv

\* A step that is remembered in some histories.
LEMMA StepRemembers ==
    ASSUME scenario' = scenario,
           \E G \in [Nat -> HistorySet] : Remembered(G, Running, srv', link', used'.ids)
    PROVE  HInv'
<1>1. Running' = Running
  BY DEF Running
<1>2. PICK G \in [Nat -> HistorySet] : Remembered(G, Running, srv', link', used'.ids)
  OBVIOUS
<1>3. Remembered(G, Running, srv, link, used.ids)'
  BY <1>1, <1>2 DEF Remembered
<1> QED
  BY <1>3 DEF HInv

LEMMA NextRemembers == IInv /\ IInv' /\ HInv /\ [Next]_vars => HInv'
<1> SUFFICES ASSUME IInv, IInv', HInv, [Next]_vars PROVE HInv'
  OBVIOUS
<1>1. PICK H \in [Nat -> HistorySet] : Remembered(H, Running, srv, link, used.ids)
  BY DEF HInv
<1>2. CASE UNCHANGED vars
  <2>1. scenario' = scenario /\ srv' = srv /\ link' = link /\ used' = used
    BY <1>2 DEF vars
  <2>2. Remembered(H, Running, srv', link', used'.ids)
    BY <1>1, <2>1
  <2> QED
    BY <2>1, <2>2, StepRemembers
<1>3. CASE Next
  <2>1. scenario' = scenario
    BY <1>3 DEF Next
  <2>2. PICK s \in Running :
            \/ Write(s) \/ Psync(s) \/ Receive(s) \/ LinkLost(s) \/ LinkClosed(s)
            \/ Save(s) \/ (\E ok \in BOOLEAN : BgsaveDone(s, ok))
            \/ FreeBacklog(s) \/ LoadFails(s) \/ Restart(s)
            \/ replicationUnsetMaster(s)
            \/ \E m \in Running \ {s} : replicationSetMaster(s, m)
    BY <1>3 DEF Next
  <2>3. \E G \in [Nat -> HistorySet] : Remembered(G, Running, srv', link', used'.ids)
    <3>1. CASE Write(s)
      BY <1>1, <3>1, WriteRemembers
    <3>2. CASE Psync(s)
      BY <1>1, <3>2, PsyncRemembers
    <3>3. CASE Receive(s)
      <4>1. used' = used
        BY <3>3 DEF Receive
      <4>2. CASE ReceiveContinue(s)
        BY <1>1, <4>1, <4>2, ReceiveContinueRemembers
      <4>3. CASE ReceiveFull(s)
        BY <1>1, <4>1, <4>3, ReceiveFullRemembers
      <4>4. CASE ReceiveSnapshot(s)
        BY <1>1, <4>1, <4>4, ReceiveSnapshotRemembers
      <4>5. CASE ReceiveWrite(s)
        BY <1>1, <4>1, <4>5, ReceiveWriteRemembers
      <4> QED
        BY <3>3, <4>2, <4>3, <4>4, <4>5 DEF Receive
    <3>4. CASE LinkLost(s)
      <4>1. Disconnect(s) /\ used'.ids = used.ids
        BY <3>4 DEF LinkLost, IInv, Counts
      <4> QED
        BY <1>1, <4>1, DisconnectRemembers
    <3>5. CASE LinkClosed(s)
      <4>1. Disconnect(s) /\ used'.ids = used.ids
        BY <3>5 DEF LinkClosed
      <4> QED
        BY <1>1, <4>1, DisconnectRemembers
    <3>6. CASE Save(s)
      BY <1>1, <3>6, SaveRemembers
    <3>7. CASE \E ok \in BOOLEAN : BgsaveDone(s, ok)
      BY <1>1, <3>7, BgsaveDoneRemembers
    <3>8. CASE FreeBacklog(s)
      BY <1>1, <3>8, FreeBacklogRemembers
    <3>9. CASE LoadFails(s)
      BY <1>1, <3>9, LoadFailsRemembers
    <3>10. CASE Restart(s)
      BY <1>1, <3>10, RestartRemembers
    <3>11. CASE replicationUnsetMaster(s)
      BY <1>1, <3>11, UnsetMasterRemembers
    <3>12. CASE \E m \in Running \ {s} : replicationSetMaster(s, m)
      BY <1>1, <3>12, SetMasterRemembers
    <3> QED
      BY <2>2, <3>1, <3>2, <3>3, <3>4, <3>5, <3>6, <3>7, <3>8, <3>9, <3>10, <3>11, <3>12
  <2> QED
    BY <2>1, <2>3, StepRemembers
<1> QED
  BY <1>2, <1>3

\* At every time there are histories, one per replication ID, of which all that the
\* servers, their snapshots and their links hold under an ID is a beginning.
THEOREM HistoriesKept == Spec => []HInv
<1>1. Init => IInv /\ HInv
  BY InitIInv, InitRemembers
<1>2. IInv /\ HInv /\ [Next]_vars => (IInv /\ HInv)'
  BY NextKeeps, NextRemembers
<1> QED
  BY <1>1, <1>2, PTL DEF Spec

\* What is on its way to an attached replica ends where its master's data set ends.
LEMMA HistoriesFollow == IInv /\ HInv => ReplicaFollows
<1> SUFFICES ASSUME IInv, HInv, NEW r \in Running, Attached(r)
             PROVE  Ahead(r) = srv[link[r].peer].data
  BY DEF ReplicaFollows
<1> DEFINE m == link[r].peer
           x == srv[m]
           s == srv[r]
           l == link[r]
<1>1. PICK H \in [Nat -> HistorySet] : Remembered(H, Running, srv, link, used.ids)
  BY DEF HInv
<1>2. ServerOK(s) /\ LinkOK(r, s, l) /\ LinkKnown(H, s, l)
  BY <1>1, KnowsNow
<1>3. m # None /\ x.slaves[r] \in {"wait_end", "online"}
  BY DEF Attached
<1>4. m \in Running
  <2>1. m = s.masterhost /\ s.masterhost \in Running \cup {None}
    BY <1>2, <1>3 DEF LinkOK, IInv
  <2> QED
    BY <1>3, <2>1
<1>5. Flowing(s, l) /\ BaseOff(s, l) + Len(l.stream) = x.off /\ StreamId(s, l) = x.replid
  BY <1>1, <1>3, <1>4 DEF IInv, Follows, Remembered, PairKnows
<1>6. ServerOK(x) /\ OwnKnown(H, m, x) /\ x.replid \in Nat /\ x.data \in Seq(Writes)
  BY <1>1, <1>4, KnowsNow, ServerFields
<1>7. x.backlog.on
  BY <1>3, <1>6, RunningServers DEF ServerOK, Slaves, IInv
<1>8. AllKnown(H, None, x.replid, x.data, x.off)
  BY <1>6, <1>7 DEF OwnKnown
<1>9. Ahead(r) = BaseData(s, l) \o l.stream
  BY DEF Ahead, BaseData
<1> DEFINE e == BaseData(s, l) \o l.stream
<1>10. e \in Seq(Writes)
  BY <1>2, StreamTypes
<1>11. AllKnown(H, None, x.replid, e, x.off)
  BY <1>2, <1>5 DEF LinkKnown, StreamKnown
<1> HIDE DEF e, x, s, l
<1>12. e = x.data
  BY <1>6, <1>8, <1>10, <1>11, KnownEqual
<1> QED
  BY <1>9, <1>12 DEF e, x, m

\* A replica never diverges unnoticed, for any servers, any backlog size and any
\* number of writes, role changes, faults and restarts: partial resynchronization
\* sends exactly what the replica lacks, or a snapshot is sent instead
\* (masterTryPartialResynchronization(), syncCommand(), shiftReplicationId()).
THEOREM ReplicasNeverDiverge == Spec => []ReplicaFollows
  BY Invariance, HistoriesKept, HistoriesFollow, PTL
==============================================================================
