--------------------------- MODULE WebServerProofs ---------------------------
(***************************************************************************)
(* Theorems about WebServer for any descriptors, workers, limits and       *)
(* tokens.  Only the last one looks into what read() and process() do with *)
(* a connection.                                                           *)
(***************************************************************************)
EXTENDS WebServer, HttpConnProofs

\* Worker w is inside process() and may still touch its connection.
Busy(w) == stage[w] \in {"parse", "modfd"}

\* An event in the batch is the only hold on its connection.
BatchHands ==
    /\ \A e \in batch : e.fd \in open \cup {listenfd} /\ e.fd \notin armed
    /\ \A d, e \in batch : d.fd = e.fd => d = e

\* A place in the queue is the only hold on its connection.
QueueHands ==
    /\ \A i \in DOMAIN m_workqueue :
         /\ m_workqueue[i] \in open /\ m_workqueue[i] \notin armed
         /\ \A e \in batch : e.fd # m_workqueue[i]
    /\ \A i, j \in DOMAIN m_workqueue : m_workqueue[i] = m_workqueue[j] => i = j

\* A worker inside process() is the only hold on its connection.
WorkerHands ==
    /\ \A w \in Workers : Busy(w) =>
         /\ running[w] \in open /\ running[w] \notin armed
         /\ \A e \in batch : e.fd # running[w]
         /\ \A i \in DOMAIN m_workqueue : m_workqueue[i] # running[w]
    /\ \A v, w \in Workers : Busy(v) /\ Busy(w) /\ running[v] = running[w] => v = w

Hands == BatchHands /\ QueueHands /\ WorkerHands

IInv == TypeOK /\ NeverUndercounts /\ Hands
-----------------------------------------------------------------------------
\* What append() and the pop of run() do to the places of the queue.
LEMMA QueueFacts ==
    ASSUME NEW q \in Seq(Fds), NEW r \in Fds
    PROVE  /\ Append(q, r) \in Seq(Fds)
           /\ \A i \in DOMAIN Append(q, r) :
                \/ i \in DOMAIN q /\ Append(q, r)[i] = q[i]
                \/ i = Len(q) + 1 /\ Append(q, r)[i] = r
           /\ q # <<>> => /\ Head(q) \in Fds /\ Tail(q) \in Seq(Fds)
                          /\ 1 \in DOMAIN q /\ Head(q) = q[1]
                          /\ \A i \in DOMAIN Tail(q) :
                               /\ i \in Nat /\ i > 0 /\ i + 1 \in DOMAIN q
                               /\ Tail(q)[i] = q[i + 1]
  OBVIOUS

\* Opening or closing one descriptor moves the number of open ones by one.
LEMMA OpenFacts ==
    ASSUME NEW S \in SUBSET Fds
    PROVE  /\ Cardinality(S) \in Nat
           /\ \A fd \in Fds \ S : Cardinality(S \cup {fd}) = Cardinality(S) + 1
           /\ \A fd \in S : /\ Cardinality(S \ {fd}) = Cardinality(S) - 1
                            /\ Cardinality(S) > 0
<1>1. IsFiniteSet(S)
  BY ServerAssumption, FS_Subset
<1>2. \A fd \in S : Cardinality(S \ {fd}) \in Nat
  BY <1>1, FS_Subset, FS_CardinalityType
<1> QED
  BY <1>1, <1>2, FS_CardinalityType, FS_AddElement, FS_RemoveElement

\* Initially there is no connection.
LEMMA InitIInv == Init => IInv
<1> SUFFICES ASSUME Init PROVE IInv
  OBVIOUS
<1> USE ServerAssumption DEF Init, Pool!Init
<1>1. TypeOK
  <2>1. rx \in [Fds -> Seq(Tokens)]
    OBVIOUS
  <2>2. DOMAIN users = Fds
    OBVIOUS
  <2>3. /\ m_workqueue \in Seq(Fds)
        /\ running \in [Workers -> Fds \cup {Idle}]
        /\ stage \in [Workers -> {"wait", "parse", "modfd", "return"}]
        /\ \A w \in Workers : running[w] = Idle /\ stage[w] = "wait"
    OBVIOUS
  <2>4. listenEdge \in BOOLEAN
    OBVIOUS
  <2>5. batch \subseteq [fd : Fds \cup {listenfd}, kind : {"IN", "HUP"}]
    OBVIOUS
  <2>6. backlog \in 0..MaxBacklog /\ m_user_count \in 0..MAX_FD
    OBVIOUS
  <2>7. /\ mode \in {"serving", "exited", "crashed"}
        /\ peerGone \subseteq open /\ armed \subseteq open /\ open \subseteq Fds
    OBVIOUS
  <2> HIDE DEF Init
  <2> QED
    BY <2>1, <2>2, <2>3, <2>4, <2>5, <2>6, <2>7 DEF TypeOK
<1>2. NeverUndercounts
  BY FS_EmptySet DEF NeverUndercounts
<1>3. Hands
  BY DEF Hands, BatchHands, QueueHands, WorkerHands, Busy
<1> QED
  BY <1>1, <1>2, <1>3 DEF IInv
-----------------------------------------------------------------------------
\* close_conn() on a connection of the batch leaves no hold on its descriptor.
LEMMA CloseKeeps ==
    ASSUME IInv, NEW fd \in Fds, NEW kind \in {"IN", "HUP"}, Event(fd, kind) \in batch,
           batch' = batch \ {Event(fd, kind)}, CloseConn(fd), DOMAIN users' = Fds,
           UNCHANGED <<mode, backlog, listenEdge, pool>>
    PROVE  IInv'
<1> USE ServerAssumption DEF IInv
<1>1. /\ fd \in open /\ fd \notin armed
      /\ \A e \in batch' : e \in batch /\ e.fd # fd
      /\ \A i \in DOMAIN m_workqueue : m_workqueue[i] # fd
      /\ \A w \in Workers : Busy(w) => running[w] # fd
  <2>1. Event(fd, kind).fd = fd
    BY DEF Event
  <2>2. fd \in open
    BY <2>1 DEF Hands, BatchHands
  <2> QED
    BY <2>1, <2>2 DEF Hands, BatchHands, QueueHands, WorkerHands
<1>2. /\ open' = open \ {fd} /\ armed' = armed \ {fd}
      /\ m_user_count' = m_user_count - 1
      /\ rx' = [rx EXCEPT ![fd] = <<>>] /\ peerGone' = peerGone \ {fd}
  BY <1>1 DEF CloseConn, removefd
<1>3. NeverUndercounts' /\ m_user_count' \in 0..MAX_FD
  <2>1. open \in SUBSET Fds /\ m_user_count \in 0..MAX_FD
    BY DEF TypeOK
  <2>2. /\ Cardinality(open) \in Nat /\ Cardinality(open) > 0
        /\ Cardinality(open') = Cardinality(open) - 1
    BY <1>1, <1>2, <2>1, OpenFacts
  <2> QED
    BY <1>2, <2>1, <2>2 DEF NeverUndercounts
<1>4. TypeOK'
  BY <1>1, <1>2, <1>3 DEF TypeOK, pool
<1>5. BatchHands'
  BY <1>1, <1>2 DEF Hands, BatchHands
<1>6. QueueHands'
  BY <1>1, <1>2 DEF Hands, QueueHands, pool
<1>7. WorkerHands'
  BY <1>1, <1>2 DEF Hands, WorkerHands, Busy, pool
<1> QED
  BY <1>3, <1>4, <1>5, <1>6, <1>7 DEF Hands

\* Every step keeps the inductive invariant.
LEMMA NextIInv == IInv /\ [Next]_vars => IInv'
<1> SUFFICES ASSUME IInv, [Next]_vars PROVE IInv'
  OBVIOUS
<1> USE ServerAssumption
<1> USE DEF IInv, TypeOK, NeverUndercounts, Hands, BatchHands, QueueHands, WorkerHands, Busy
<1>0. CASE UNCHANGED vars
  BY <1>0 DEF vars, kernel, conns, pool
<1>1. CASE Connect \/ EpollFailure
  <2>1. CASE Connect
    BY <2>1 DEF Connect, conns, pool
  <2>2. CASE EpollFailure
    BY <2>2 DEF EpollFailure, kernel, conns, pool
  <2> QED
    BY <1>1, <2>1, <2>2
<1>2. ASSUME NEW fd \in Fds, NEW t \in Tokens, Send(fd, t) PROVE IInv'
  BY <1>2 DEF Send, conns, pool
<1>3. ASSUME NEW fd \in Fds, Hangup(fd) PROVE IInv'
  BY <1>3 DEF Hangup, conns, pool
<1>4. CASE EpollWait
  <2>1. \A e \in batch' : /\ e \in [fd : Fds \cup {listenfd}, kind : {"IN", "HUP"}]
                          /\ e.fd \in armed \cup {listenfd}
    BY <1>4 DEF EpollWait, Ready, ListenEvent, Event
  <2>2. \A d, e \in batch' : d.fd = e.fd => d = e
    BY <1>4 DEF EpollWait, Ready, ListenEvent, Event
  <2>3. armed' \subseteq armed /\ \A e \in batch' : e.fd \notin armed'
    BY <1>4 DEF EpollWait, ArmedAfter
  <2>4. UNCHANGED <<mode, backlog, rx, peerGone, conns, pool>> /\ batch = {}
        /\ listenEdge' \in BOOLEAN
    BY <1>4 DEF EpollWait
  <2>5. TypeOK' /\ NeverUndercounts'
    BY <2>1, <2>3, <2>4 DEF conns, pool
  <2>6. BatchHands'
    BY <2>1, <2>2, <2>3, <2>4 DEF conns
  <2>7. QueueHands'
    <3>1. UNCHANGED <<open, m_workqueue>>
      BY <2>4 DEF conns, pool
    <3> QED
      BY <2>1, <2>3, <3>1
  <2>8. WorkerHands'
    <3>1. UNCHANGED <<open, m_workqueue, running, stage>>
      BY <2>4 DEF conns, pool
    <3> QED
      BY <2>1, <2>3, <3>1
  <2> QED
    BY <2>5, <2>6, <2>7, <2>8
<1>5. CASE AcceptClient
  <2>1. PICK fd \in Free : /\ mode' \in AfterStore(fd) /\ open' = open \cup {fd}
                           /\ armed' = armed \cup {fd} /\ users' = [users EXCEPT ![fd] = init(@)]
    BY <1>5 DEF AcceptClient, addfd
  <2>2. Cardinality(open') = Cardinality(open) + 1 /\ Cardinality(open) \in Nat
    BY <2>1, OpenFacts DEF Free
  <2> QED
    BY <1>5, <2>1, <2>2 DEF AcceptClient, AfterStore, Free, Take, ListenEvent, Event, Counted, Full, pool
<1>6. CASE AcceptFails
  BY <1>6, OpenFacts DEF AcceptFails, AfterStore, Take, ListenEvent, Event, Counted, Full, kernel, pool
<1>7. CASE AcceptFull
  BY <1>7 DEF AcceptFull, Take, ListenEvent, Event, conns, pool
<1>8. ASSUME NEW fd \in Fds, HandleHup(fd) PROVE IInv'
  BY <1>8, CloseKeeps DEF HandleHup, Take
<1>9. ASSUME NEW fd \in Fds, HandleInCloses(fd) PROVE IInv'
  BY <1>9, CloseKeeps DEF HandleInCloses, Take
<1>10. ASSUME NEW fd \in Fds, HandleInReads(fd) PROVE IInv'
  <2>1. /\ Event(fd, "IN") \in batch /\ batch' = batch \ {Event(fd, "IN")}
        /\ Event(fd, "IN").fd = fd
        /\ UNCHANGED <<mode, backlog, listenEdge, peerGone, armed, open, m_user_count, stage, running>>
    BY <1>10 DEF HandleInReads, Take, Event, AppendConn, Pool!Submit
  <2>2. fd \in open /\ fd \notin armed /\ \A e \in batch' : e.fd # fd
    BY <2>1
  <2>3. /\ rx' \in [Fds -> Seq(Tokens)] /\ DOMAIN users' = Fds
    BY <1>10 DEF HandleInReads
  <2>4. CASE m_workqueue' = m_workqueue
    BY <2>1, <2>3, <2>4
  <2>5. CASE m_workqueue' = Append(m_workqueue, fd)
    <3>1. /\ m_workqueue' \in Seq(Fds)
          /\ \A i \in DOMAIN m_workqueue' :
               \/ i \in DOMAIN m_workqueue /\ m_workqueue'[i] = m_workqueue[i]
               \/ i = Len(m_workqueue) + 1 /\ m_workqueue'[i] = fd
      BY <2>5, QueueFacts
    <3>2. TypeOK' /\ NeverUndercounts'
      BY <2>1, <2>3, <3>1
    <3>3. BatchHands'
      BY <2>1
    <3>4. /\ \A i \in DOMAIN m_workqueue : m_workqueue[i] # fd
          /\ \A w \in Workers : Busy(w) => running[w] # fd
      BY <2>1
    <3>5. QueueHands'
      BY <2>1, <2>2, <3>1, <3>4, SMTT(30)
    <3>6. WorkerHands'
      BY <2>1, <2>2, <3>1, <3>4
    <3> QED
      BY <3>2, <3>3, <3>5, <3>6
  <2> QED
    BY <1>10, <2>4, <2>5 DEF HandleInReads, AppendConn, Pool!Submit
<1>11. ASSUME NEW w \in Workers, WorkerTakes(w) PROVE IInv'
  BY <1>11, QueueFacts DEF WorkerTakes, Pool!Start, kernel, conns
<1>12. ASSUME NEW w \in Workers, WorkerParses(w) PROVE IInv'
  BY <1>12, SMTT(30) DEF WorkerParses, kernel
<1>13. ASSUME NEW w \in Workers, WorkerRearms(w) PROVE IInv'
  BY <1>13 DEF WorkerRearms, modfd, conns
<1>14. ASSUME NEW w \in Workers, WorkerReturns(w) PROVE IInv'
  BY <1>14 DEF WorkerReturns, Pool!Finish, kernel, conns
<1> QED
  BY <1>0, <1>1, <1>2, <1>3, <1>4, <1>5, <1>6, <1>7, <1>8, <1>9, <1>10, <1>11, <1>12, <1>13, <1>14
     DEF Next, MainStep, WorkerStep, Ended
-----------------------------------------------------------------------------
\* The inductive invariant holds in every reachable state.
THEOREM Invariance == Spec => []IInv
<1> QED
  BY InitIInv, NextIInv, PTL DEF Spec

\* Type correctness of the server's state.
THEOREM TypeCorrect == Spec => []TypeOK
<1>1. IInv => TypeOK
  BY DEF IInv
<1> QED
  BY <1>1, Invariance, PTL

\* m_user_count is at least the number of open connections and at most MAX_FD,
\* however many accepts fail.
THEOREM CountIsSafe == Spec => []NeverUndercounts
<1>1. IInv => NeverUndercounts
  BY DEF IInv
<1> QED
  BY <1>1, Invariance, PTL

\* Two holds on a connection are the same hold, and a closed one has none.
LEMMA HandsExclude == IInv => OneHolder
<1> SUFFICES ASSUME IInv, NEW fd \in Fds
             PROVE  /\ fd \notin open => Holders(fd) = {}
                    /\ \A g, h \in Holders(fd) : g = h
  BY DEF OneHolder
<1> USE ServerAssumption DEF IInv, TypeOK, Hands
<1> DEFINE InEpoll(h) == h = <<"epoll", 0>> /\ fd \in armed
           InBatch(h) == \E e \in batch : e.fd = fd /\ h = <<"batch", e.kind>>
           InQueue(h) == \E i \in DOMAIN m_workqueue : m_workqueue[i] = fd /\ h = <<"queue", i>>
           AtWorker(h) == \E w \in Workers : running[w] = fd /\ Busy(w) /\ h = <<"worker", w>>
<1>1. \A h \in Holders(fd) : InEpoll(h) \/ InBatch(h) \/ InQueue(h) \/ AtWorker(h)
  BY DEF Holders, Busy
<1>2. \A h : InEpoll(h) \/ InBatch(h) \/ InQueue(h) \/ AtWorker(h) => fd \in open
  BY DEF BatchHands, QueueHands, WorkerHands
<1>3. ASSUME NEW g \in Holders(fd), NEW h \in Holders(fd) PROVE g = h
  <2>1. CASE InEpoll(g)
    BY <1>1, <2>1 DEF BatchHands, QueueHands, WorkerHands
  <2>2. CASE InBatch(g)
    BY <1>1, <2>2 DEF BatchHands, QueueHands, WorkerHands
  <2>3. CASE InQueue(g)
    BY <1>1, <2>3 DEF QueueHands, WorkerHands
  <2>4. CASE AtWorker(g)
    BY <1>1, <2>4 DEF QueueHands, WorkerHands
  <2> QED
    BY <1>1, <2>1, <2>2, <2>3, <2>4
<1>4. fd \notin open => Holders(fd) = {}
  BY <1>1, <1>2
<1> QED
  BY <1>3, <1>4

\* The main thread and the workers never hold the same connection at once, and
\* a descriptor handed out again carries nothing of its last connection.
THEOREM Exclusive == Spec => []OneHolder
<1> QED
  BY Invariance, HandsExclude, PTL
-----------------------------------------------------------------------------
(* No connection is forgotten. *)

\* Somebody is going to look at connection fd.
Held(fd) ==
    \/ fd \in armed
    \/ \E e \in batch : e.fd = fd
    \/ \E i \in DOMAIN m_workqueue : m_workqueue[i] = fd
    \/ \E w \in Workers : Busy(w) /\ running[w] = fd

AllUnparsed == \A fd \in Fds : Unparsed(users[fd], Tokens)
AllHeld == \A fd \in open : Held(fd)

\* While the server runs no object has got beyond its first line, so that
\* process() always re-arms it.
Cared == mode = "serving" => AllUnparsed /\ AllHeld

\* A queue of distinct descriptors that lacks one of them has room in the pool.
LEMMA QueueHasRoom ==
    ASSUME NEW q \in Seq(Fds), \A i, j \in DOMAIN q : q[i] = q[j] => i = j,
           NEW fd \in Fds, \A i \in DOMAIN q : q[i] # fd,
           Cardinality(Fds) <= m_max_requests + 1
    PROVE  ~(Len(q) > m_max_requests)
<1> SUFFICES ASSUME Len(q) > m_max_requests PROVE FALSE
  OBVIOUS
<1>1. /\ IsFiniteSet(Fds \ {fd}) /\ Cardinality(Fds \ {fd}) = Cardinality(Fds) - 1
      /\ Cardinality(Fds) \in Nat
  BY ServerAssumption, FS_RemoveElement, FS_CardinalityType
<1>2. IsFiniteSet(1..Len(q)) /\ Cardinality(1..Len(q)) = Len(q)
  <2>1. PICK n \in Nat : n = Len(q)
    OBVIOUS
  <2>2. IsFiniteSet(1..n) /\ Cardinality(1..n) = n
    BY FS_Interval
  <2> QED
    BY <2>1, <2>2, Zenon
<1> DEFINE f == [i \in 1..Len(q) |-> q[i]]
<1>3. f \in [1..Len(q) -> Fds \ {fd}]
  OBVIOUS
<1>4. Cardinality(1..Len(q)) > Cardinality(Fds \ {fd})
  BY <1>1, <1>2, ServerAssumption
<1>5. \E i, j \in 1..Len(q) : i # j /\ f[i] = f[j]
  <2> HIDE DEF f
  <2> QED
    BY <1>1, <1>2, <1>3, <1>4, FS_PigeonHole
<1> QED
  BY <1>5

\* Initially there is no connection to care for.
LEMMA InitCared == Init => Cared
<1>1. Unparsed(RawConn(0), Tokens)
  BY InitUnparsed
<1> QED
  BY <1>1 DEF Init, Cared, AllUnparsed, AllHeld

\* close_conn() on a connection of the batch leaves the others as they are held.
LEMMA CloseHeld ==
    ASSUME IInv, AllHeld, NEW fd \in Fds, NEW kind, Event(fd, kind) \in batch,
           batch' = batch \ {Event(fd, kind)}, CloseConn(fd), UNCHANGED pool
    PROVE  AllHeld'
<1>1. Event(fd, kind).fd = fd
  BY DEF Event
<1>2. fd \in open
  BY <1>1, ServerAssumption DEF IInv, Hands, BatchHands
<1>3. open' = open \ {fd} /\ armed' = armed \ {fd}
  BY <1>2 DEF CloseConn, removefd
<1>4. \A e \in batch : e.fd # fd => e \in batch'
  BY <1>1
<1>5. m_workqueue' = m_workqueue /\ running' = running /\ stage' = stage
  BY DEF pool
<1> QED
  BY <1>3, <1>4, <1>5 DEF AllHeld, Held, Busy

\* read() leaves a connection unparsed.
LEMMA ReadKeepsUnparsed ==
    ASSUME TypeOK, AllUnparsed, NEW fd \in Fds,
           NEW o \in read(users[fd], rx[fd], fd \in peerGone),
           users' = [users EXCEPT ![fd] = o.conn]
    PROVE  AllUnparsed'
<1>1. Unparsed(users[fd], Tokens) /\ rx[fd] \in Seq(Tokens)
  BY DEF TypeOK, AllUnparsed
<1>2. (fd \in peerGone) \in BOOLEAN
  OBVIOUS
<1>3. \A eof \in BOOLEAN : \A q \in read(users[fd], rx[fd], eof) :
          HasRead(q, users[fd], rx[fd], Tokens)
  BY <1>1, ReadUnparsed, Zenon
<1>4. HasRead(o, users[fd], rx[fd], Tokens)
  BY <1>2, <1>3, Zenon
<1>5. Unparsed(o.conn, Tokens)
  BY <1>4, Zenon DEF HasRead
<1>6. \A f \in Fds : users'[f] = IF f = fd THEN o.conn ELSE users[f]
  BY DEF TypeOK
<1> QED
  BY <1>5, <1>6 DEF AllUnparsed

\* Every step keeps the connections cared for.
LEMMA NextCared ==
    ASSUME Cardinality(Fds) <= m_max_requests + 1, IInv, Cared, [Next]_vars
    PROVE  Cared'
<1>0. TypeOK /\ Hands
  BY DEF IInv
<1>1. CASE UNCHANGED vars
  BY <1>1 DEF vars, kernel, conns, pool, Cared, AllUnparsed, AllHeld, Held, Busy
<1>2. CASE Connect
  <2>1. AllUnparsed /\ AllHeld /\ UNCHANGED <<armed, batch, conns, pool>>
    BY <1>2 DEF Connect, Cared
  <2> QED
    BY <2>1 DEF conns, pool, Held, Busy, Cared, AllUnparsed, AllHeld
<1>3. ASSUME NEW fd \in Fds, NEW t \in Tokens, Send(fd, t) PROVE Cared'
  <2>1. AllUnparsed /\ AllHeld /\ UNCHANGED <<armed, batch, conns, pool>>
    BY <1>3 DEF Send, Cared
  <2> QED
    BY <2>1 DEF conns, pool, Held, Busy, Cared, AllUnparsed, AllHeld
<1>4. ASSUME NEW fd \in Fds, Hangup(fd) PROVE Cared'
  <2>1. AllUnparsed /\ AllHeld /\ UNCHANGED <<armed, batch, conns, pool>>
    BY <1>4 DEF Hangup, Cared
  <2> QED
    BY <2>1 DEF conns, pool, Held, Busy, Cared, AllUnparsed, AllHeld
<1>5. CASE EpollFailure
  BY <1>5 DEF EpollFailure, Cared
<1>6. CASE EpollWait
  <2>1. /\ AllUnparsed /\ AllHeld /\ UNCHANGED <<conns, pool>> /\ batch = {}
        /\ armed' = {fd \in armed : \A e \in batch' : e.fd # fd}
    BY <1>6 DEF EpollWait, ArmedAfter, Cared
  <2> QED
    BY <2>1 DEF conns, pool, Held, Busy, Cared, AllUnparsed, AllHeld
<1>7. CASE AcceptClient
  <2>1. PICK fd \in Fds :
            /\ open' = open \cup {fd} /\ armed' = armed \cup {fd}
            /\ users' = [users EXCEPT ![fd] = init(users[fd])]
    BY <1>7 DEF AcceptClient, addfd, Free
  <2>2. /\ AllUnparsed /\ AllHeld /\ UNCHANGED pool
        /\ batch' = batch \ {ListenEvent}
    BY <1>7 DEF AcceptClient, Take, Cared
  <2>3. AllUnparsed'
    <3>1. Unparsed(init(users[fd]), Tokens)
      <4>1. users[fd] \in Conns(Tokens)
        BY <2>2 DEF AllUnparsed, Unparsed
      <4> QED
        BY <4>1, InitUnparsed
    <3>2. \A f \in Fds : users'[f] = IF f = fd THEN init(users[fd]) ELSE users[f]
      BY <1>0, <2>1 DEF TypeOK
    <3> QED
      BY <2>2, <3>1, <3>2 DEF AllUnparsed
  <2>4. AllHeld'
    <3>1. \A e \in batch : e.fd # listenfd => e \in batch'
      BY <2>2 DEF ListenEvent, Event
    <3>2. listenfd \notin open
      BY <1>0, ServerAssumption DEF TypeOK
    <3> QED
      BY <2>1, <2>2, <3>1, <3>2 DEF pool, AllHeld, Held, Busy
  <2> QED
    BY <2>3, <2>4 DEF Cared
<1>8. CASE AcceptFails \/ AcceptFull
  <2>1. /\ AllUnparsed /\ AllHeld /\ UNCHANGED <<armed, users, open, pool>>
        /\ batch' = batch \ {ListenEvent}
    BY <1>8 DEF AcceptFails, AcceptFull, Take, Cared, kernel, conns
  <2>2. \A e \in batch : e.fd # listenfd => e \in batch'
    BY <2>1 DEF ListenEvent, Event
  <2>3. listenfd \notin open
    BY <1>0, ServerAssumption DEF TypeOK
  <2> QED
    BY <2>1, <2>2, <2>3 DEF pool, Cared, AllUnparsed, AllHeld, Held, Busy
<1>9. ASSUME NEW fd \in Fds, HandleHup(fd) PROVE Cared'
  <2>1. AllUnparsed /\ AllHeld
    BY <1>9 DEF HandleHup, Take, Cared
  <2>2. AllHeld'
    BY <1>9, <2>1, CloseHeld DEF HandleHup, Take
  <2> QED
    BY <1>9, <2>1, <2>2 DEF HandleHup, Cared, AllUnparsed
<1>10. ASSUME NEW fd \in Fds, HandleInCloses(fd) PROVE Cared'
  <2>1. AllUnparsed /\ AllHeld
    BY <1>10 DEF HandleInCloses, Take, Cared
  <2>2. AllHeld'
    BY <1>10, <2>1, CloseHeld DEF HandleInCloses, Take
  <2>3. PICK o \in read(users[fd], rx[fd], fd \in peerGone) :
            users' = [users EXCEPT ![fd] = o.conn]
    BY <1>10, Zenon DEF HandleInCloses
  <2>4. AllUnparsed'
    BY <1>0, <2>1, <2>3, ReadKeepsUnparsed
  <2> QED
    BY <2>2, <2>4 DEF Cared
<1>11. ASSUME NEW fd \in Fds, HandleInReads(fd) PROVE Cared'
  <2>1. /\ AllUnparsed /\ AllHeld /\ UNCHANGED <<armed, open, stage>>
        /\ Event(fd, "IN") \in batch /\ batch' = batch \ {Event(fd, "IN")}
    BY <1>11 DEF HandleInReads, Take, Cared
  <2>2. Event(fd, "IN").fd = fd
    BY DEF Event
  <2>3. \A i \in DOMAIN m_workqueue : m_workqueue[i] # fd
    BY <1>0, <2>1, <2>2 DEF Hands, QueueHands
  <2>4. m_workqueue \in Seq(Fds) /\ \A i, j \in DOMAIN m_workqueue :
            m_workqueue[i] = m_workqueue[j] => i = j
    BY <1>0 DEF TypeOK, Hands, QueueHands
  <2>5. ~(Len(m_workqueue) > m_max_requests)
    BY <2>3, <2>4, QueueHasRoom
  <2>6. m_workqueue' = Append(m_workqueue, fd) /\ running' = running
    BY <1>11, <2>5 DEF HandleInReads, AppendConn, Pool!Submit
  <2>7. /\ \A i \in DOMAIN m_workqueue : /\ i \in DOMAIN m_workqueue'
                                         /\ m_workqueue'[i] = m_workqueue[i]
        /\ Len(m_workqueue) + 1 \in DOMAIN m_workqueue'
        /\ m_workqueue'[Len(m_workqueue) + 1] = fd
    BY <2>4, <2>6
  <2>8. AllHeld'
    <3>1. \A e \in batch : e.fd # fd => e \in batch'
      BY <2>1, <2>2
    <3> QED
      BY <2>1, <2>6, <2>7, <3>1 DEF AllHeld, Held, Busy
  <2>9. PICK o \in read(users[fd], rx[fd], fd \in peerGone) :
            users' = [users EXCEPT ![fd] = o.conn]
    BY <1>11, Zenon DEF HandleInReads
  <2>10. AllUnparsed'
    BY <1>0, <2>1, <2>9, ReadKeepsUnparsed
  <2> QED
    BY <2>8, <2>10 DEF Cared
<1>12. ASSUME NEW w \in Workers, WorkerTakes(w) PROVE Cared'
  <2>1. /\ AllUnparsed /\ AllHeld /\ UNCHANGED <<armed, batch, open, users>>
        /\ running[w] = Idle /\ m_workqueue # <<>> /\ m_workqueue' = Tail(m_workqueue)
        /\ running' = [running EXCEPT ![w] = Head(m_workqueue)]
        /\ stage' = [stage EXCEPT ![w] = "parse"]
    BY <1>12 DEF WorkerTakes, Pool!Start, Cared, kernel, conns
  <2>2. \A i \in DOMAIN m_workqueue :
            \/ m_workqueue[i] = Head(m_workqueue)
            \/ i - 1 \in DOMAIN m_workqueue' /\ m_workqueue'[i - 1] = m_workqueue[i]
    <3>1. m_workqueue \in Seq(Fds)
      BY <1>0 DEF TypeOK
    <3> QED
      BY <2>1, <3>1
  <2>3. ~Busy(w)
    BY <1>0, <2>1 DEF TypeOK, Busy
  <2>4. /\ \A v \in Workers \ {w} : running'[v] = running[v] /\ stage'[v] = stage[v]
        /\ running'[w] = Head(m_workqueue) /\ stage'[w] = "parse"
    BY <1>0, <2>1 DEF TypeOK
  <2>5. AllHeld'
    BY <2>1, <2>2, <2>3, <2>4, SMTT(30) DEF AllHeld, Held, Busy
  <2> QED
    BY <2>1, <2>5 DEF Cared, AllUnparsed
<1>13. ASSUME NEW w \in Workers, WorkerParses(w) PROVE Cared'
  <2>1. /\ AllUnparsed /\ AllHeld /\ stage[w] = "parse"
        /\ UNCHANGED <<armed, batch, open, m_workqueue, running>>
    BY <1>13 DEF WorkerParses, Cared, kernel
  <2>2. running[w] \in Fds
    BY <1>0, <2>1 DEF TypeOK
  <2> DEFINE c == users[running[w]]
  <2>3. Unparsed(c, Tokens)
    BY <2>1, <2>2 DEF AllUnparsed
  <2>4. PICK o \in process(c) :
         /\ users' = [users EXCEPT ![running[w]] = o.conn]
         /\ stage' = [stage EXCEPT ![w] = CASE o.ret = "rearm" -> "modfd"
                                            [] o.ret = "SPIN" -> "parse"
                                            [] OTHER -> "return"]
         /\ mode' = IF o.ret = "FAULT" THEN "crashed" ELSE mode
    BY <1>13 DEF WorkerParses
  <2>5. CASE Waits(c.m_read_buf)
    <3>1. o = [ret |-> "rearm", conn |-> c]
      BY <2>3, <2>4, <2>5, ProcessUnparsed
    <3>2. o.ret = "rearm" /\ o.conn = c
      BY <3>1
    <3>3. AllUnparsed'
      <4>1. \A f \in Fds : users'[f] = users[f]
        BY <1>0, <2>4, <3>2 DEF TypeOK
      <4> QED
        BY <2>1, <4>1 DEF AllUnparsed
    <3>4. stage'[w] = "modfd" /\ \A v \in Workers \ {w} : stage'[v] = stage[v]
      BY <1>0, <2>4, <3>2 DEF TypeOK
    <3>5. AllHeld'
      BY <2>1, <3>4 DEF AllHeld, Held, Busy
    <3> QED
      BY <3>3, <3>5 DEF Cared
  <2>6. CASE ~Waits(c.m_read_buf)
    <3>1. o.ret = "FAULT"
      BY <2>3, <2>4, <2>6, ProcessUnparsed
    <3> QED
      BY <2>4, <3>1 DEF Cared
  <2> QED
    BY <2>5, <2>6
<1>14. ASSUME NEW w \in Workers, WorkerRearms(w) PROVE Cared'
  <2>1. /\ AllUnparsed /\ AllHeld /\ stage[w] = "modfd" /\ armed' = armed \cup {running[w]}
        /\ stage' = [stage EXCEPT ![w] = "return"]
        /\ UNCHANGED <<batch, open, users, m_workqueue, running>>
    BY <1>14 DEF WorkerRearms, modfd, Cared, conns
  <2>2. \A v \in Workers \ {w} : stage'[v] = stage[v]
    BY <1>0, <2>1 DEF TypeOK
  <2>3. AllHeld'
    BY <2>1, <2>2 DEF AllHeld, Held, Busy
  <2> QED
    BY <2>1, <2>3 DEF Cared, AllUnparsed
<1>15. ASSUME NEW w \in Workers, WorkerReturns(w) PROVE Cared'
  <2>1. /\ AllUnparsed /\ AllHeld /\ stage[w] = "return"
        /\ stage' = [stage EXCEPT ![w] = "wait"] /\ running' = [running EXCEPT ![w] = Idle]
        /\ UNCHANGED <<armed, batch, open, users, m_workqueue>>
    BY <1>15 DEF WorkerReturns, Pool!Finish, Cared, kernel, conns
  <2>2. \A v \in Workers \ {w} : stage'[v] = stage[v] /\ running'[v] = running[v]
    BY <1>0, <2>1 DEF TypeOK
  <2>3. AllHeld'
    BY <2>1, <2>2 DEF AllHeld, Held, Busy
  <2> QED
    BY <2>1, <2>3 DEF Cared, AllUnparsed
<1> QED
  BY <1>1, <1>2, <1>3, <1>4, <1>5, <1>6, <1>7, <1>8, <1>9, <1>10, <1>11, <1>12, <1>13, <1>14, <1>15
     DEF Next, MainStep, WorkerStep, Ended

\* If the queue can hold every descriptor, an open connection always has somebody
\* who is going to read, parse or close it.
THEOREM NoConnectionForgotten ==
    ASSUME Cardinality(Fds) <= m_max_requests + 1
    PROVE  Spec => []NotForgotten
<1>1. Cared /\ IInv /\ [Next]_vars => Cared'
  BY NextCared
<1>2. IInv /\ Cared => NotForgotten
  <2> SUFFICES ASSUME IInv, NEW fd \in open, Held(fd) PROVE Holders(fd) # {}
    BY DEF Cared, AllHeld, NotForgotten
  <2>1. fd \in armed => <<"epoll", 0>> \in Holders(fd)
    BY DEF Holders
  <2>2. ASSUME NEW e \in batch, e.fd = fd PROVE <<"batch", e.kind>> \in Holders(fd)
    BY <2>2 DEF Holders
  <2>3. ASSUME NEW i \in DOMAIN m_workqueue, m_workqueue[i] = fd
        PROVE  <<"queue", i>> \in Holders(fd)
    BY <2>3 DEF Holders
  <2>4. ASSUME NEW w \in Workers, Busy(w), running[w] = fd
        PROVE  <<"worker", w>> \in Holders(fd)
    BY <2>4 DEF Holders, Busy
  <2> QED
    BY <2>1, <2>2, <2>3, <2>4 DEF Held
<1> QED
  BY <1>1, <1>2, Invariance, InitCared, PTL DEF Spec
==============================================================================
