--------------------------- MODULE ConnSlotProofs ----------------------------
(***************************************************************************)
(* Theorems about ConnSlot for any buffer size and any segments: what a    *)
(* slot of the users array goes through, over all its connections.         *)
(***************************************************************************)
EXTENDS ConnSlot, HttpConnProofs

Text == STRING \cup {"NUL"}

\* The connection that the program has crashed on had received sent.
CrashedOn(c) ==
    /\ Unparsed(c, Text) /\ c.m_read_buf = sent /\ ~Waits(sent)
    /\ c.m_content_length = conn.m_content_length
    /\ conn = [Faulted(c) EXCEPT !.m_start_line = Faulted(c).m_checked_index]

\* As long as the program runs no line is ever parsed: the buffer holds what the
\* client has sent, and a connection that waits for more does not begin with a
\* line break.
IInv ==
    /\ at \in {"closed", "armed", "read", "FAULT"}
    /\ at # "FAULT" => Unparsed(conn, Text)
    /\ at \in {"armed", "read"} => conn.m_read_buf = sent
    /\ at = "armed" => sent = <<>> \/ Waits(sent)
    /\ at = "FAULT" => \E c : CrashedOn(c)

\* Initially the slot has never been used.
LEMMA InitIInv == Init => IInv
<1> SUFFICES ASSUME Init PROVE IInv
  OBVIOUS
<1>1. PICK g \in Garbage : conn = RawConn(g)
  BY DEF Init
<1>2. Unparsed(conn, Text)
  BY <1>1, InitUnparsed, SlotAssumption
<1> QED
  BY <1>2 DEF Init, IInv

\* Every step of the main thread and of a worker keeps it.
LEMMA NextIInv == IInv /\ [Next]_slotvars => IInv'
<1> SUFFICES ASSUME IInv, [Next]_slotvars PROVE IInv'
  OBVIOUS
<1>1. CASE UNCHANGED slotvars
  <2>1. conn' = conn /\ sent' = sent /\ at' = at
    BY <1>1 DEF slotvars
  <2>2. \A c : CrashedOn(c) => CrashedOn(c)'
    BY <2>1 DEF CrashedOn
  <2> QED
    BY <2>1, <2>2 DEF IInv
<1>2. CASE Open
  <2>1. conn \in Conns(Text)
    BY <1>2 DEF IInv, Open, Unparsed
  <2>2. Unparsed(conn', Text) /\ conn'.m_read_buf = <<>>
    BY <1>2, <2>1, InitUnparsed DEF Open
  <2> QED
    BY <1>2, <2>2 DEF IInv, Open
<1>3. CASE HangUp
  BY <1>3 DEF IInv, HangUp
<1>4. ASSUME NEW seg \in Segments, NEW eof \in BOOLEAN, Receive(seg, eof) PROVE IInv'
  <2>1. PICK o \in read(conn, seg, eof) :
            conn' = o.conn /\ at' = IF o.ok THEN "read" ELSE "closed"
    BY <1>4 DEF Receive
  <2>2. Unparsed(conn, Text) /\ conn.m_read_buf = sent /\ seg \in Seq(Text)
    <3>1. seg \in Seq(STRING)
      BY SlotAssumption
    <3>2. \A S, T : S \subseteq T => \A q \in Seq(S) : q \in Seq(T)
      OBVIOUS
    <3>3. seg \in Seq(Text)
      BY <3>1, <3>2, Zenon DEF Text
    <3> QED
      BY <1>4, <3>3 DEF IInv, Receive
  <2>3. Unparsed(conn', Text) /\ (o.ok => conn'.m_read_buf = sent \o seg)
    <3>1. /\ Unparsed(o.conn, Text)
          /\ o.ok = FALSE \/ (o.ok = TRUE /\ o.conn.m_read_buf = conn.m_read_buf \o seg)
      BY <2>2, ReadUnparsed DEF HasRead
    <3> QED
      BY <2>1, <2>2, <3>1, Zenon
  <2> QED
    BY <1>4, <2>1, <2>3 DEF IInv, Receive
<1>5. CASE Work
  <2>1. PICK o \in process(conn) :
            conn' = o.conn /\ at' = IF o.ret = "rearm" THEN "armed" ELSE o.ret
    BY <1>5 DEF Work
  <2>2. Unparsed(conn, Text) /\ conn.m_read_buf = sent /\ sent' = sent
    BY <1>5 DEF IInv, Work
  <2>3. CASE Waits(sent)
    <3>1. o = [ret |-> "rearm", conn |-> conn]
      BY <2>1, <2>2, <2>3, ProcessUnparsed
    <3>2. conn' = conn /\ at' = "armed"
      BY <2>1, <3>1
    <3> QED
      BY <2>2, <2>3, <3>2 DEF IInv
  <2>4. CASE ~Waits(sent)
    <3> DEFINE g == [Faulted(conn) EXCEPT !.m_start_line = Faulted(conn).m_checked_index]
    <3>1. o = [ret |-> "FAULT", conn |-> g]
      BY <2>1, <2>2, <2>4, ProcessUnparsed
    <3>2. conn' = g /\ at' = "FAULT"
      BY <2>1, <3>1
    <3>3. g.m_content_length = conn.m_content_length
      BY <2>2 DEF Faulted, Unparsed, Conns
    <3> HIDE DEF g
    <3>4. \E c : CrashedOn(c)'
      <4>1. /\ Unparsed(conn, Text) /\ conn.m_read_buf = sent' /\ ~Waits(sent')
            /\ conn.m_content_length = conn'.m_content_length
            /\ conn' = [Faulted(conn) EXCEPT !.m_start_line = Faulted(conn).m_checked_index]
        BY <2>2, <2>4, <3>2, <3>3 DEF g
      <4> QED
        BY <4>1, Zenon DEF CrashedOn
    <3> QED
      BY <3>2, <3>4 DEF IInv
  <2> QED
    BY <2>3, <2>4
<1>6. CASE Crashed
  BY <1>1, <1>6 DEF Crashed
<1> QED
  BY <1>1, <1>2, <1>3, <1>4, <1>5, <1>6 DEF Next

\* The inductive invariant holds in every reachable state.
THEOREM Invariance == Spec => []IInv
<1> QED
  BY InitIInv, NextIInv, PTL DEF Spec
-----------------------------------------------------------------------------
\* process() never loops for ever and never drops a connection without an answer:
\* it re-arms the descriptor, or the program ends.
THEOREM AlwaysRearms == Spec => []ProcessRearms
<1>1. IInv => ProcessRearms
  BY DEF IInv, ProcessRearms
<1> QED
  BY <1>1, Invariance, PTL

\* The parser's indices stay ordered and inside the buffer, whatever is read into
\* it and however often the slot is used again.
THEOREM IndicesInBuffer == Spec => []ParserIndices
<1>1. IInv => ParserIndices
  <2> SUFFICES ASSUME IInv PROVE ParserIndices
    OBVIOUS
  <2>0. \A q \in Seq(Text) : Len(q) \in Nat
    OBVIOUS
  <2>1. ASSUME NEW c, Unparsed(c, Text)
        PROVE  /\ c.m_checked_index = 0 /\ c.m_start_line = 0
               /\ Len(c.m_read_buf) \in Nat /\ Len(c.m_read_buf) <= READ_BUFFER_SIZE
    <3>1. c.m_read_buf \in Seq(Text)
      BY <2>1 DEF Unparsed, Conns
    <3> QED
      BY <2>0, <2>1, <3>1, Zenon DEF Unparsed
  <2>2. CASE at # "FAULT"
    <3>1. Unparsed(conn, Text)
      BY <2>2 DEF IInv
    <3> QED
      BY <2>1, <3>1 DEF ParserIndices
  <2>3. CASE at = "FAULT"
    <3>1. PICK c : CrashedOn(c)
      BY <2>3 DEF IInv
    <3>2. PICK buf \in Seq(Text) : c.m_read_buf = buf
      BY <3>1 DEF CrashedOn, Unparsed, Conns
    <3>3. c \in Conns(Text) /\ Unparsed(c, Text) /\ Len(buf) <= READ_BUFFER_SIZE
      BY <3>1, <3>2 DEF CrashedOn, Unparsed
    <3>4. CASE buf = <<>>
      <4>1. conn = [c EXCEPT !.m_start_line = c.m_checked_index]
        BY <3>1, <3>2, <3>4 DEF CrashedOn, Faulted
      <4>2. /\ conn.m_start_line = c.m_checked_index /\ conn.m_read_buf = c.m_read_buf
            /\ conn.m_checked_index = c.m_checked_index
        BY <3>3, <4>1 DEF Conns
      <4> QED
        BY <2>1, <3>3, <4>2 DEF ParserIndices
    <3>5. CASE buf # <<>>
      <4>1. Len(buf) >= 2
        BY <3>1, <3>2, <3>5 DEF CrashedOn, Waits
      <4> DEFINE new == Zero(buf, {0, 1})
                 f == [c EXCEPT !.m_read_buf = new, !.m_checked_index = 2]
      <4>2. conn = [f EXCEPT !.m_start_line = f.m_checked_index]
        BY <3>1, <3>2, <3>5 DEF CrashedOn, Faulted
      <4>3. new \in Seq(Text) /\ Len(new) = Len(buf)
        <5>0. "NUL" \in Text
          BY DEF Text
        <5>1. \A k \in 1..Len(buf) : new[k] \in Text
          BY <5>0 DEF Zero
        <5>2. new = [k \in 1..Len(buf) |-> new[k]]
          BY DEF Zero
        <5> HIDE DEF new
        <5> QED
          BY <5>1, <5>2
      <4> HIDE DEF new
      <4>4. /\ f \in Conns(Text) /\ f.m_checked_index = 2 /\ f.m_read_buf = new
        BY <3>3, <4>3 DEF Conns
      <4> HIDE DEF f
      <4>5. conn.m_start_line = 2 /\ conn.m_checked_index = 2 /\ conn.m_read_buf = new
        BY <4>2, <4>4 DEF Conns
      <4> QED
        BY <3>3, <4>1, <4>3, <4>5 DEF ParserIndices
    <3> QED
      BY <3>4, <3>5
  <2> QED
    BY <2>2, <2>3
<1> QED
  BY <1>1, Invariance, PTL

\* read() of rx from a client that has not closed fails only with a full buffer.
LEMMA ReadFailsWhenFull ==
    ASSUME NEW c, Unparsed(c, Text), NEW rx \in Seq(Text),
           NEW o \in read(c, rx, FALSE), ~o.ok
    PROVE  Len(c.m_read_buf) + Len(rx) >= READ_BUFFER_SIZE
<1>1. PICK buf \in Seq(Text) : buf = c.m_read_buf
  BY DEF Unparsed, Conns
<1> SUFFICES ASSUME Len(buf) + Len(rx) < READ_BUFFER_SIZE PROVE FALSE
  BY <1>1, ConnAssumption
<1>2. /\ Len(buf) \in Nat /\ Len(rx) \in Nat /\ ~(Len(buf) >= READ_BUFFER_SIZE)
      /\ Len(rx) <= READ_BUFFER_SIZE - Len(buf)
  BY ConnAssumption
<1> DEFINE new == buf \o SubSeq(rx, 1, Len(rx))
           d == [c EXCEPT !.m_read_buf = new]
           rest == SubSeq(rx, Len(rx) + 1, Len(rx))
<1>3. PICK a \in LastRecv(Room(d) = 0, rest, FALSE) : o = [ok |-> a = "EAGAIN", conn |-> d]
  BY <1>1, <1>2, ZenonT(40) DEF read, Room
<1>4. rest = <<>>
  BY <1>2
<1>5. Len(new) = Len(buf) + Len(rx) /\ d.m_read_buf = new
  <2>1. SubSeq(rx, 1, Len(rx)) = rx
    BY <1>2
  <2>2. new = buf \o rx
    BY <2>1
  <2>3. Len(new) = Len(buf) + Len(rx)
    BY <2>2
  <2> HIDE DEF new
  <2>4. d.m_read_buf = new
    BY DEF Unparsed, Conns
  <2> QED
    BY <2>3, <2>4
<1>6. Room(d) # 0
  BY <1>2, <1>5, ConnAssumption DEF Room
<1>7. a = "EAGAIN"
  BY <1>4, <1>6 DEF LastRecv
<1> QED
  BY <1>3, <1>7

\* read() drops a client that has not closed only when the segments it sent fill the
\* buffer, and every one that sent more than the buffer holds, for any buffer size and
\* any segments (http_conn.cpp:87-110).
THEOREM OnlyFullBuffersDrop == Spec => DroppedOnlyWhenFull
<1>1. ASSUME IInv, IInv', NEW seg \in Segments, Receive(seg, FALSE)
      PROVE  /\ at' = "closed" => Len(sent') >= READ_BUFFER_SIZE
             /\ Len(sent') > READ_BUFFER_SIZE => at' = "closed"
  <2>1. /\ at = "armed" /\ Unparsed(conn, Text) /\ conn.m_read_buf = sent
        /\ sent \in Seq(Text) /\ sent' = sent \o seg
    BY <1>1 DEF IInv, Receive, Unparsed, Conns
  <2>2. seg \in Seq(Text)
    BY SlotAssumption DEF Text
  <2>3. Len(sent') = Len(sent) + Len(seg) /\ Len(sent') \in Nat
    BY <2>1, <2>2
  <2>4. PICK o \in read(conn, seg, FALSE) : at' = IF o.ok THEN "read" ELSE "closed"
    BY <1>1 DEF Receive
  <2>5. CASE o.ok
    <3>1. at' = "read"
      BY <2>4, <2>5
    <3>2. Unparsed(conn', Text) /\ conn'.m_read_buf = sent'
      BY <1>1, <3>1 DEF IInv
    <3>3. Len(sent') <= READ_BUFFER_SIZE
      BY <3>2 DEF Unparsed
    <3> QED
      BY <2>3, <3>1, <3>3, ConnAssumption
  <2>6. CASE ~o.ok
    <3>1. Len(conn.m_read_buf) + Len(seg) >= READ_BUFFER_SIZE
      BY <2>1, <2>2, <2>6, ReadFailsWhenFull
    <3> QED
      BY <2>1, <2>3, <2>4, <2>6, <3>1
  <2> QED
    BY <2>5, <2>6
<1>2. IInv /\ IInv' =>
        \A seg \in Segments : Receive(seg, FALSE) =>
          /\ at' = "closed" => Len(sent') >= READ_BUFFER_SIZE
          /\ Len(sent') > READ_BUFFER_SIZE => at' = "closed"
  BY <1>1
<1> QED
  BY <1>2, Invariance, PTL DEF DroppedOnlyWhenFull

\* A fresh object that reads everything at once is in the state of c.
LEMMA ReadAtOnce ==
    ASSUME NEW c, Unparsed(c, Text), NEW eof \in BOOLEAN,
           NEW o \in read(RawConn(c.m_content_length), c.m_read_buf, eof)
    PROVE  o.ok => o.conn = c
<1>1. PICK raw : raw = RawConn(c.m_content_length)
  OBVIOUS
<1>2. PICK buf : buf = c.m_read_buf
  OBVIOUS
<1>3. c.m_content_length \in Int /\ buf \in Seq(Text)
  BY <1>2 DEF Unparsed, Conns
<1>4. /\ Unparsed(raw, Text) /\ raw.m_read_buf = <<>>
      /\ raw.m_content_length = c.m_content_length
  BY <1>1, <1>3, InitUnparsed
<1>5. <<>> \o buf = buf
  BY <1>3
<1>6. o \in read(raw, buf, eof)
  BY <1>1, <1>2, Zenon
<1>7. HasRead(o, raw, buf, Text)
  BY <1>3, <1>4, <1>6, ReadUnparsed, Zenon
<1>8. o.ok => o.conn.m_read_buf = buf
  BY <1>4, <1>5, <1>7, Zenon DEF HasRead
<1> QED
  BY <1>2, <1>4, <1>7, <1>8, SameConn, Zenon DEF HasRead

\* process() ends as on a fresh connection that has received everything at once.
THEOREM SegmentsDoNotMatter == Spec => []SegmentationIndependence
<1>1. IInv => SegmentationIndependence
  <2> SUFFICES ASSUME IInv, at \in {"armed", "done", "FAULT", "SPIN"}, sent # <<>>,
                      NEW o \in read(RawConn(conn.m_content_length), sent, FALSE), o.ok
               PROVE  \E q \in process(o.conn) :
                          /\ q.conn = conn
                          /\ q.ret = IF at = "armed" THEN "rearm" ELSE at
    BY DEF SegmentationIndependence
  <2>1. ASSUME NEW c, Unparsed(c, Text), c.m_read_buf = sent,
               c.m_content_length = conn.m_content_length
        PROVE  o.conn = c
    <3>1. FALSE \in BOOLEAN
      OBVIOUS
    <3> QED
      BY <2>1, <3>1, ReadAtOnce, Zenon
  <2>2. CASE at = "armed"
    <3>1. Unparsed(conn, Text) /\ conn.m_read_buf = sent /\ Waits(sent)
      BY <2>2 DEF IInv
    <3>2. o.conn = conn
      BY <2>1, <3>1
    <3>3. process(conn) = {[ret |-> "rearm", conn |-> conn]}
      BY <3>1, ProcessUnparsed
    <3> QED
      BY <2>2, <3>2, <3>3
  <2>3. CASE at = "FAULT"
    <3>1. PICK c : CrashedOn(c)
      BY <2>3 DEF IInv
    <3>2. o.conn = c
      BY <2>1, <3>1 DEF CrashedOn
    <3>3. process(c) = {[ret |-> "FAULT", conn |-> conn]}
      BY <3>1, ProcessUnparsed DEF CrashedOn
    <3> QED
      BY <2>3, <3>2, <3>3
  <2> QED
    BY <2>2, <2>3 DEF IInv
<1> QED
  BY <1>1, Invariance, PTL
==============================================================================
