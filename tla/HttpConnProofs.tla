--------------------------- MODULE HttpConnProofs ----------------------------
(***************************************************************************)
(* What read() and process() do with a connection, for any contents and    *)
(* size of its buffer.                                                     *)
(***************************************************************************)
EXTENDS HttpConn, FiniteSetTheorems, TLAPS

\* Every non-empty set of natural numbers has a least element.
LEMMA LeastNumber ==
    ASSUME NEW T \in SUBSET Nat, T # {}
    PROVE  \E x \in T : \A y \in T : x <= y
<1> DEFINE U == {0..n : n \in T}
<1>1. U \subseteq FiniteSubsetsOf(Nat) /\ U # {}
  <2>1. \A n \in T : 0..n \in SUBSET Nat /\ IsFiniteSet(0..n)
    BY FS_Interval
  <2>2. \A n \in T : 0..n \in FiniteSubsetsOf(Nat)
    BY <2>1, Zenon DEF FiniteSubsetsOf
  <2> QED
    BY <2>2, Zenon
<1>2. PICK m \in U : \A u \in U : ~(<<u, m>> \in StrictSubsetOrdering(Nat))
  <2> HIDE DEF U
  <2> QED
    BY <1>1, WFMin, FS_StrictSubsetOrderingWellFounded
<1>3. PICK x \in T : m = 0..x
  BY Zenon
<1>4. ASSUME NEW y \in T, y < x PROVE FALSE
  <2>1. 0..y \in SUBSET Nat /\ 0..x \in SUBSET Nat
    OBVIOUS
  <2>2. 0..y \subseteq 0..x /\ 0..y # 0..x
    BY <1>4
  <2>3. 0..y \in U
    BY Zenon
  <2>4. <<0..y, 0..x>> \in StrictSubsetOrdering(Nat)
    <3> DEFINE A == 0..y
               B == 0..x
    <3> HIDE DEF A, B
    <3>1. A \in SUBSET Nat /\ B \in SUBSET Nat /\ A \subseteq B /\ A # B
      BY <2>1, <2>2 DEF A, B
    <3>2. <<A, B>> \in StrictSubsetOrdering(Nat)
      BY <3>1 DEF StrictSubsetOrdering
    <3> QED
      BY <3>2 DEF A, B
  <2> QED
    BY <1>2, <1>3, <2>3, <2>4, Zenon
<1>5. \A y \in T : x \in Nat /\ y \in Nat /\ ~(y < x)
  BY <1>4
<1> QED
  BY <1>5
-----------------------------------------------------------------------------

LoopStep(s) == IF s.done THEN s ELSE Turn(s)

IsLoop(g, c, n) ==
    g = [k \in 0..n |-> IF k = 0 THEN Again(c, "LINE_OK") ELSE LoopStep(g[k - 1])]

\* The loop of process_read() can be run any number of times.
LEMMA LoopExists ==
    ASSUME NEW c
    PROVE  \A n \in Nat : \E g : IsLoop(g, c, n)
<1> DEFINE T == {n \in Nat : ~\E g : IsLoop(g, c, n)}
<1> SUFFICES ASSUME T # {} PROVE FALSE
  BY Zenon
<1>1. PICK n \in T : \A m \in T : n <= m
  <2> HIDE DEF T
  <2>1. T \in SUBSET Nat
    BY DEF T
  <2> QED
    BY <2>1, LeastNumber
<1>2. n # 0
  <2>1. IsLoop([k \in 0..0 |-> Again(c, "LINE_OK")], c, 0)
    BY DEF IsLoop
  <2> QED
    BY <2>1
<1>3. n - 1 \in Nat /\ n - 1 \notin T
  BY <1>1, <1>2
<1>4. PICK g : IsLoop(g, c, n - 1)
  BY <1>3, Zenon
<1> DEFINE h == [k \in 0..n |-> IF k = n THEN LoopStep(g[n - 1]) ELSE g[k]]
<1>5. IsLoop(h, c, n)
  <2>1. \A k \in 0..n-1 : g[k] = IF k = 0 THEN Again(c, "LINE_OK") ELSE LoopStep(g[k - 1])
    BY <1>3, <1>4 DEF IsLoop
  <2>2. \A k \in 0..n : h[k] = IF k = 0 THEN Again(c, "LINE_OK") ELSE LoopStep(h[k - 1])
    BY <1>2, <1>3, <2>1
  <2> QED
    BY <2>2, Zenon DEF IsLoop
<1> QED
  BY <1>1, <1>5, Zenon

\* process_read() returns what one turn of its loop returns, if that is the last.
LEMMA OneTurn ==
    ASSUME NEW c, Turn(Again(c, "LINE_OK")).done
    PROVE  process_read(c) = Turn(Again(c, "LINE_OK"))
<1> DEFINE loop == CHOOSE g : IsLoop(g, c, MaxTurns)
           first == Turn(Again(c, "LINE_OK"))
<1>1. MaxTurns \in Nat /\ MaxTurns >= 1
  BY ConnAssumption DEF MaxTurns
<1>2. IsLoop(loop, c, MaxTurns)
  BY <1>1, LoopExists
<1>3. process_read(c) = loop[MaxTurns]
  BY DEF process_read, IsLoop, LoopStep
<1> HIDE DEF loop, first
<1>4. \A k \in 0..MaxTurns :
        loop[k] = IF k = 0 THEN Again(c, "LINE_OK") ELSE LoopStep(loop[k - 1])
  BY <1>1, <1>2 DEF IsLoop
<1>5. loop[1] = first /\ LoopStep(first) = first
  <2>1. Again(c, "LINE_OK").done = FALSE
    BY DEF Again
  <2>2. first.done
    BY DEF first
  <2> QED
    BY <1>1, <1>4, <2>1, <2>2 DEF first, LoopStep
<1> DEFINE T == {k \in Nat : k >= 1 /\ k <= MaxTurns /\ loop[k] # first}
<1>6. ASSUME T # {} PROVE FALSE
  <2>1. PICK k \in T : \A m \in T : k <= m
    <3> HIDE DEF T
    <3>1. T \in SUBSET Nat
      BY DEF T
    <3> QED
      BY <1>6, <3>1, LeastNumber
  <2>2. k > 1 /\ k - 1 \in Nat /\ k - 1 \notin T
    BY <1>5, <2>1
  <2>3. loop[k - 1] = first
    BY <1>1, <2>2
  <2>4. loop[k] = first
    BY <1>4, <1>5, <2>2, <2>3
  <2> QED
    BY <2>4
<1>7. loop[MaxTurns] = first
  BY <1>1, <1>6
<1> QED
  BY <1>3, <1>7 DEF first
-----------------------------------------------------------------------------
\* The http_conn objects whose buffer holds members of T and whose parser has not
\* got beyond the request line.
Conns(T) ==
    [m_check_state : {"", "REQUESTLINE"}, m_checked_index : Nat, m_start_line : Nat,
     m_read_buf : Seq(T), m_url : {<<>>}, m_linger : BOOLEAN, m_content_length : Int]

\* A connection of which no line has been parsed yet.
Unparsed(c, T) ==
    /\ c \in Conns(T)
    /\ c.m_check_state = "REQUESTLINE"
    /\ c.m_checked_index = 0 /\ c.m_start_line = 0
    /\ c.m_linger = FALSE
    /\ Len(c.m_read_buf) <= READ_BUFFER_SIZE

\* The buffer does not begin with a line break.
Waits(buf) == buf # <<>> /\ ~(Len(buf) >= 2 /\ buf[1] = "CR" /\ buf[2] = "LF")

\* What process() leaves behind when it runs into the null pointer.
Faulted(c) ==
    IF c.m_read_buf = <<>> THEN c
    ELSE [c EXCEPT !.m_read_buf = Zero(@, {0, 1}), !.m_checked_index = 2]

\* parse_line() on such a connection.
LEMMA FirstLine ==
    ASSUME NEW T, NEW c, Unparsed(c, T)
    PROVE  /\ Waits(c.m_read_buf) => /\ parse_line(c).status # "LINE_OK"
                                     /\ parse_line(c).conn = c
           /\ ~Waits(c.m_read_buf) => parse_line(c) = [status |-> "LINE_OK", conn |-> Faulted(c)]
<1> DEFINE buf == c.m_read_buf
<1>1. c.m_checked_index = 0 /\ buf \in Seq(T) /\ Len(buf) \in Nat
  <2>1. \A q \in Seq(T) : Len(q) \in Nat
    OBVIOUS
  <2>2. c.m_checked_index = 0 /\ buf \in Seq(T)
    BY DEF Unparsed, Conns
  <2> QED
    BY <2>1, <2>2, Zenon
<1>2. CASE buf = <<>>
  BY <1>1, <1>2 DEF parse_line, Waits, Faulted
<1>3. CASE buf # <<>> /\ Waits(buf)
  <2>1. Len(buf) >= 1
    BY <1>1, <1>3
  <2>2. CASE buf[1] = "CR"
    <3>1. CASE Len(buf) < 2
      <4>1. Len(buf) = 1
        <5>1. \A n \in Nat : n >= 1 /\ n < 2 => n = 1
          OBVIOUS
        <5> QED
          BY <1>1, <2>1, <3>1, <5>1, Zenon
      <4> QED
        BY <1>1, <1>3, <2>2, <4>1 DEF parse_line, OpenAtCR
    <3>2. CASE Len(buf) >= 2
      <4>1. buf[2] # "LF"
        BY <1>3, <2>2, <3>2, Zenon DEF Waits
      <4> QED
        BY <1>1, <1>3, <2>2, <3>2, <4>1 DEF parse_line
    <3> QED
      BY <1>1, <3>1, <3>2
  <2>3. CASE buf[1] = "LF"
    BY <1>1, <1>3, <2>1, <2>3 DEF parse_line
  <2>4. CASE buf[1] \notin {"CR", "LF"}
    BY <1>1, <1>3, <2>1, <2>4 DEF parse_line
  <2> QED
    BY <2>2, <2>3, <2>4
<1>4. CASE buf # <<>> /\ ~Waits(buf)
  <2>1. Len(buf) >= 2 /\ buf[1] = "CR" /\ buf[2] = "LF"
    BY <1>4 DEF Waits
  <2> QED
    BY <1>1, <1>4, <2>1 DEF parse_line, Faulted
<1> QED
  BY <1>2, <1>3, <1>4 DEF Waits

\* The text of the line that has been ended at its first byte is empty.
LEMMA EmptyText ==
    ASSUME NEW T, NEW c, Unparsed(c, T), ~Waits(c.m_read_buf)
    PROVE  CString(Faulted(c).m_read_buf, 0) = <<>>
<1> DEFINE buf == Faulted(c).m_read_buf
<1>0. c.m_read_buf \in Seq(T)
  BY DEF Unparsed, Conns
<1>1. CASE c.m_read_buf = <<>>
  <2>1. buf = <<>> /\ After(buf, 0) = <<>>
    BY <1>1 DEF Faulted, After
  <2>2. First(<<>>, {"NUL"}) = 0
    BY DEF First, SelectInSeq
  <2> QED
    BY <2>1, <2>2 DEF CString
<1>2. CASE c.m_read_buf # <<>>
  <2>1. /\ buf = Zero(c.m_read_buf, {0, 1})
        /\ buf \in Seq(T \cup {"NUL"}) /\ Len(buf) = Len(c.m_read_buf) /\ Len(buf) >= 1
        /\ buf[1] = "NUL"
    <3>1. buf = Zero(c.m_read_buf, {0, 1})
      BY <1>0, <1>2 DEF Faulted, Unparsed, Conns
    <3> QED
      BY <1>0, <1>2, <3>1 DEF Zero
  <2> HIDE DEF buf
  <2>2. After(buf, 0) = buf
    BY <2>1 DEF After
  <2>3. First(buf, {"NUL"}) = 1
    <3> DEFINE I == {i \in 1..Len(buf) : buf[i] \in {"NUL"}}
    <3>1. 1 \in I /\ \A i \in I : i \in Nat /\ 1 <= i
      BY <2>1
    <3>2. First(buf, {"NUL"}) = Min(I)
      BY <3>1 DEF First, SelectInSeq
    <3> HIDE DEF I
    <3>3. Min(I) = 1
      BY <3>1 DEF Min
    <3> QED
      BY <3>2, <3>3
  <2>4. Before(buf, 1) = <<>>
    BY <2>1 DEF Before
  <2> QED
    BY <2>2, <2>3, <2>4 DEF CString, buf
<1> QED
  BY <1>1, <1>2

\* process() on such a connection re-arms it as it is, or hits the null pointer.
LEMMA ProcessUnparsed ==
    ASSUME NEW T, NEW c, Unparsed(c, T)
    PROVE  process(c) = IF Waits(c.m_read_buf) THEN {[ret |-> "rearm", conn |-> c]}
                        ELSE {[ret |-> "FAULT",
                               conn |-> [Faulted(c) EXCEPT
                                            !.m_start_line = Faulted(c).m_checked_index]]}
<1> DEFINE s == Again(c, "LINE_OK")
           f == Faulted(c)
           g == [f EXCEPT !.m_start_line = f.m_checked_index]
<1>1. Turn(s) = LoopBody(parse_line(c))
  BY DEF Turn, Again, Unparsed
<1>2. CASE Waits(c.m_read_buf)
  <2>1. Turn(s) = Return(c, "NO_REQUEST")
    BY <1>1, <1>2, FirstLine DEF LoopBody
  <2>2. process_read(c) = Return(c, "NO_REQUEST")
    BY <2>1, OneTurn DEF Return
  <2> QED
    BY <1>2, <2>2 DEF process, AfterRead, Return, Rearm
<1>3. CASE ~Waits(c.m_read_buf)
  <2>1. /\ f.m_start_line = 0 /\ f.m_check_state = "REQUESTLINE"
        /\ g.m_read_buf = f.m_read_buf /\ g.m_check_state = "REQUESTLINE"
    BY DEF Unparsed, Conns, Faulted
  <2>2. LoopBody(parse_line(c)) = Switch(g, 0)
    BY <1>3, <2>1, FirstLine DEF LoopBody
  <2> HIDE DEF g
  <2>3. Switch(g, 0) = AfterRequestLine(parse_request_line(g, <<>>))
    BY <1>3, <2>1, EmptyText DEF Switch
  <2>4. parse_request_line(g, <<>>) = Answer(g, "FAULT")
    BY DEF parse_request_line, SplitAt, First, SelectInSeq
  <2>5. Turn(s) = Return(g, "FAULT")
    BY <1>1, <2>2, <2>3, <2>4 DEF AfterRequestLine, Answer
  <2>6. process_read(c) = Return(g, "FAULT")
    BY <2>5, OneTurn DEF Return
  <2>7. process(c) = {[ret |-> "FAULT", conn |-> g]}
    BY <2>6 DEF process, AfterRead, Return, Leave
  <2> QED
    BY <1>3, <2>7 DEF g
<1> QED
  BY <1>2, <1>3

\* Records with the same fields are equal.
LEMMA SameFields ==
    ASSUME NEW S1, NEW S2, NEW S3, NEW S4, NEW S5, NEW S6, NEW S7,
           NEW c \in [m_check_state : S1, m_checked_index : S2, m_start_line : S3,
                      m_read_buf : S4, m_url : S5, m_linger : S6, m_content_length : S7],
           NEW d \in [m_check_state : S1, m_checked_index : S2, m_start_line : S3,
                      m_read_buf : S4, m_url : S5, m_linger : S6, m_content_length : S7],
           c.m_check_state = d.m_check_state, c.m_checked_index = d.m_checked_index,
           c.m_start_line = d.m_start_line, c.m_read_buf = d.m_read_buf, c.m_url = d.m_url,
           c.m_linger = d.m_linger, c.m_content_length = d.m_content_length
    PROVE  c = d
  OBVIOUS

\* A connection is determined by its buffer and m_content_length.
LEMMA SameConn ==
    ASSUME NEW T, NEW c, NEW d, Unparsed(c, T), Unparsed(d, T),
           c.m_read_buf = d.m_read_buf, c.m_content_length = d.m_content_length
    PROVE  c = d
<1>1. c.m_url = <<>> /\ d.m_url = <<>>
  BY DEF Unparsed, Conns
<1>2. /\ c.m_check_state = d.m_check_state /\ c.m_checked_index = d.m_checked_index
      /\ c.m_start_line = d.m_start_line /\ c.m_url = d.m_url /\ c.m_linger = d.m_linger
  BY <1>1, Zenon DEF Unparsed
<1> QED
  BY <1>2, SameFields, Zenon DEF Unparsed, Conns

\* init() makes such a connection, whatever the object was used for.
LEMMA InitUnparsed ==
    ASSUME NEW T
    PROVE  /\ \A c \in Conns(T) :
                /\ Unparsed(init(c), T) /\ init(c).m_read_buf = <<>>
                /\ init(c).m_content_length = c.m_content_length
           /\ \A g \in Int : /\ Unparsed(RawConn(g), T) /\ RawConn(g).m_read_buf = <<>>
                             /\ RawConn(g).m_content_length = g
<1>1. ASSUME NEW c \in Conns(T)
      PROVE  /\ Unparsed(init(c), T) /\ init(c).m_read_buf = <<>>
             /\ init(c).m_content_length = c.m_content_length
  <2>1. <<>> \in Seq(T) /\ Len(<<>>) = 0 /\ 0 <= READ_BUFFER_SIZE
    BY ConnAssumption
  <2>2. init(c) \in Conns(T)
    BY <2>1 DEF init, Conns
  <2>3. /\ init(c).m_check_state = "REQUESTLINE" /\ init(c).m_checked_index = 0
        /\ init(c).m_start_line = 0 /\ init(c).m_read_buf = <<>> /\ init(c).m_linger = FALSE
        /\ init(c).m_content_length = c.m_content_length
    BY DEF init, Conns
  <2> QED
    BY <2>1, <2>2, <2>3 DEF Unparsed
<1>2. ASSUME NEW g \in Int
      PROVE  /\ Unparsed(RawConn(g), T) /\ RawConn(g).m_read_buf = <<>>
             /\ RawConn(g).m_content_length = g
  <2> DEFINE c == [m_check_state |-> "", m_checked_index |-> 0, m_start_line |-> 0,
                   m_read_buf |-> <<>>, m_url |-> <<>>, m_linger |-> FALSE,
                   m_content_length |-> g]
  <2>1. c \in Conns(T) /\ c.m_content_length = g
    BY DEF Conns
  <2>2. RawConn(g) = init(c)
    BY DEF RawConn
  <2> HIDE DEF c
  <2> QED
    BY <1>1, <2>1, <2>2
<1> QED
  BY <1>1, <1>2

\* The outcome o of a read() of rx: all of rx is in the buffer if it succeeds.
HasRead(o, c, rx, T) ==
    /\ Unparsed(o.conn, T)
    /\ o.conn.m_content_length = c.m_content_length
    /\ \/ o.ok = FALSE
       \/ o.ok = TRUE /\ o.conn.m_read_buf = c.m_read_buf \o rx

\* read() appends to the buffer what fits, all of it when it answers true, and
\* touches no other field.
LEMMA ReadUnparsed ==
    ASSUME NEW T, NEW c, Unparsed(c, T), NEW rx \in Seq(T), NEW eof \in BOOLEAN,
           NEW o \in read(c, rx, eof)
    PROVE  HasRead(o, c, rx, T)
<1>1. PICK buf \in Seq(T) : buf = c.m_read_buf /\ Len(buf) <= READ_BUFFER_SIZE
  BY DEF Unparsed, Conns
<1>2. CASE Len(buf) >= READ_BUFFER_SIZE
  BY <1>1, <1>2 DEF read, HasRead
<1>3. CASE ~(Len(buf) >= READ_BUFFER_SIZE)
  <2> DEFINE room == READ_BUFFER_SIZE - Len(buf)
             k == IF Len(rx) <= room THEN Len(rx) ELSE room
             new == buf \o SubSeq(rx, 1, k)
             d == [c EXCEPT !.m_read_buf = new]
  <2>1. PICK a \in LastRecv(Room(d) = 0, SubSeq(rx, k + 1, Len(rx)), eof) :
            o = [ok |-> a = "EAGAIN", conn |-> d]
    BY <1>1, <1>3, ZenonT(40) DEF read, Room
  <2>2. k \in Nat /\ k <= Len(rx) /\ Len(buf) + k <= READ_BUFFER_SIZE
    BY <1>1, <1>3, ConnAssumption
  <2> HIDE DEF k
  <2>3. new \in Seq(T) /\ Len(new) = Len(buf) + k
    BY <2>2
  <2> HIDE DEF new
  <2>4. Unparsed(d, T) /\ d.m_read_buf = new /\ d.m_content_length = c.m_content_length
    BY <2>2, <2>3 DEF Unparsed, Conns
  <2>5. ASSUME a = "EAGAIN" PROVE new = buf \o rx
    <3>1. SubSeq(rx, k + 1, Len(rx)) = <<>>
      BY <2>5 DEF LastRecv
    <3>2. ~(k < Len(rx))
      <4> SUFFICES ASSUME k < Len(rx) PROVE FALSE
        OBVIOUS
      <4>1. Len(SubSeq(rx, k + 1, Len(rx))) = Len(rx) - k
        BY <2>2
      <4>2. Len(SubSeq(rx, k + 1, Len(rx))) = 0
        <5>1. Len(<<>>) = 0
          OBVIOUS
        <5> QED
          BY <3>1, <5>1, Zenon
      <4> QED
        BY <2>2, <4>1, <4>2
    <3>3. SubSeq(rx, 1, k) = rx
      BY <2>2, <3>2
    <3> QED
      BY <3>3 DEF new
  <2> HIDE DEF d
  <2> QED
    BY <1>1, <2>1, <2>4, <2>5 DEF HasRead
<1> QED
  BY <1>2, <1>3
==============================================================================
