------------------------------- MODULE ConnSlot ------------------------------
(***************************************************************************)
(* One element of the users array over its successive connections: the     *)
(* main thread calls init(), read() and close_conn() on it, a worker calls *)
(* process().  EPOLLONESHOT makes the two take turns (WebServer shows it), *)
(* so here a read() is followed by its process().                          *)
(***************************************************************************)
EXTENDS HttpConn

CONSTANTS
    Segments,   \* what one readiness event may find in the socket
    Garbage     \* what an uninitialised m_content_length may hold

ASSUME SlotAssumption == Segments \subseteq Seq(STRING) /\ Garbage \subseteq Int

VARIABLES
    conn,       \* the http_conn object
    sent,       \* every token of the current connection read so far
    at          \* "closed", "armed", "read", or how process() ended

slotvars == <<conn, sent, at>>

Init ==
    /\ conn \in {RawConn(g) : g \in Garbage}
    /\ sent = <<>>
    /\ at = "closed"

\* users[connfd].init(connfd, client_address)
Open ==
    /\ at = "closed"
    /\ conn' = init(conn)
    /\ sent' = <<>>
    /\ at' = "armed"

\* EPOLLIN: read(), then append() or close_conn().
Receive(seg, eof) ==
    /\ at = "armed"
    /\ \E o \in read(conn, seg, eof) :
         /\ conn' = o.conn
         /\ at' = IF o.ok THEN "read" ELSE "closed"
    /\ sent' = sent \o seg

\* EPOLLRDHUP, EPOLLHUP or EPOLLERR: close_conn().
HangUp ==
    /\ at = "armed"
    /\ at' = "closed"
    /\ UNCHANGED <<conn, sent>>

\* A worker calls process().
Work ==
    /\ at = "read"
    /\ \E o \in process(conn) :
         /\ conn' = o.conn
         /\ at' = IF o.ret = "rearm" THEN "armed" ELSE o.ret
    /\ UNCHANGED sent

\* The null pointer of parse_request_line() has ended the program.
Crashed == at = "FAULT" /\ UNCHANGED slotvars

Next ==
    \/ Open \/ HangUp \/ Work \/ Crashed
    \/ \E seg \in Segments, eof \in BOOLEAN : Receive(seg, eof)

Spec == Init /\ [][Next]_slotvars
-----------------------------------------------------------------------------
(* Properties. *)

\* The three indices of http_conn stay ordered and inside m_read_buf, over any
\* number of segments and of re-used slots (http_conn.cpp:94, 106, 126, 269).
ParserIndices ==
    /\ 0 <= conn.m_start_line
    /\ conn.m_start_line <= conn.m_checked_index
    /\ conn.m_checked_index <= Len(conn.m_read_buf)
    /\ Len(conn.m_read_buf) <= READ_BUFFER_SIZE

\* How the client's bytes are cut into segments changes nothing: process() ends
\* as on a fresh connection that receives all of them at once, in a slot never
\* used before, save for the m_content_length that init() leaves as it was
\* (http_conn.cpp:62-73, 264-282).
SegmentationIndependence ==
    at \in {"armed", "done", "FAULT", "SPIN"} /\ sent # <<>> =>
        \A o \in read(RawConn(conn.m_content_length), sent, FALSE) :
            o.ok => \E q \in process(o.conn) :
                        /\ q.conn = conn
                        /\ q.ret = IF at = "armed" THEN "rearm" ELSE at

\* process() always returns to the main loop or ends the program: it neither
\* loops for ever nor drops the connection without an answer and without
\* re-arming it (http_conn.cpp:119-120, 310-315).
ProcessRearms == at \notin {"SPIN", "done"}

\* A client that has not closed is disconnected only when its segments together fill
\* the buffer: recv() is then asked for 0 bytes, and its 0 is taken for the end of the
\* stream (http_conn.cpp:94, 102-105).  That happens to every client that sends more than
\* the buffer holds, and may happen to one that fills it exactly; nobody else is
\* dropped, however the bytes are cut.
DroppedOnlyWhenFull ==
    [][\A seg \in Segments : Receive(seg, FALSE) =>
          /\ at' = "closed" => Len(sent') >= READ_BUFFER_SIZE
          /\ Len(sent') > READ_BUFFER_SIZE => at' = "closed"]_slotvars

\* A request as a client sends it: a line, headers, an empty line.
CompleteRequest(s) ==
    /\ Len(s) > 4 /\ Head(s) = "GET"
    /\ SubSeq(s, Len(s) - 3, Len(s)) = <<"CR", "LF", "CR", "LF">>

\* http_conn.h:47 says that NO_REQUEST means an incomplete request, so process()
\* does not re-arm for more data once a complete one has been read.
NoRequestMeansIncomplete == at = "armed" => ~CompleteRequest(sent)
==============================================================================
