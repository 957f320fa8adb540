------------------------------- MODULE HttpConn ------------------------------
(***************************************************************************)
(* class http_conn as operators on the record of one connection: init(),   *)
(* read(), the two state machines of process_read() and process().         *)
(*                                                                         *)
(* m_read_buf is the sequence of cells read so far, so m_read_idx is its   *)
(* length, and index i of the code is element i + 1.  A cell holds a token *)
(* that stands for the bytes the parser tells apart:                       *)
(*   "CR", "LF", "NUL"   one byte each                                     *)
(*   "SP"                a space or a tab                                  *)
(*   "GET", "HTTP/1.1"   those words in any case                           *)
(*   "PATH"              text that starts with a slash                     *)
(*   "SCHEME"            http:// in any case                               *)
(*   "Connection:", "Content-Length:", "keep-alive"  in any case           *)
(*   a field of Numbers  a decimal number                                  *)
(*   anything else       text that none of the comparisons matches         *)
(* m_version, m_method, m_host and m_address are written and never read,   *)
(* and so are left out; so are the NULs that split the request line, which *)
(* lie before m_start_line when they are written.                          *)
(***************************************************************************)
EXTENDS Integers, Sequences, SequencesExt

CONSTANTS
    READ_BUFFER_SIZE,
    Numbers            \* record: number token |-> what atol() makes of it

ASSUME ConnAssumption == READ_BUFFER_SIZE \in Nat \ {0}

\* Mutant: m_linger is not reset.
initKeepsLinger(c) ==
    [c EXCEPT !.m_check_state = "REQUESTLINE", !.m_checked_index = 0,
              !.m_start_line = 0, !.m_read_buf = <<>>, !.m_url = <<>>]

\* init(): m_content_length is not among the fields it resets.
init(c) ==
    [c EXCEPT !.m_check_state = "REQUESTLINE", !.m_checked_index = 0,
              !.m_start_line = 0, !.m_read_buf = <<>>, !.m_url = <<>>,
              !.m_linger = FALSE]

\* An element of users before its first init(); garbage is what the
\* uninitialised m_content_length happens to hold.
RawConn(garbage) ==
    init([m_check_state |-> "", m_checked_index |-> 0, m_start_line |-> 0,
          m_read_buf |-> <<>>, m_url |-> <<>>, m_linger |-> FALSE,
          m_content_length |-> garbage])
-----------------------------------------------------------------------------
(* read(). *)

\* What recv() may answer once rest is still in the socket: data that does not
\* fit makes it answer 0, like the end of the stream; a call with no room and
\* no data may answer 0 or EAGAIN.
LastRecv(full, rest, eof) ==
    IF eof \/ rest # <<>> THEN {"zero"}
    ELSE IF full THEN {"zero", "EAGAIN"} ELSE {"EAGAIN"}

\* Mutant: recv() is offered the whole buffer at every turn.
RoomAlways(c) == READ_BUFFER_SIZE

\* Mutant: the last byte of the buffer is kept for a NUL.
RoomForNul(c) == READ_BUFFER_SIZE - 1 - Len(c.m_read_buf)

Room(c) == READ_BUFFER_SIZE - Len(c.m_read_buf)

\* The outcomes of read() with rx in the socket: ok is what it returns.
read(c, rx, eof) ==
    IF Len(c.m_read_buf) >= READ_BUFFER_SIZE
    THEN {[ok |-> FALSE, conn |-> c]}
    ELSE LET k == IF Len(rx) <= Room(c) THEN Len(rx) ELSE Room(c)
             d == [c EXCEPT !.m_read_buf = @ \o SubSeq(rx, 1, k)]
         IN  {[ok |-> a = "EAGAIN", conn |-> d] :
                a \in LastRecv(Room(d) = 0, SubSeq(rx, k + 1, Len(rx)), eof)}
-----------------------------------------------------------------------------
(* The line machine. *)

\* The cells whose index is in S become '\0'.
Zero(buf, S) == [k \in DOMAIN buf |-> IF k - 1 \in S THEN "NUL" ELSE buf[k]]

\* Mutant: the '\r' is stepped over, so the '\n' that follows is never matched.
OpenAfterCR(c) == [status |-> "LINE_OPEN", conn |-> [c EXCEPT !.m_checked_index = @ + 1]]

\* The buffer ends in '\r': its '\n' may be in the next segment.
OpenAtCR(c) == [status |-> "LINE_OPEN", conn |-> c]

\* parse_line(): no path reaches the loop's increment, so an ordinary first
\* byte answers LINE_OPEN; an exhausted buffer answers LINE_OK.
parse_line(c) ==
    LET i == c.m_checked_index
        buf == c.m_read_buf
        Bad == [status |-> "LINE_BAD", conn |-> c]
        Ended(k) == [status |-> "LINE_OK",
                     conn |-> [c EXCEPT !.m_read_buf = Zero(@, {k, k + 1}),
                                        !.m_checked_index = k + 2]]
    IN  IF i >= Len(buf) THEN [status |-> "LINE_OK", conn |-> c]
        ELSE CASE buf[i + 1] = "CR" ->
                    IF i + 1 = Len(buf) THEN OpenAtCR(c)
                    ELSE IF buf[i + 2] = "LF" THEN Ended(i) ELSE Bad
               [] buf[i + 1] = "LF" ->
                    IF i > 1 /\ buf[i] = "CR" THEN Ended(i - 1) ELSE Bad
               [] OTHER -> [status |-> "LINE_OPEN", conn |-> c]
-----------------------------------------------------------------------------
(* The C strings that the request machine looks at. *)

\* Index of the first token of s in set T, or 0.
First(s, T) == SelectInSeq(s, LAMBDA t : t \in T)

Before(s, i) == SubSeq(s, 1, i - 1)
After(s, i) == SubSeq(s, i + 1, Len(s))

\* get_line(): the string that starts at index i.
CString(buf, i) ==
    LET s == After(buf, i)
    IN  IF First(s, {"NUL"}) = 0 THEN s ELSE Before(s, First(s, {"NUL"}))

\* text += strspn(text, " \t")
SkipBlanks(s) ==
    LET k == SelectInSeq(s, LAMBDA t : t # "SP")
    IN  IF k = 0 THEN <<>> ELSE SubSeq(s, k, Len(s))

\* atol(): the number the text starts with, else 0.
atol(s) == IF s # <<>> /\ Head(s) \in DOMAIN Numbers THEN Numbers[Head(s)] ELSE 0

\* Tokens whose text holds a slash, for strchr(m_url, '/').
Slashed == {"PATH", "SCHEME", "HTTP/1.1"}
-----------------------------------------------------------------------------
(* The request machine: each parser answers a code and the connection. *)

Answer(c, code) == [code |-> code, conn |-> c]

\* Mutant: the URL is not required to start with a slash.
UrlOfAny(word) == word

\* The URL with http:// and the host cut off, <<>> if it is not absolute.
UrlOf(word) ==
    IF word # <<>> /\ Head(word) = "SCHEME"
    THEN LET k == First(Tail(word), Slashed)
         IN  IF k = 0 THEN <<>> ELSE After(word, k)
    ELSE IF word # <<>> /\ Head(word) = "PATH" THEN word ELSE <<>>

\* The line after the first blank: url, blank, version.
UrlAndVersion(c, method, rest, sep) ==
    IF \/ method # <<"GET">>
       \/ sep = 0
       \/ After(rest, sep) # <<"HTTP/1.1">>
       \/ UrlOf(Before(rest, sep)) = <<>>
    THEN Answer(c, "BAD_REQUEST")
    ELSE Answer([c EXCEPT !.m_url = UrlOf(Before(rest, sep)), !.m_check_state = "HEADER"],
                "NO_REQUEST")

\* parse_request_line() on a line whose first blank is at sep: strpbrk() answers
\* NULL for a line with no blank, and the code writes through it ("FAULT").
SplitAt(c, text, sep) ==
    IF sep = 0 THEN Answer(c, "FAULT")
    ELSE UrlAndVersion(c, Before(text, sep), After(text, sep),
                       First(After(text, sep), {"SP"}))

parse_request_line(c, text) == SplitAt(c, text, First(text, {"SP"}))

\* m_linger after a Connection: header: it is set and never cleared.
Linger(c, value) == c.m_linger \/ value = <<"keep-alive">>

\* A header line: Host: and unknown headers leave nothing that is read.
Header(c, name, value) ==
    CASE name = "Connection:" -> [c EXCEPT !.m_linger = Linger(c, value)]
      [] name = "Content-Length:" -> [c EXCEPT !.m_content_length = atol(value)]
      [] OTHER -> c

parse_headers(c, text) ==
    IF text # <<>>
    THEN Answer(Header(c, Head(text), SkipBlanks(Tail(text))), "NO_REQUEST")
    ELSE IF c.m_content_length # 0
    THEN Answer([c EXCEPT !.m_check_state = "CONTENT"], "NO_REQUEST")
    ELSE Answer(c, "GET_REQUEST")

\* parse_content() on the text at index i.
parse_content(c, i) ==
    IF Len(c.m_read_buf) >= c.m_content_length + c.m_checked_index
    THEN Answer([c EXCEPT !.m_read_buf = Zero(@, {i + c.m_content_length})], "GET_REQUEST")
    ELSE Answer(c, "NO_REQUEST")

\* do_request() has no return statement: the code it answers is undefined.
do_request == "UNDEFINED"

\* The loop of process_read() goes on, or returns code.
Again(c, line_status) ==
    [conn |-> c, line_status |-> line_status, code |-> "SPIN", done |-> FALSE]
Return(c, code) ==
    [conn |-> c, line_status |-> "LINE_OK", code |-> code, done |-> TRUE]

\* What the switch does with the answer of each parser.
AfterRequestLine(r) ==
    IF r.code = "NO_REQUEST" THEN Again(r.conn, "LINE_OK") ELSE Return(r.conn, r.code)

AfterContent(r) ==
    IF r.code = "GET_REQUEST" THEN Return(r.conn, do_request) ELSE Again(r.conn, "LINE_OPEN")

\* case HEADER has no break: a header line goes on to parse_content().
AfterHeaders(r, i) ==
    IF r.code = "GET_REQUEST" THEN Return(r.conn, do_request)
    ELSE AfterContent(parse_content(r.conn, i))

\* The body of the loop on the text that starts at index i.
Switch(c, i) ==
    CASE c.m_check_state = "REQUESTLINE" ->
           AfterRequestLine(parse_request_line(c, CString(c.m_read_buf, i)))
      [] c.m_check_state = "HEADER" ->
           AfterHeaders(parse_headers(c, CString(c.m_read_buf, i)), i)
      [] c.m_check_state = "CONTENT" -> AfterContent(parse_content(c, i))

LoopBody(line) ==
    IF line.status # "LINE_OK" THEN Return(line.conn, "NO_REQUEST")
    ELSE Switch([line.conn EXCEPT !.m_start_line = line.conn.m_checked_index],
                line.conn.m_start_line)

\* The condition of the loop: a body needs no parse_line().
Turn(s) ==
    LoopBody(IF s.conn.m_check_state = "CONTENT" /\ s.line_status = "LINE_OK"
             THEN [status |-> "LINE_OK", conn |-> s.conn] ELSE parse_line(s.conn))

\* Turns after which process_read() has returned or never will.
MaxTurns == READ_BUFFER_SIZE + 3

\* process_read(); "SPIN" is a loop that no longer makes progress.
process_read(c) ==
    LET loop[n \in 0..MaxTurns] ==
          IF n = 0 THEN Again(c, "LINE_OK")
          ELSE LET s == loop[n - 1] IN IF s.done THEN s ELSE Turn(s)
    IN  loop[MaxTurns]

\* Mutant: process() returns without modfd().
processNoRearm(c) == {[ret |-> "done", conn |-> process_read(c).conn]}

\* process() ends with modfd(), or without it.
Rearm(r) == [ret |-> "rearm", conn |-> r.conn]
Leave(r) ==
    [ret |-> IF r.code \in {"FAULT", "SPIN"} THEN r.code ELSE "done", conn |-> r.conn]

\* It re-arms the descriptor only after NO_REQUEST, which the undefined answer
\* of do_request() may be; after any other code it parses once more.
AfterRead(r) ==
    CASE r.code = "NO_REQUEST" -> {Rearm(r)}
      [] r.code = "UNDEFINED" -> {Rearm(r), Leave(process_read(r.conn))}
      [] r.code \in {"FAULT", "SPIN"} -> {Leave(r)}
      [] OTHER -> {Leave(process_read(r.conn))}

\* The outcomes of process().
process(c) == AfterRead(process_read(c))
==============================================================================
