----------------------------- MODULE RequestText -----------------------------
(***************************************************************************)
(* parse_request_line() called on every line up to MaxLine tokens, then    *)
(* parse_headers() on the lines after it: what the two functions accept,   *)
(* compared with a declarative reading, request after request in one slot. *)
(***************************************************************************)
EXTENDS HttpConn

CONSTANTS
    LineTokens,     \* the tokens a request line is made of
    HeaderLines,    \* the header lines that may come after it
    MaxLine,        \* bound: tokens of the request line
    MaxHeaders,     \* bound: header lines
    Leftover        \* what an uninitialised m_content_length may hold

VARIABLES
    conn,
    left,           \* m_content_length at the last call of init()
    text,           \* the line given to parse_request_line()
    headers,        \* the lines given to parse_headers(), in order
    code            \* what the last parser called answered

textvars == <<conn, left, text, headers, code>>

\* The first init() of a users element, which leaves m_content_length as it is.
Init ==
    /\ left \in Leftover
    /\ conn = RawConn(left)
    /\ text = <<>>
    /\ headers = <<>>
    /\ code = "none"

\* The line grows until it is parsed.
Token(t) ==
    /\ code = "none" /\ Len(text) < MaxLine
    /\ text' = Append(text, t)
    /\ UNCHANGED <<conn, left, headers, code>>

\* case CHECK_STATE_REQUESTLINE
RequestLine ==
    /\ code = "none"
    /\ LET r == parse_request_line(conn, text)
       IN  conn' = r.conn /\ code' = r.code
    /\ UNCHANGED <<left, text, headers>>

\* case CHECK_STATE_HEADER
HeaderLine(line) ==
    /\ code = "NO_REQUEST" /\ conn.m_check_state = "HEADER"
    /\ Len(headers) < MaxHeaders
    /\ LET r == parse_headers(conn, line)
       IN  conn' = r.conn /\ code' = r.code
    /\ headers' = Append(headers, line)
    /\ UNCHANGED <<left, text>>

\* The connection is closed, and init() gives the slot to the next one.
Reuse ==
    /\ code # "FAULT"
    /\ conn' = init(conn)
    /\ left' = conn.m_content_length
    /\ text' = <<>> /\ headers' = <<>> /\ code' = "none"

Next ==
    \/ \E t \in LineTokens : Token(t)
    \/ RequestLine
    \/ \E l \in HeaderLines : HeaderLine(l)
    \/ Reuse

Spec == Init /\ [][Next]_textvars
-----------------------------------------------------------------------------
(* Properties. *)

\* GET blank url blank HTTP/1.1, where the url is a path, or http:// and a host
\* without blanks up to a path.
IsRequestLine(s) ==
    \E u \in 3..(Len(s) - 2) :
        /\ SubSeq(s, 1, 2) = <<"GET", "SP">>
        /\ SubSeq(s, u + 1, Len(s)) = <<"SP", "HTTP/1.1">>
        /\ \A i \in 3..u : s[i] # "SP"
        /\ \/ s[3] = "PATH"
           \/ s[3] = "SCHEME" /\ \E i \in 4..u : s[i] \in Slashed

\* parse_request_line() moves on to the headers exactly for the lines of the
\* grammar above, and reads through a null pointer exactly when the line has no
\* blank (http_conn.cpp:171-207).
RequestLineGrammar ==
    code # "none" /\ headers = <<>> =>
        /\ conn.m_check_state = "HEADER" <=> IsRequestLine(text)
        /\ code = "FAULT" <=> \A i \in DOMAIN text : text[i] # "SP"
        /\ code = "NO_REQUEST" => Head(conn.m_url) \in Slashed

\* The lines that are Content-Length headers.
Announcing(lines) ==
    {i \in DOMAIN lines : lines[i] # <<>> /\ Head(lines[i]) = "Content-Length:"}

\* The last Content-Length header, by its value, else what was there before.
LengthOf(lines, before) ==
    LET I == Announcing(lines)
    IN  IF I = {} THEN before
        ELSE LET last == CHOOSE i \in I : \A j \in I : j <= i
             IN  atol(SkipBlanks(Tail(lines[last])))

\* After any run of header lines the connection is kept iff one of them was
\* Connection: keep-alive, the length is that of the last Content-Length and
\* without one what the slot held before init(), and the empty line ends the
\* request exactly when that length is 0 (http_conn.cpp:62-73, 210-246).
HeaderFields ==
    /\ conn.m_linger <=> \E i \in DOMAIN headers :
            /\ headers[i] # <<>> /\ Head(headers[i]) = "Connection:"
            /\ SkipBlanks(Tail(headers[i])) = <<"keep-alive">>
    /\ conn.m_content_length = LengthOf(headers, left)
    /\ headers # <<>> /\ Last(headers) = <<>> =>
            (code = "GET_REQUEST") <=> (LengthOf(headers, left) = 0)
==============================================================================
