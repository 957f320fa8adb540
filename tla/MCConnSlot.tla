----------------------------- MODULE MCConnSlot ------------------------------
(* Instances of ConnSlot: segments of one or two tokens, or whole requests. *)
EXTENDS ConnSlot

MCNumbers == [n0 |-> 0, n1 |-> 1]

Tokens == {"GET", "SP", "CR", "LF"}
ShortSegments == {<<t>> : t \in Tokens} \cup {<<t, u>> : t \in Tokens, u \in Tokens}

WholeRequests ==
    {<<"GET", "SP", "PATH", "SP", "HTTP/1.1", "CR", "LF", "CR", "LF">>}
==============================================================================
