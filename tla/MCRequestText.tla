---------------------------- MODULE MCRequestText ----------------------------
(* Instance of RequestText: all lines of the tokens below. *)
EXTENDS RequestText

MCNumbers == [n0 |-> 0, n1 |-> 1]

MCHeaderLines ==
    {<<>>, <<"Connection:", "SP", "keep-alive">>, <<"Connection:", "SP", "x">>,
     <<"Content-Length:", "n1">>, <<"Content-Length:", "SP", "SP", "n0">>,
     <<"Content-Length:", "x">>, <<"x", "SP", "n1">>}
==============================================================================
