----------------------------- MODULE MCWebServer -----------------------------
(* Small instances of WebServer. *)
EXTENDS WebServer

MCNumbers == [n0 |-> 0]
==============================================================================
