------------------------------- MODULE KeySet -------------------------------
(***************************************************************************)
(* What a dict promises its callers: a set of keys.  reply is the last     *)
(* call and whether it was successful.                                     *)
(***************************************************************************)
CONSTANT Keys

VARIABLES keys, reply

Init == keys = {} /\ reply = <<>>

\* dictAdd(): FALSE when the key exists.
Add(k) == keys' = keys \cup {k} /\ reply' = <<"add", k, k \notin keys>>

\* dictDelete(): FALSE when there is no such key.
Delete(k) == keys' = keys \ {k} /\ reply' = <<"delete", k, k \in keys>>

\* dictFind().
Find(k) == reply' = <<"find", k, k \in keys>> /\ UNCHANGED keys

\* dictGetRandomKey(): any key of the set, or NULL when there is none.
Random == reply' = <<"random", keys # {}>> /\ UNCHANGED keys

Empty == keys' = {} /\ UNCHANGED reply

Next == (\E k \in Keys : Add(k) \/ Delete(k) \/ Find(k)) \/ Random \/ Empty

Spec == Init /\ [][Next]_<<keys, reply>>
==============================================================================
