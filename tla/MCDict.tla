------------------------------- MODULE MCDict -------------------------------
(* Three keys and tables of 2, 4 and 8 buckets; two of the keys share a      *)
(* bucket in tables of 4 and of 2.                                           *)
EXTENDS Dict

MCHash == <<3, 7, 4>>
==============================================================================
