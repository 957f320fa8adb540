---------------------------- MODULE MCReplication ----------------------------
EXTENDS Replication, TLC

Pair == 1 :> None @@ 2 :> 1
Star == 1 :> None @@ 2 :> 1 @@ 3 :> 1
Chain == 1 :> None @@ 2 :> 1 @@ 3 :> 2

MCScenarios == {
    [hosts |-> Pair, writes |-> 2, changes |-> 2, faults |-> 1, saves |-> 0],
    [hosts |-> Pair, writes |-> 3, changes |-> 1, faults |-> 1, saves |-> 1],
    [hosts |-> Star, writes |-> 2, changes |-> 1, faults |-> 0, saves |-> 0],
    [hosts |-> Star, writes |-> 1, changes |-> 1, faults |-> 1, saves |-> 0],
    [hosts |-> Chain, writes |-> 1, changes |-> 1, faults |-> 1, saves |-> 0],
    [hosts |-> Chain, writes |-> 1, changes |-> 2, faults |-> 0, saves |-> 0],
    [hosts |-> Chain, writes |-> 2, changes |-> 1, faults |-> 0, saves |-> 0]}
==============================================================================
