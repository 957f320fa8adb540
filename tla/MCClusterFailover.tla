-------------------------- MODULE MCClusterFailover --------------------------
(* Three masters, of which the first has two replicas, and a slot each. *)
EXTENDS ClusterFailover

MCSlaveof == [n \in 1..5 |-> IF n > 3 THEN 1 ELSE None]
MCOwner == [s \in 1..3 |-> s]
MCEpoch == [n \in 1..5 |-> IF n > 3 THEN 1 ELSE n]
MCScenarios == {
    [down |-> {1}, epoch |-> 5, slow |-> {}, restarts |-> 0],
    [down |-> {1}, epoch |-> 4, slow |-> {}, restarts |-> 1],
    [down |-> {5}, epoch |-> 4, slow |-> {1}, restarts |-> 0]}

\* Bounds, where there are two rounds of elections: one vote or correction is on its way
\* at a time, and nobody counts votes beyond the two that elect.  The other scenarios have
\* no such bounds.
Bounded ==
    scenario.epoch = 5 => /\ Cardinality({p \in net : p.type \in {"ACK", "UPDATE"}}) <= 1
                          /\ \A n \in Nodes : cluster[n].auth_count <= 2
==============================================================================
