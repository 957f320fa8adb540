--------------------------- MODULE ClusterFailover ---------------------------
(***************************************************************************)
(* redis-5.0.10/src/cluster.c: how the replicas of a failing master get    *)
(* elected by the other masters, and how the new owner of the slots        *)
(* becomes known.  Every node keeps its own view of the cluster (a         *)
(* clusterState); handlers are operators on that record, and the packets   *)
(* of the cluster bus may be delayed, lost and overtaken by each other.    *)
(*                                                                         *)
(* Left out: handshakes (all nodes know each other), manual failover and   *)
(* resharding (mf_end is 0, no slot is importing), replica migration, and  *)
(* the voting that leads to FAIL: any node may be told that another one    *)
(* has failed.  Clocks are nondeterministic choices.                       *)
(***************************************************************************)
EXTENDS Naturals, FiniteSets

CONSTANTS
    Nodes,          \* node IDs; memcmp() on names is < on numbers
    None,
    Slots,
    InitSlaveof,    \* [Nodes -> Nodes \cup {None}]
    InitOwner,      \* [Slots -> Nodes]
    InitEpoch,      \* [Nodes -> Nat]: the config epochs at the start
    Suspects,       \* bound: nodes that are ever reported as failing
    Scenarios       \* bounds, of which a behaviour has one: the nodes that are down
                    \* for good, the last epoch, the nodes of which a heartbeat (one
                    \* at a time) may be delayed and how many restarts there are

ASSUME ClusterAssumption ==
    /\ Nodes \subseteq Nat /\ IsFiniteSet(Nodes) /\ None \notin Nodes
    /\ InitSlaveof \in [Nodes -> Nodes \cup {None}]
    /\ InitOwner \in [Slots -> Nodes]
    /\ \A s \in Slots : InitSlaveof[InitOwner[s]] = None     \* masters own the slots
    /\ InitEpoch \in [Nodes -> Nat]
    /\ Suspects \subseteq Nodes
    /\ Scenarios \subseteq
          [down : SUBSET Nodes, epoch : Nat, slow : SUBSET Nodes, restarts : Nat]

VARIABLES
    cluster,    \* per node: its clusterState
    scenario,   \* the bounds of this behaviour
    net,        \* packets on their way
    winners,    \* <<epoch, node>> of every election won (history)
    carried,    \* <<epoch, node>> of every election announced with votes already
                \* counted (history)
    restarts    \* number of restarts so far

vars == <<cluster, scenario, net, winners, carried, restarts>>

Up == Nodes \ scenario.down

MaxOf(S) == CHOOSE x \in S : \A y \in S : y <= x
Later(a, b) == IF a < b THEN b ELSE a

IsMaster(st, n) == st.slaveof[n] = None
SlotsOf(st, n) == {s \in Slots : st.slots[s] = n}

\* clusterUpdateState(): masters serving slots count, failing or not.
Size(st) == Cardinality({n \in Nodes : IsMaster(st, n) /\ SlotsOf(st, n) # {}})
NeededQuorum(st) == Size(st) \div 2 + 1

clusterGetMaxEpoch(st) == MaxOf({st.configEpoch[n] : n \in Nodes} \cup {st.currentEpoch})

\* What the last clusterSaveConfig() wrote, apart from the current epoch.
Persisted(st) == <<st.lastVoteEpoch, st.slaveof, st.configEpoch, st.slots, st.fail>>

\* clusterBeforeSleep(): a change of the configuration or a new election is
\* saved; a current epoch learned from a packet alone is not.
clusterBeforeSleep(old, new) ==
    [new EXCEPT !.saved =
        IF Persisted(new) # Persisted(old) \/ new.auth_epoch # old.auth_epoch
        THEN new.currentEpoch ELSE @]
-----------------------------------------------------------------------------
(* Packets. *)

\* A replica announces its master's slots and epoch.
clusterBuildMessageHdr(n, type, to) ==
    LET st == cluster[n]
        master == IF IsMaster(st, n) THEN n ELSE st.slaveof[n]
    IN  [type |-> type, from |-> n, to |-> to, currentEpoch |-> st.currentEpoch,
         configEpoch |-> st.configEpoch[master], myslots |-> SlotsOf(st, master),
         slaveof |-> st.slaveof[n]]

\* clusterSendUpdate(): the header and the configuration of node about.
UpdatePacket(st, n, to, about) ==
    [type |-> "UPDATE", from |-> n, to |-> to, currentEpoch |-> st.currentEpoch,
     about |-> about, reportedConfigEpoch |-> st.configEpoch[about],
     slots |-> SlotsOf(st, about),
     configEpoch |-> st.configEpoch[IF IsMaster(st, n) THEN n ELSE st.slaveof[n]]]

\* clusterProcessPacket() does this for every packet of a known node.
LearnEpochs(st, p) ==
    IF p.currentEpoch <= st.currentEpoch /\ p.configEpoch <= st.configEpoch[p.from]
    THEN st
    ELSE [st EXCEPT !.currentEpoch = Later(@, p.currentEpoch),
                    !.configEpoch[p.from] = Later(@, p.configEpoch)]
-----------------------------------------------------------------------------
(* Who serves which slot. *)

Believes(st, s, sender, epoch) ==
    /\ st.slots[s] # sender
    /\ st.slots[s] = None \/ st.configEpoch[st.slots[s]] < epoch

\* Mutant: a node steps down for any claim to its slots.
StepDownForAnyClaim(me, st, sender, epoch, claimed) ==
    [st EXCEPT !.slots = [s \in Slots |-> IF s \in claimed /\ Believes(st, s, sender, epoch)
                                         THEN sender ELSE @[s]],
               !.slaveof[me] = IF \E s \in claimed : st.slots[s] = me THEN sender ELSE @]

\* A node whose master (or which itself) is left without slots becomes a
\* replica of the new owner.
clusterUpdateSlotsConfigWith(me, st, sender, epoch, claimed) ==
    LET taken == {s \in claimed : Believes(st, s, sender, epoch)}
        curmaster == IF IsMaster(st, me) THEN me ELSE st.slaveof[me]
        slots == [s \in Slots |-> IF s \in taken THEN sender ELSE st.slots[s]]
        demoted == /\ \E s \in taken : st.slots[s] = curmaster
                   /\ \A s \in Slots : slots[s] # curmaster
    IN  IF sender = me THEN st
        ELSE [st EXCEPT !.slots = slots,
                        !.slaveof[me] = IF demoted THEN sender ELSE @]

\* A master that turned into a replica loses its slots.
RoleSwitch(st, p) ==
    IF p.slaveof = st.slaveof[p.from] THEN st
    ELSE [st EXCEPT !.slaveof[p.from] = p.slaveof,
                    !.slots = [s \in Slots |->
                        IF p.slaveof # None /\ IsMaster(st, p.from) /\ @[s] = p.from
                        THEN None ELSE @[s]]]

\* FAIL is cleared for a replica, a master without slots, or after long enough.
clearNodeFailureIfNeeded(st, n, longAgo) ==
    IF n \in st.fail /\ (~IsMaster(st, n) \/ SlotsOf(st, n) = {} \/ longAgo)
    THEN [st EXCEPT !.fail = @ \ {n}] ELSE st

\* Mutant: two masters may keep the same epoch.
KeepConfigEpoch(me, st, p) == st

\* The node with the smaller ID takes the next epoch, without consensus.
clusterHandleConfigEpochCollision(me, st, p) ==
    IF /\ IsMaster(st, me) /\ IsMaster(st, p.from)
       /\ p.configEpoch = st.configEpoch[me]
       /\ st.configEpoch[p.from] = st.configEpoch[me]
       /\ p.from > me
    THEN [st EXCEPT !.currentEpoch = @ + 1, !.configEpoch[me] = st.currentEpoch + 1]
    ELSE st

\* UPDATE for the first slot the sender claims and somebody serves with a
\* greater epoch.
Corrections(me, st, p) ==
    LET stale == {s \in p.myslots : /\ st.slots[s] \notin {p.from, None}
                                    /\ st.configEpoch[st.slots[s]] > p.configEpoch}
    IN  {UpdatePacket(st, me, p.from, st.slots[s]) :
            s \in {t \in stale : \A u \in stale : t <= u}}

Heartbeat(me, st, p, longAgo) ==
    LET switched == RoleSwitch(clearNodeFailureIfNeeded(st, p.from, longAgo), p)
        sender_master == IF IsMaster(switched, p.from) THEN p.from
                         ELSE switched.slaveof[p.from]
        dirty == SlotsOf(switched, sender_master) # p.myslots
        updated == IF dirty /\ IsMaster(switched, p.from)
                   THEN clusterUpdateSlotsConfigWith(me, switched, p.from,
                                                     p.configEpoch, p.myslots)
                   ELSE switched
    IN  [st |-> clusterHandleConfigEpochCollision(me, updated, p),
         out |-> IF dirty THEN Corrections(me, updated, p) ELSE {}]

\* The packet of a node that knows better.
ProcessUpdate(me, st, p) ==
    IF st.configEpoch[p.about] >= p.reportedConfigEpoch THEN st
    ELSE clusterUpdateSlotsConfigWith(me,
            [st EXCEPT !.slaveof[p.about] = None,
                       !.configEpoch[p.about] = p.reportedConfigEpoch],
            p.about, p.reportedConfigEpoch, p.slots)
-----------------------------------------------------------------------------
(* Elections. *)

\* Mutant: lastVoteEpoch is not looked at.
MayVoteAgain(me, st, p) ==
    /\ IsMaster(st, me) /\ SlotsOf(st, me) # {}
    /\ p.currentEpoch >= st.currentEpoch
    /\ ~IsMaster(st, p.from) /\ st.slaveof[p.from] \in st.fail
    /\ \A s \in p.myslots :
          st.slots[s] = None \/ st.configEpoch[st.slots[s]] <= p.configEpoch

\* clusterSendFailoverAuthIfNeeded(), but for the pause after a vote about
\* the same master.
MayVote(me, st, p) ==
    /\ IsMaster(st, me) /\ SlotsOf(st, me) # {}
    /\ p.currentEpoch >= st.currentEpoch
    /\ st.lastVoteEpoch # st.currentEpoch
    /\ ~IsMaster(st, p.from) /\ st.slaveof[p.from] \in st.fail
    /\ \A s \in p.myslots :
          st.slots[s] = None \/ st.configEpoch[st.slots[s]] <= p.configEpoch

VotePacket(st, me, to) ==
    [type |-> "ACK", from |-> me, to |-> to, currentEpoch |-> st.currentEpoch,
     configEpoch |-> st.configEpoch[me]]

\* soon: the last vote about this master was less than two timeouts ago.
clusterSendFailoverAuthIfNeeded(me, st, p, soon) ==
    IF MayVote(me, st, p) /\ ~soon
    THEN [st |-> [st EXCEPT !.lastVoteEpoch = st.currentEpoch],
          out |-> {VotePacket(st, me, p.from)}]
    ELSE [st |-> st, out |-> {}]

\* A vote of a master with slots, given in the epoch of the election or later.
CountVote(st, p) ==
    [st EXCEPT !.auth_count =
        IF /\ IsMaster(st, p.from) /\ SlotsOf(st, p.from) # {}
           /\ p.currentEpoch >= st.auth_epoch
        THEN @ + 1 ELSE @]

\* clusterFailoverReplaceYourMaster(): the master's slots are mine.
clusterFailoverReplaceYourMaster(me, st) ==
    [st EXCEPT !.slaveof[me] = None,
               !.slots = [s \in Slots |-> IF @[s] = st.slaveof[me] THEN me ELSE @[s]],
               !.configEpoch[me] = Later(@, st.auth_epoch)]

FailoverNeeded(me, st) ==
    /\ ~IsMaster(st, me) /\ st.slaveof[me] \in st.fail
    /\ SlotsOf(st, st.slaveof[me]) # {}

Wins(me, st) == st.auth_sent /\ st.auth_count >= NeededQuorum(st)

\* clusterHandleSlaveFailover().  clock: "retry" when auth_retry_time is over (as
\* it is before the first election), "go" within auth_timeout, "wait" otherwise.
clusterHandleSlaveFailover(me, st, clock) ==
    IF ~FailoverNeeded(me, st) \/ clock = "wait" THEN st
    ELSE IF clock = "retry"
    THEN [st EXCEPT !.auth_time = TRUE, !.auth_count = 0, !.auth_sent = FALSE]
    ELSE IF ~st.auth_sent
    THEN [st EXCEPT !.currentEpoch = @ + 1, !.auth_sent = TRUE,
                    !.auth_epoch = st.currentEpoch + 1]
    ELSE IF Wins(me, st) THEN clusterFailoverReplaceYourMaster(me, st)
    ELSE st

Clocks(st) == IF st.auth_time THEN {"retry", "wait", "go"} ELSE {"retry"}
-----------------------------------------------------------------------------
Init ==
    /\ cluster = [n \in Nodes |->
          LET top == MaxOf({InitEpoch[m] : m \in Nodes}) IN
          [currentEpoch |-> top, saved |-> top, lastVoteEpoch |-> 0,
           slaveof |-> InitSlaveof, configEpoch |-> InitEpoch, slots |-> InitOwner,
           fail |-> {}, auth_time |-> FALSE, auth_count |-> 0, auth_sent |-> FALSE,
           auth_epoch |-> 0]]
    /\ scenario \in Scenarios
    /\ net = {} /\ winners = {} /\ carried = {} /\ restarts = 0

Become(n, st) ==
    cluster' = [cluster EXCEPT ![n] = clusterBeforeSleep(@, st)]

\* What a clock may say where it is asked.
Choices(asked) == IF asked THEN BOOLEAN ELSE {FALSE}

\* PING or PONG that arrives at once and changes something.
Ping(n, m) ==
    \E longAgo \in Choices(n \in cluster[m].fail) :
      LET p == clusterBuildMessageHdr(n, "PING", m)
          r == Heartbeat(m, LearnEpochs(cluster[m], p), p, longAgo)
      IN  /\ r.st # cluster[m] \/ r.out # {}
          /\ Become(m, r.st)
          /\ net' = net \cup r.out
          /\ UNCHANGED <<scenario, winners, carried, restarts>>

\* PING or PONG that takes its time.
SlowPing(n, m) ==
    /\ n \in scenario.slow /\ \A p \in net : p.type # "PING"
    /\ net' = net \cup {clusterBuildMessageHdr(n, "PING", m)}
    /\ UNCHANGED <<cluster, scenario, winners, carried, restarts>>

ReceivePing(p) ==
    /\ p.type = "PING"
    /\ \E longAgo \in Choices(p.from \in cluster[p.to].fail) :
         LET r == Heartbeat(p.to, LearnEpochs(cluster[p.to], p), p, longAgo)
         IN  Become(p.to, r.st) /\ net' = (net \ {p}) \cup r.out
    /\ UNCHANGED <<scenario, winners, carried, restarts>>

ReceiveUpdate(p) ==
    /\ p.type = "UPDATE"
    /\ Become(p.to, ProcessUpdate(p.to, LearnEpochs(cluster[p.to], p), p))
    /\ net' = net \ {p}
    /\ UNCHANGED <<scenario, winners, carried, restarts>>

\* A request is broadcast and stays: it reaches each master sooner or later, and
\* a second reading of it grants nothing.  One that changes nothing is no step.
ReceiveRequest(p, n) ==
    /\ p.type = "REQUEST" /\ n # p.from
    /\ \E soon \in Choices(MayVote(n, LearnEpochs(cluster[n], p), p)) :
         LET r == clusterSendFailoverAuthIfNeeded(n, LearnEpochs(cluster[n], p), p, soon)
         IN  /\ r.st # cluster[n] \/ r.out # {}
             /\ Become(n, r.st) /\ net' = net \cup r.out
    /\ UNCHANGED <<scenario, winners, carried, restarts>>

Record(n, old, new) ==
    winners' = IF IsMaster(new, n) /\ ~IsMaster(old, n)
               THEN winners \cup {<<new.auth_epoch, n>>} ELSE winners

Announces(old, new) == new.auth_sent /\ ~old.auth_sent

Carry(n, old, new) ==
    carried' = IF Announces(old, new) /\ old.auth_count # 0
               THEN carried \cup {<<new.auth_epoch, n>>} ELSE carried

\* clusterRequestFailoverAuth(): a new election is announced to everybody.
clusterRequestFailoverAuth(n, old, new) ==
    IF ~Announces(old, new) THEN {}
    ELSE {[clusterBuildMessageHdr(n, "REQUEST", None) EXCEPT
              !.currentEpoch = new.currentEpoch,
              !.configEpoch = new.configEpoch[new.slaveof[n]]]}

\* clusterHandleSlaveFailover() of node n from state st, while packets are on their way.
Failover(n, st, clock, packets) ==
    LET new == clusterHandleSlaveFailover(n, st, clock)
    IN  /\ Announces(st, new) => st.currentEpoch < scenario.epoch
        /\ Become(n, new)
        /\ Record(n, st, new) /\ Carry(n, st, new)
        /\ net' = packets \cup clusterRequestFailoverAuth(n, st, new)

\* A vote may decide the election at once (CLUSTER_TODO_HANDLE_FAILOVER).  A vote
\* for an earlier election counts for one that is planned and not yet announced:
\* the count starts at the planning, the epoch changes with the announcement.
ReceiveAck(p, clock) ==
    /\ p.type = "ACK"
    /\ clock \in Clocks(cluster[p.to])
    /\ Failover(p.to, CountVote(LearnEpochs(cluster[p.to], p), p), clock, net \ {p})
    /\ UNCHANGED <<scenario, restarts>>

\* clusterCron() of a replica that does something.
Cron(n, clock) ==
    /\ clock \in Clocks(cluster[n])
    /\ clusterHandleSlaveFailover(n, cluster[n], clock) # cluster[n]
    /\ Failover(n, cluster[n], clock, net)
    /\ UNCHANGED <<scenario, restarts>>

\* clusterSendFail(): a node that a FAIL packet does not reach acts like one
\* whose packets are lost.
MarkFailed(m) ==
    /\ \E n \in Up \ {m} : m \notin cluster[n].fail
    /\ cluster' = [n \in Nodes |-> IF n \notin Up \ {m} THEN cluster[n]
                       ELSE clusterBeforeSleep(cluster[n], [cluster[n] EXCEPT !.fail = @ \cup {m}])]
    /\ UNCHANGED <<scenario, net, winners, carried, restarts>>

\* clusterLoadConfig(): the election state is gone, the epoch as it was saved, and
\* the links are closed with what was on its way to the node.
Restart(n) ==
    /\ restarts < scenario.restarts
    /\ restarts' = restarts + 1
    /\ cluster' = [cluster EXCEPT ![n] =
          [@ EXCEPT !.currentEpoch =
                        clusterGetMaxEpoch([cluster[n] EXCEPT !.currentEpoch = cluster[n].saved]),
                    !.auth_time = FALSE, !.auth_count = 0, !.auth_sent = FALSE,
                    !.auth_epoch = 0]]
    /\ net' = {p \in net : p.to # n}
    /\ UNCHANGED <<scenario, winners, carried>>

Next ==
    \/ \E n \in Up : \/ Restart(n)
                        \/ \E clock \in {"retry", "go"} : Cron(n, clock)
                        \/ \E m \in Up \ {n} : Ping(n, m) \/ SlowPing(n, m)
    \/ \E m \in Suspects : MarkFailed(m)
    \/ \E p \in net : \/ ReceivePing(p) \/ ReceiveUpdate(p)
                      \/ \E n \in Up : ReceiveRequest(p, n)
                      \/ \E clock \in {"retry", "wait", "go"} : ReceiveAck(p, clock)

Spec == Init /\ [][Next]_vars
-----------------------------------------------------------------------------
(* Properties. *)

\* Two replicas never get the same config epoch from an election, "because the slaves
\* need to get voted by a majority" (cluster.c:1052-1054).  It is not so: the votes are
\* reset when an election is planned (3053) and the epoch to compare them with changes
\* when it is announced (3115), so a late vote of the last epoch counts in between
\* (2076-2088), next to the vote of the same master in the new one.
OneWinnerPerEpoch ==
    \A v, w \in winners : v[1] = w[1] => v[2] = w[2]

\* Late votes apart it is so: of the elections announced before any vote was counted,
\* no two are won in the same epoch, however many nodes ask, restart and vote again.  A
\* master votes once per epoch and remembers it over a restart (2765, 2832), and after
\* the announcement a replica counts votes of its own election only (2081-2084, 3127).
OneWinnerOfOwnVotes ==
    \A v, w \in winners \ carried : v[1] = w[1] => v[2] = w[2]

\* clusterSetMaster() asserts that a node that becomes a replica serves nothing
\* (cluster.c:3972): no view of a replica has slots of its own.
ReplicasServeNothing ==
    \A n \in Nodes : ~IsMaster(cluster[n], n) => SlotsOf(cluster[n], n) = {}

\* Nothing is left that a heartbeat between any two nodes would change.
Settled ==
    /\ \A p \in net : p.type \notin {"PING", "UPDATE"}
    /\ \A n, m \in Up : n # m =>
          LET p == clusterBuildMessageHdr(n, "PING", m)
              r == Heartbeat(m, LearnEpochs(cluster[m], p), p, FALSE)
          IN  r.st = cluster[m] /\ r.out = {}

\* All nodes have the same owner for every slot, an owner agrees that it is one, and
\* a winner of the latest epoch in which an election was won is among the owners.
Agreed ==
    /\ \A n, m \in Up : cluster[n].slots = cluster[m].slots
    /\ \A n \in Up, s \in Slots :
          LET o == cluster[n].slots[s]
          IN  o # None /\ (o \in Up => IsMaster(cluster[o], o))
    /\ winners # {} =>
          \E w \in winners : /\ \A v \in winners : v[1] <= w[1]
                             /\ \A n \in Up : SlotsOf(cluster[n], w[2]) # {}

\* No split brain lasts: once heartbeats change nothing, all nodes agree, and also
\* after two replicas won the same epoch, when one of them takes another
\* (cluster.c:1091-1110, 1553-1647, 1950-2018, 2101-2122).
SettledAgree == Agreed \/ ~Settled
==============================================================================
