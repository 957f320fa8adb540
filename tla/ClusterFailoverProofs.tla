------------------------ MODULE ClusterFailoverProofs ------------------------
(***************************************************************************)
(* What is proved of the failover of redis cluster, for any number of      *)
(* nodes, slots and epochs.                                                *)
(***************************************************************************)
EXTENDS ClusterFailover, FiniteSetTheorems, TLAPS

Maybe == Nodes \cup {None}

States ==
    [currentEpoch : Nat, saved : Nat, lastVoteEpoch : Nat,
     slaveof : [Nodes -> Maybe], configEpoch : [Nodes -> Nat],
     slots : [Slots -> Maybe], fail : SUBSET Nodes,
     auth_time : BOOLEAN, auth_count : Nat, auth_sent : BOOLEAN, auth_epoch : Nat]

\* What every packet, every heartbeat and every UPDATE has in its fields.
FromNode(p) == p.from \in Nodes /\ p.currentEpoch \in Nat /\ p.configEpoch \in Nat
HeartbeatOK(p) ==
    /\ FromNode(p)
    /\ p.to \in Nodes /\ p.to # p.from /\ p.myslots \subseteq Slots /\ p.slaveof \in Maybe
UpdateOK(p) ==
    /\ FromNode(p)
    /\ p.to \in Nodes /\ p.about \in Nodes /\ p.about # p.to
    /\ p.reportedConfigEpoch \in Nat /\ p.slots \subseteq Slots
PacketOK(p) ==
    /\ FromNode(p)
    /\ p.type = "PING" => HeartbeatOK(p)
    /\ p.type = "UPDATE" => UpdateOK(p)
    /\ p.type = "ACK" => p.to \in Nodes
    /\ p.type = "REQUEST" => p.myslots \subseteq Slots

TypeOK ==
    /\ cluster \in [Nodes -> States]
    /\ scenario \in Scenarios
    /\ \A p \in net : PacketOK(p)
    /\ winners \subseteq Nat \X Nodes /\ carried \subseteq Nat \X Nodes
    /\ restarts \in Nat
-----------------------------------------------------------------------------
(* The handlers, one by one. *)

\* What no packet but a vote touches: the election of a node and what it saved.
SameElection(a, b) ==
    /\ b.lastVoteEpoch = a.lastVoteEpoch /\ b.auth_time = a.auth_time
    /\ b.auth_count = a.auth_count /\ b.auth_sent = a.auth_sent
    /\ b.auth_epoch = a.auth_epoch
Heard(a, b) ==
    /\ b \in States /\ SameElection(a, b)
    /\ b.saved = a.saved /\ b.currentEpoch >= a.currentEpoch

LEMMA HeardTwice ==
    ASSUME NEW a \in States, NEW b, NEW c, Heard(a, b), Heard(b, c)
    PROVE  Heard(a, c)
<1>1. a.currentEpoch \in Nat /\ b.currentEpoch \in Nat /\ c.currentEpoch \in Nat
  BY DEF Heard, States
<1> QED
  BY <1>1 DEF Heard, SameElection

LEMMA HeardNothing ==
    ASSUME NEW a \in States
    PROVE  Heard(a, a)
<1>1. a.currentEpoch \in Nat
  BY DEF States
<1> QED
  BY <1>1 DEF Heard, SameElection

LEMMA LearnEpochsEffect ==
    ASSUME NEW st \in States, NEW p, FromNode(p)
    PROVE  LET b == LearnEpochs(st, p)
           IN  /\ Heard(st, b)
               /\ b.slaveof = st.slaveof /\ b.slots = st.slots /\ b.fail = st.fail
               /\ b.currentEpoch >= p.currentEpoch
               /\ b.currentEpoch \in {st.currentEpoch, p.currentEpoch}
               /\ \A n \in Nodes \ {p.from} : b.configEpoch[n] = st.configEpoch[n]
               /\ b.configEpoch[p.from] \in {st.configEpoch[p.from], p.configEpoch}
               /\ b.configEpoch[p.from] >= p.configEpoch
               /\ b.configEpoch[p.from] >= st.configEpoch[p.from]
<1>1. CASE p.currentEpoch <= st.currentEpoch /\ p.configEpoch <= st.configEpoch[p.from]
  <2>1. LearnEpochs(st, p) = st
    BY <1>1 DEF LearnEpochs
  <2>2. st.configEpoch[p.from] \in Nat /\ st.currentEpoch \in Nat
    BY DEF States, FromNode
  <2> QED
    BY <1>1, <2>1, <2>2, HeardNothing
<1>2. CASE ~(p.currentEpoch <= st.currentEpoch /\ p.configEpoch <= st.configEpoch[p.from])
  <2> DEFINE now == Later(st.currentEpoch, p.currentEpoch)
             conf == [st.configEpoch EXCEPT ![p.from] = Later(@, p.configEpoch)]
             b == LearnEpochs(st, p)
  <2>1. b = [st EXCEPT !.currentEpoch = now, !.configEpoch = conf]
    BY <1>2 DEF LearnEpochs
  <2>2. /\ now \in Nat /\ now >= st.currentEpoch /\ now >= p.currentEpoch
        /\ now \in {st.currentEpoch, p.currentEpoch}
    BY DEF States, Later, FromNode
  <2>3. /\ conf \in [Nodes -> Nat]
        /\ \A n \in Nodes \ {p.from} : conf[n] = st.configEpoch[n]
        /\ conf[p.from] \in {st.configEpoch[p.from], p.configEpoch}
        /\ conf[p.from] >= p.configEpoch /\ conf[p.from] >= st.configEpoch[p.from]
    BY DEF States, Later, FromNode
  <2> HIDE DEF now, conf, b
  <2>4. Heard(st, b)
    BY <2>1, <2>2, <2>3 DEF States, Heard, SameElection
  <2>5. /\ b.slaveof = st.slaveof /\ b.slots = st.slots /\ b.fail = st.fail
        /\ b.currentEpoch = now /\ b.configEpoch = conf
    BY <2>1 DEF States
  <2> QED
    BY <2>2, <2>3, <2>4, <2>5 DEF b
<1> QED
  BY <1>1, <1>2

LEMMA ClearEffect ==
    ASSUME NEW st \in States, NEW n \in Nodes, NEW longAgo
    PROVE  LET b == clearNodeFailureIfNeeded(st, n, longAgo)
           IN  /\ Heard(st, b)
               /\ b.slaveof = st.slaveof /\ b.slots = st.slots /\ b.fail \subseteq st.fail
               /\ b.configEpoch = st.configEpoch /\ b.currentEpoch = st.currentEpoch
BY HeardNothing DEF States, Heard, SameElection, clearNodeFailureIfNeeded

LEMMA CollisionEffect ==
    ASSUME NEW st \in States, NEW p, NEW me \in Nodes, FromNode(p)
    PROVE  LET b == clusterHandleConfigEpochCollision(me, st, p)
           IN  /\ Heard(st, b)
               /\ b.slaveof = st.slaveof /\ b.slots = st.slots /\ b.fail = st.fail
               /\ \A n \in Nodes \ {me} : b.configEpoch[n] = st.configEpoch[n]
<1> DEFINE b == clusterHandleConfigEpochCollision(me, st, p)
           conf == [st.configEpoch EXCEPT ![me] = st.currentEpoch + 1]
<1>1. CASE b = st
  BY <1>1, HeardNothing
<1>2. CASE b = [st EXCEPT !.currentEpoch = st.currentEpoch + 1, !.configEpoch = conf]
  <2>1. /\ conf \in [Nodes -> Nat] /\ st.currentEpoch + 1 \in Nat
        /\ \A n \in Nodes \ {me} : conf[n] = st.configEpoch[n]
    BY DEF States
  <2> HIDE DEF b, conf
  <2>2. Heard(st, b)
    <3>1. b \in States
      BY <1>2, <2>1 DEF States
    <3>2. /\ SameElection(st, b) /\ b.saved = st.saved
          /\ b.currentEpoch = st.currentEpoch + 1 /\ st.currentEpoch \in Nat
      BY <1>2 DEF States, SameElection
    <3> QED
      BY <3>1, <3>2 DEF Heard
  <2>3. /\ b.slaveof = st.slaveof /\ b.slots = st.slots /\ b.fail = st.fail
        /\ b.configEpoch = conf
    BY <1>2 DEF States
  <2> QED
    BY <2>1, <2>2, <2>3 DEF b
<1> QED
  BY <1>1, <1>2 DEF clusterHandleConfigEpochCollision

LEMMA RoleSwitchEffect ==
    ASSUME NEW st \in States, NEW p, p.from \in Nodes, p.slaveof \in Maybe
    PROVE  LET b == RoleSwitch(st, p)
           IN  /\ Heard(st, b)
               /\ b.configEpoch = st.configEpoch /\ b.fail = st.fail
               /\ b.currentEpoch = st.currentEpoch
               /\ b.slaveof[p.from] = p.slaveof
               /\ \A n \in Nodes \ {p.from} : b.slaveof[n] = st.slaveof[n]
               /\ \A s \in Slots : b.slots[s] =
                    IF p.slaveof # None /\ IsMaster(st, p.from) /\ st.slots[s] = p.from
                    THEN None ELSE st.slots[s]
BY HeardNothing DEF States, Heard, SameElection, RoleSwitch, IsMaster, Maybe

\* The node whose slots me announces.
Curmaster(st, me) == IF IsMaster(st, me) THEN me ELSE st.slaveof[me]

LEMMA UpdateSlotsEffect ==
    ASSUME NEW st \in States, NEW me \in Nodes, NEW sender \in Nodes, sender # me,
           NEW epoch \in Nat, NEW claimed \in SUBSET Slots
    PROVE  LET b == clusterUpdateSlotsConfigWith(me, st, sender, epoch, claimed)
           IN  /\ Heard(st, b)
               /\ b.configEpoch = st.configEpoch /\ b.fail = st.fail
               /\ b.currentEpoch = st.currentEpoch
               /\ \A n \in Nodes \ {me} : b.slaveof[n] = st.slaveof[n]
               /\ \A s \in Slots : b.slots[s] =
                    IF s \in claimed /\ Believes(st, s, sender, epoch) THEN sender
                    ELSE st.slots[s]
               /\ b.slaveof[me] =
                    IF /\ \E s \in Slots : st.slots[s] = Curmaster(st, me)
                                           /\ b.slots[s] # Curmaster(st, me)
                       /\ \A s \in Slots : b.slots[s] # Curmaster(st, me)
                    THEN sender ELSE st.slaveof[me]
<1> DEFINE taken == {s \in claimed : Believes(st, s, sender, epoch)}
           curmaster == Curmaster(st, me)
           slots == [s \in Slots |-> IF s \in taken THEN sender ELSE st.slots[s]]
           demoted == /\ \E s \in taken : st.slots[s] = curmaster
                      /\ \A s \in Slots : slots[s] # curmaster
           b == clusterUpdateSlotsConfigWith(me, st, sender, epoch, claimed)
           masters == [st.slaveof EXCEPT ![me] = IF demoted THEN sender ELSE @]
<1>1. b = [st EXCEPT !.slots = slots, !.slaveof = masters]
  BY DEF clusterUpdateSlotsConfigWith, Curmaster
<1>2. slots \in [Slots -> Maybe]
  BY DEF States, Maybe
<1>3. demoted <=> /\ \E s \in Slots : st.slots[s] = curmaster /\ slots[s] # curmaster
                  /\ \A s \in Slots : slots[s] # curmaster
  BY DEF Believes
<1>4. \A s \in Slots : slots[s] =
         IF s \in claimed /\ Believes(st, s, sender, epoch) THEN sender ELSE st.slots[s]
  OBVIOUS
<1> HIDE DEF demoted
<1>5. /\ masters \in [Nodes -> Maybe]
      /\ \A n \in Nodes \ {me} : masters[n] = st.slaveof[n]
      /\ masters[me] = IF demoted THEN sender ELSE st.slaveof[me]
  BY DEF States, Maybe
<1> HIDE DEF slots, b, taken, curmaster, masters
<1>6. b \in States
  BY <1>1, <1>2, <1>5 DEF States
<1>7. /\ b.configEpoch = st.configEpoch /\ b.fail = st.fail
      /\ b.currentEpoch = st.currentEpoch /\ b.slots = slots /\ b.slaveof = masters
      /\ b.saved = st.saved /\ SameElection(st, b) /\ st.currentEpoch \in Nat
  BY <1>1 DEF States, SameElection
<1>8. Heard(st, b)
  BY <1>6, <1>7 DEF Heard
<1> QED
  BY <1>3, <1>4, <1>5, <1>7, <1>8 DEF b, curmaster

SameView(a, b) ==
    /\ b.slaveof = a.slaveof /\ b.configEpoch = a.configEpoch
    /\ b.slots = a.slots /\ b.fail = a.fail

LEMMA BeforeSleepEffect ==
    ASSUME NEW old \in States, NEW new \in States
    PROVE  LET b == clusterBeforeSleep(old, new)
           IN  /\ b \in States /\ SameView(new, b) /\ SameElection(new, b)
               /\ b.currentEpoch = new.currentEpoch
               /\ b.saved \in {new.saved, new.currentEpoch}
               /\ new.lastVoteEpoch # old.lastVoteEpoch => b.saved = new.currentEpoch
               /\ new.auth_epoch # old.auth_epoch => b.saved = new.currentEpoch
<1> DEFINE changed == Persisted(new) # Persisted(old) \/ new.auth_epoch # old.auth_epoch
           now == IF changed THEN new.currentEpoch ELSE new.saved
           b == clusterBeforeSleep(old, new)
<1>1. b = [new EXCEPT !.saved = now]
  BY DEF clusterBeforeSleep
<1>2. /\ now \in Nat /\ now \in {new.saved, new.currentEpoch}
      /\ new.auth_epoch # old.auth_epoch => now = new.currentEpoch
  BY DEF States
<1>3. new.lastVoteEpoch # old.lastVoteEpoch => now = new.currentEpoch
  BY DEF Persisted
<1> HIDE DEF now, b, changed
<1>4. b \in States
  BY <1>1, <1>2 DEF States
<1>5. /\ SameView(new, b) /\ SameElection(new, b) /\ b.currentEpoch = new.currentEpoch
      /\ b.saved = now
  BY <1>1 DEF States, SameView, SameElection
<1> QED
  BY <1>2, <1>3, <1>4, <1>5 DEF b

\* The steps of Heartbeat() before the collision of epochs is looked at.
Switched(st, p, longAgo) == RoleSwitch(clearNodeFailureIfNeeded(st, p.from, longAgo), p)
Dirty(st, p) ==
    SlotsOf(st, IF IsMaster(st, p.from) THEN p.from ELSE st.slaveof[p.from]) # p.myslots
Updated(me, st, p) ==
    IF Dirty(st, p) /\ IsMaster(st, p.from)
    THEN clusterUpdateSlotsConfigWith(me, st, p.from, p.configEpoch, p.myslots)
    ELSE st

LEMMA HeartbeatIs ==
    ASSUME NEW me, NEW st, NEW p, NEW longAgo
    PROVE  LET u == Updated(me, Switched(st, p, longAgo), p)
               r == Heartbeat(me, st, p, longAgo)
           IN  /\ r.st = clusterHandleConfigEpochCollision(me, u, p)
               /\ r.out \subseteq Corrections(me, u, p)
BY DEF Heartbeat, Updated, Switched, Dirty

LEMMA SwitchedEffect ==
    ASSUME NEW st \in States, NEW p, HeartbeatOK(p), NEW longAgo
    PROVE  LET b == Switched(st, p, longAgo)
           IN  /\ Heard(st, b)
               /\ b.configEpoch = st.configEpoch /\ b.fail \subseteq st.fail
               /\ b.currentEpoch = st.currentEpoch
               /\ b.slaveof[p.from] = p.slaveof
               /\ \A n \in Nodes \ {p.from} : b.slaveof[n] = st.slaveof[n]
               /\ \A s \in Slots : b.slots[s] =
                    IF p.slaveof # None /\ IsMaster(st, p.from) /\ st.slots[s] = p.from
                    THEN None ELSE st.slots[s]
<1>0. p.from \in Nodes /\ p.slaveof \in Maybe
  BY DEF HeartbeatOK, FromNode
<1> DEFINE c == clearNodeFailureIfNeeded(st, p.from, longAgo)
<1>1. /\ Heard(st, c) /\ c.slaveof = st.slaveof /\ c.slots = st.slots
      /\ c.fail \subseteq st.fail /\ c.configEpoch = st.configEpoch
      /\ c.currentEpoch = st.currentEpoch
  BY <1>0, ClearEffect
<1> DEFINE b == RoleSwitch(c, p)
<1> HIDE DEF c
<1>2. c \in States
  BY <1>1 DEF Heard
<1>3. /\ Heard(c, b) /\ b.configEpoch = c.configEpoch /\ b.fail = c.fail
      /\ b.currentEpoch = c.currentEpoch /\ b.slaveof[p.from] = p.slaveof
      /\ \A n \in Nodes \ {p.from} : b.slaveof[n] = c.slaveof[n]
      /\ \A s \in Slots : b.slots[s] =
           IF p.slaveof # None /\ IsMaster(c, p.from) /\ c.slots[s] = p.from
           THEN None ELSE c.slots[s]
  BY <1>0, <1>2, RoleSwitchEffect
<1> HIDE DEF b
<1>4. Heard(st, b) /\ (IsMaster(c, p.from) <=> IsMaster(st, p.from))
  BY <1>1, <1>3, HeardTwice DEF IsMaster
<1> QED
  BY <1>1, <1>3, <1>4 DEF b, c, Switched

LEMMA UpdatedEffect ==
    ASSUME NEW st \in States, NEW me \in Nodes, NEW p, HeartbeatOK(p), p.to = me
    PROVE  LET b == Updated(me, st, p)
           IN  /\ Heard(st, b)
               /\ b.configEpoch = st.configEpoch /\ b.fail = st.fail
               /\ b.currentEpoch = st.currentEpoch
               /\ \/ b = st
                  \/ /\ IsMaster(st, p.from)
                     /\ b = clusterUpdateSlotsConfigWith(me, st, p.from, p.configEpoch, p.myslots)
<1>1. /\ p.from \in Nodes /\ p.from # me /\ p.configEpoch \in Nat /\ p.myslots \in SUBSET Slots
  BY DEF HeartbeatOK, FromNode
<1>2. CASE Updated(me, st, p) = st
  BY <1>2, HeardNothing
<1>3. CASE Dirty(st, p) /\ IsMaster(st, p.from)
  <2>1. Updated(me, st, p) = clusterUpdateSlotsConfigWith(me, st, p.from, p.configEpoch, p.myslots)
    BY <1>3 DEF Updated
  <2> QED
    BY <1>1, <1>3, <2>1, UpdateSlotsEffect
<1> QED
  BY <1>2, <1>3 DEF Updated

\* Nothing but the view of a node changes with a heartbeat.
LEMMA HeartbeatHeard ==
    ASSUME NEW st \in States, NEW me \in Nodes, NEW p, HeartbeatOK(p), p.to = me, NEW longAgo
    PROVE  LET l == LearnEpochs(st, p)
               w == Switched(l, p, longAgo)
               u == Updated(me, w, p)
               r == Heartbeat(me, l, p, longAgo)
           IN  /\ l \in States /\ w \in States /\ u \in States
               /\ Heard(st, r.st)
               /\ r.st = clusterHandleConfigEpochCollision(me, u, p)
               /\ r.out \subseteq Corrections(me, u, p)
<1> DEFINE l == LearnEpochs(st, p)
           w == Switched(l, p, longAgo)
           u == Updated(me, w, p)
           r == Heartbeat(me, l, p, longAgo)
<1>0. FromNode(p)
  BY DEF HeartbeatOK
<1>1. Heard(st, l)
  BY <1>0, LearnEpochsEffect
<1>2. l \in States
  BY <1>1 DEF Heard
<1>3. Heard(l, w)
  BY <1>2, SwitchedEffect
<1>4. w \in States
  BY <1>3 DEF Heard
<1>5. Heard(w, u)
  BY <1>4, UpdatedEffect
<1>6. u \in States
  BY <1>5 DEF Heard
<1>7. Heard(u, clusterHandleConfigEpochCollision(me, u, p))
  BY <1>0, <1>6, CollisionEffect
<1>8. r.st = clusterHandleConfigEpochCollision(me, u, p) /\ r.out \subseteq Corrections(me, u, p)
  BY HeartbeatIs
<1> HIDE DEF l, w, u, r
<1>9. Heard(st, w)
  BY <1>1, <1>3, HeardTwice
<1>10. Heard(st, u)
  BY <1>5, <1>9, HeardTwice
<1>11. Heard(st, r.st)
  BY <1>7, <1>8, <1>10, HeardTwice
<1> QED
  BY <1>2, <1>4, <1>6, <1>8, <1>11 DEF l, w, u, r

\* An UPDATE tells what its sender knows about the owner of a slot.
LEMMA CorrectionsEffect ==
    ASSUME NEW st \in States, NEW me \in Nodes, NEW p, HeartbeatOK(p),
           NEW q \in Corrections(me, st, p)
    PROVE  /\ q.type = "UPDATE" /\ q.from = me /\ q.to = p.from
           /\ q.currentEpoch = st.currentEpoch
           /\ q.about \in Nodes /\ q.about # p.from
           /\ q.reportedConfigEpoch = st.configEpoch[q.about]
           /\ q.slots = SlotsOf(st, q.about)
           /\ q.configEpoch = st.configEpoch[Curmaster(st, me)]
           /\ \E s \in Slots : st.slots[s] = q.about
<1> DEFINE stale == {s \in p.myslots : /\ st.slots[s] \notin {p.from, None}
                                      /\ st.configEpoch[st.slots[s]] > p.configEpoch}
<1>1. PICK s \in stale : q = UpdatePacket(st, me, p.from, st.slots[s])
  BY DEF Corrections
<1>2. s \in Slots /\ st.slots[s] \in Nodes /\ st.slots[s] # p.from
  BY DEF HeartbeatOK, States, Maybe
<1> QED
  BY <1>1, <1>2 DEF UpdatePacket, Curmaster

\* What an UPDATE says of the node it is about.
Informed(st, p) == [st EXCEPT !.slaveof[p.about] = None,
                              !.configEpoch[p.about] = p.reportedConfigEpoch]

LEMMA InformedEffect ==
    ASSUME NEW st \in States, NEW p, UpdateOK(p)
    PROVE  LET b == Informed(st, p)
           IN  /\ Heard(st, b)
               /\ b.fail = st.fail /\ b.slots = st.slots /\ b.currentEpoch = st.currentEpoch
               /\ b.slaveof[p.about] = None
               /\ b.configEpoch[p.about] = p.reportedConfigEpoch
               /\ \A n \in Nodes \ {p.about} : /\ b.slaveof[n] = st.slaveof[n]
                                               /\ b.configEpoch[n] = st.configEpoch[n]
<1> DEFINE b == Informed(st, p)
           masters == [st.slaveof EXCEPT ![p.about] = None]
           conf == [st.configEpoch EXCEPT ![p.about] = p.reportedConfigEpoch]
<1>1. b = [st EXCEPT !.slaveof = masters, !.configEpoch = conf]
  BY DEF Informed
<1>2. /\ masters \in [Nodes -> Maybe] /\ conf \in [Nodes -> Nat]
      /\ masters[p.about] = None /\ conf[p.about] = p.reportedConfigEpoch
      /\ \A n \in Nodes \ {p.about} : /\ masters[n] = st.slaveof[n]
                                      /\ conf[n] = st.configEpoch[n]
  BY DEF States, UpdateOK, Maybe
<1> HIDE DEF b, masters, conf
<1>3. b \in States
  BY <1>1, <1>2 DEF States
<1>4. /\ b.fail = st.fail /\ b.slots = st.slots /\ b.currentEpoch = st.currentEpoch
      /\ b.slaveof = masters /\ b.configEpoch = conf /\ b.saved = st.saved
      /\ SameElection(st, b) /\ st.currentEpoch \in Nat
  BY <1>1 DEF States, SameElection
<1>5. Heard(st, b)
  BY <1>3, <1>4 DEF Heard
<1> QED
  BY <1>2, <1>4, <1>5 DEF b

LEMMA ProcessUpdateEffect ==
    ASSUME NEW st \in States, NEW p, UpdateOK(p)
    PROVE  LET b == ProcessUpdate(p.to, st, p)
           IN  /\ Heard(st, b)
               /\ \/ b = st
                  \/ /\ st.configEpoch[p.about] < p.reportedConfigEpoch
                     /\ b = clusterUpdateSlotsConfigWith(p.to, Informed(st, p), p.about,
                                                         p.reportedConfigEpoch, p.slots)
<1> DEFINE b == ProcessUpdate(p.to, st, p)
           i == Informed(st, p)
<1>0. /\ p.to \in Nodes /\ p.about \in Nodes /\ p.about # p.to
      /\ p.reportedConfigEpoch \in Nat /\ p.slots \in SUBSET Slots
      /\ st.configEpoch[p.about] \in Nat
  BY DEF UpdateOK, States
<1>1. CASE st.configEpoch[p.about] >= p.reportedConfigEpoch
  <2>1. b = st
    BY <1>1 DEF ProcessUpdate
  <2> QED
    BY <2>1, HeardNothing
<1>2. CASE st.configEpoch[p.about] < p.reportedConfigEpoch
  <2>1. b = clusterUpdateSlotsConfigWith(p.to, i, p.about, p.reportedConfigEpoch, p.slots)
    BY <1>0, <1>2 DEF ProcessUpdate, Informed
  <2>2. Heard(st, i)
    BY InformedEffect
  <2>3. i \in States
    BY <2>2 DEF Heard
  <2> HIDE DEF i
  <2>4. Heard(i, b)
    BY <1>0, <2>1, <2>3, UpdateSlotsEffect
  <2> HIDE DEF b
  <2>5. Heard(st, b)
    BY <2>2, <2>4, HeardTwice
  <2> QED
    BY <1>2, <2>1, <2>5 DEF b, i
<1> QED
  BY <1>0, <1>1, <1>2

\* A vote changes nothing but lastVoteEpoch.
Votes(st, b) ==
    /\ b \in States /\ SameView(st, b) /\ b.currentEpoch = st.currentEpoch /\ b.saved = st.saved
    /\ b.auth_time = st.auth_time /\ b.auth_count = st.auth_count
    /\ b.auth_sent = st.auth_sent /\ b.auth_epoch = st.auth_epoch
    /\ b.lastVoteEpoch = st.currentEpoch

LEMMA VoteEffect ==
    ASSUME NEW st \in States, NEW me \in Nodes, NEW p, NEW soon
    PROVE  LET r == clusterSendFailoverAuthIfNeeded(me, st, p, soon)
           IN  \/ r.st = st /\ r.out = {}
               \/ /\ MayVote(me, st, p) /\ Votes(st, r.st)
                  /\ r.out = {VotePacket(st, me, p.from)}
<1> DEFINE r == clusterSendFailoverAuthIfNeeded(me, st, p, soon)
           b == [st EXCEPT !.lastVoteEpoch = st.currentEpoch]
<1>1. Votes(st, b)
  <2>1. b \in States
    BY DEF States
  <2> QED
    BY <2>1 DEF States, Votes, SameView
<1>2. \/ r = [st |-> st, out |-> {}]
      \/ MayVote(me, st, p) /\ r = [st |-> b, out |-> {VotePacket(st, me, p.from)}]
  BY DEF clusterSendFailoverAuthIfNeeded
<1> HIDE DEF b, r
<1> QED
  BY <1>1, <1>2 DEF r

\* Counting a vote changes nothing but auth_count.
Counts(st, b) ==
    /\ b \in States /\ SameView(st, b) /\ b.currentEpoch = st.currentEpoch /\ b.saved = st.saved
    /\ b.lastVoteEpoch = st.lastVoteEpoch /\ b.auth_time = st.auth_time
    /\ b.auth_sent = st.auth_sent /\ b.auth_epoch = st.auth_epoch

LEMMA CountVoteEffect ==
    ASSUME NEW st \in States, NEW p
    PROVE  LET b == CountVote(st, p)
           IN  /\ Counts(st, b)
               /\ b.auth_count =
                    IF /\ IsMaster(st, p.from) /\ SlotsOf(st, p.from) # {}
                       /\ p.currentEpoch >= st.auth_epoch
                    THEN st.auth_count + 1 ELSE st.auth_count
<1> DEFINE b == CountVote(st, p)
           n == IF /\ IsMaster(st, p.from) /\ SlotsOf(st, p.from) # {}
                   /\ p.currentEpoch >= st.auth_epoch
                THEN st.auth_count + 1 ELSE st.auth_count
<1>1. b = [st EXCEPT !.auth_count = n]
  BY DEF CountVote
<1>2. n \in Nat
  BY DEF States
<1> HIDE DEF n
<1>3. b \in States
  BY <1>1, <1>2 DEF States
<1>4. b.auth_count = n /\ Counts(st, b)
  BY <1>1, <1>3 DEF States, Counts, SameView
<1> QED
  BY <1>4 DEF n

\* The outcomes of clusterHandleSlaveFailover(): another election is planned, it
\* is started, or it is won.
Retries(st, b) ==
    /\ b \in States /\ SameView(st, b) /\ b.currentEpoch = st.currentEpoch /\ b.saved = st.saved
    /\ b.lastVoteEpoch = st.lastVoteEpoch /\ b.auth_epoch = st.auth_epoch
    /\ b.auth_count = 0 /\ ~b.auth_sent
Starts(st, b) ==
    /\ ~st.auth_sent /\ b.auth_sent
    /\ b \in States /\ SameView(st, b) /\ b.saved = st.saved
    /\ b.lastVoteEpoch = st.lastVoteEpoch /\ b.auth_count = st.auth_count
    /\ b.currentEpoch = st.currentEpoch + 1 /\ b.auth_epoch = st.currentEpoch + 1
Replaces(me, st, b) ==
    /\ Wins(me, st)
    /\ b \in States /\ SameElection(st, b) /\ b.saved = st.saved
    /\ b.currentEpoch = st.currentEpoch /\ b.fail = st.fail
    /\ b.slaveof[me] = None
    /\ \A n \in Nodes \ {me} : b.slaveof[n] = st.slaveof[n]
    /\ \A s \in Slots : b.slots[s] = IF st.slots[s] = st.slaveof[me] THEN me ELSE st.slots[s]
    /\ b.configEpoch[me] = Later(st.configEpoch[me], st.auth_epoch)
    /\ \A n \in Nodes \ {me} : b.configEpoch[n] = st.configEpoch[n]

LEMMA FailoverEffect ==
    ASSUME NEW st \in States, NEW me \in Nodes, NEW clock
    PROVE  LET b == clusterHandleSlaveFailover(me, st, clock)
           IN  \/ b = st
               \/ FailoverNeeded(me, st) /\ (Retries(st, b) \/ Starts(st, b) \/ Replaces(me, st, b))
<1> DEFINE b == clusterHandleSlaveFailover(me, st, clock)
           retry == [st EXCEPT !.auth_time = TRUE, !.auth_count = 0, !.auth_sent = FALSE]
           start == [st EXCEPT !.currentEpoch = @ + 1, !.auth_sent = TRUE,
                               !.auth_epoch = st.currentEpoch + 1]
           win == clusterFailoverReplaceYourMaster(me, st)
<1>1. Retries(st, retry)
  <2>1. retry \in States
    BY DEF States
  <2> QED
    BY <2>1 DEF States, Retries, SameView
<1>2. ASSUME ~st.auth_sent PROVE Starts(st, start)
  <2>0. PICK e \in Nat : e = st.currentEpoch + 1
    BY DEF States
  <2>1. start = [st EXCEPT !.currentEpoch = e, !.auth_sent = TRUE, !.auth_epoch = e]
    BY <2>0
  <2> HIDE DEF start
  <2>2. start \in States
    BY <2>1 DEF States
  <2>3. /\ SameView(st, start) /\ start.saved = st.saved
        /\ start.lastVoteEpoch = st.lastVoteEpoch /\ start.auth_count = st.auth_count
        /\ start.currentEpoch = e /\ start.auth_epoch = e /\ start.auth_sent
    BY <2>1 DEF States, SameView
  <2> QED
    BY <1>2, <2>0, <2>2, <2>3 DEF Starts
<1>3. ASSUME Wins(me, st) PROVE Replaces(me, st, win)
  <2> DEFINE masters == [st.slaveof EXCEPT ![me] = None]
             conf == [st.configEpoch EXCEPT ![me] = Later(@, st.auth_epoch)]
             slots == [s \in Slots |-> IF st.slots[s] = st.slaveof[me] THEN me ELSE st.slots[s]]
  <2>1. win = [st EXCEPT !.slaveof = masters, !.slots = slots, !.configEpoch = conf]
    BY DEF clusterFailoverReplaceYourMaster
  <2>2. /\ masters \in [Nodes -> Maybe] /\ conf \in [Nodes -> Nat] /\ slots \in [Slots -> Maybe]
        /\ masters[me] = None /\ conf[me] = Later(st.configEpoch[me], st.auth_epoch)
        /\ \A n \in Nodes \ {me} : masters[n] = st.slaveof[n] /\ conf[n] = st.configEpoch[n]
    BY DEF States, Maybe, Later
  <2>3. \A s \in Slots : slots[s] = IF st.slots[s] = st.slaveof[me] THEN me ELSE st.slots[s]
    OBVIOUS
  <2> HIDE DEF masters, conf, slots, win
  <2>4. win \in States
    BY <2>1, <2>2 DEF States
  <2>5. /\ win.slaveof = masters /\ win.slots = slots /\ win.configEpoch = conf
        /\ SameElection(st, win) /\ win.saved = st.saved
        /\ win.currentEpoch = st.currentEpoch /\ win.fail = st.fail
    BY <2>1 DEF States, SameElection
  <2> QED
    BY <1>3, <2>2, <2>3, <2>4, <2>5 DEF Replaces
<1>4. \/ b = st
      \/ FailoverNeeded(me, st) /\ b = retry
      \/ FailoverNeeded(me, st) /\ ~st.auth_sent /\ b = start
      \/ FailoverNeeded(me, st) /\ Wins(me, st) /\ b = win
  BY DEF clusterHandleSlaveFailover
<1> HIDE DEF b, retry, start, win
<1> QED
  BY <1>1, <1>2, <1>3, <1>4 DEF b

\* A finite set of numbers has a greatest element, which MaxOf() is.
LEMMA GreatestNumber ==
    ASSUME NEW T \in SUBSET Nat, T # {}, IsFiniteSet(T)
    PROVE  MaxOf(T) \in T /\ \A y \in T : y <= MaxOf(T)
<1> DEFINE above(x) == {y \in T : x < y}
           U == {above(x) : x \in T}
<1>1. U \subseteq FiniteSubsetsOf(T) /\ U # {}
  <2>1. \A x \in T : above(x) \in SUBSET T /\ IsFiniteSet(above(x))
    BY FS_Subset
  <2> QED
    BY <2>1, Zenon DEF FiniteSubsetsOf
<1>2. PICK m \in U : \A u \in U : ~(<<u, m>> \in StrictSubsetOrdering(T))
  <2> HIDE DEF U
  <2> QED
    BY <1>1, WFMin, FS_StrictSubsetOrderingWellFounded
<1>3. PICK x \in T : m = above(x)
  BY Zenon
<1>4. ASSUME NEW y \in T, x < y PROVE FALSE
  <2>1. above(y) \subseteq above(x) /\ y \in above(x) /\ y \notin above(y)
    <3>1. \A a, b, c \in Nat : ~(a < a) /\ (a < b /\ b < c => a < c)
      OBVIOUS
    <3>2. x \in Nat /\ y \in Nat /\ T \subseteq Nat
      OBVIOUS
    <3> QED
      BY <1>4, <3>1, <3>2, Zenon
  <2>2. above(y) \in U
    BY Zenon
  <2>3. ASSUME NEW A \in SUBSET T, NEW B \in SUBSET T, A \subseteq B, A # B
        PROVE  <<A, B>> \in StrictSubsetOrdering(T)
    BY <2>3 DEF StrictSubsetOrdering
  <2>4. above(y) \in SUBSET T /\ above(x) \in SUBSET T
    OBVIOUS
  <2> HIDE DEF above, U
  <2>5. <<above(y), above(x)>> \in StrictSubsetOrdering(T)
    BY <2>1, <2>3, <2>4, Zenon
  <2> QED
    BY <1>2, <1>3, <2>2, <2>5, Zenon
<1>5. \A y \in T : y <= x
  BY <1>4
<1> QED
  BY <1>5 DEF MaxOf

LEMMA MaxEpochEffect ==
    ASSUME NEW st \in States
    PROVE  /\ clusterGetMaxEpoch(st) \in Nat
           /\ clusterGetMaxEpoch(st) >= st.currentEpoch
           /\ \/ clusterGetMaxEpoch(st) = st.currentEpoch
              \/ \E n \in Nodes : clusterGetMaxEpoch(st) = st.configEpoch[n]
<1> DEFINE T == {st.configEpoch[n] : n \in Nodes} \cup {st.currentEpoch}
<1>1. T \in SUBSET Nat /\ st.currentEpoch \in T
  BY DEF States
<1>2. IsFiniteSet(T)
  <2>0. /\ IsFiniteSet(Nodes)
        /\ st.configEpoch \in Surjection(Nodes, {st.configEpoch[n] : n \in Nodes})
    BY ClusterAssumption DEF States, Surjection
  <2>1. IsFiniteSet({st.configEpoch[n] : n \in Nodes})
    BY <2>0, FS_Surjection
  <2> HIDE DEF T
  <2> QED
    BY <2>1, FS_AddElement DEF T
<1>3. clusterGetMaxEpoch(st) = MaxOf(T)
  BY DEF clusterGetMaxEpoch
<1>4. \A e \in T : e = st.currentEpoch \/ \E n \in Nodes : e = st.configEpoch[n]
  OBVIOUS
<1> HIDE DEF T
<1>5. MaxOf(T) \in T /\ \A y \in T : y <= MaxOf(T)
  BY <1>1, <1>2, GreatestNumber
<1>6. MaxOf(T) \in Nat /\ st.currentEpoch \in Nat
  BY <1>1, <1>5
<1> QED
  BY <1>1, <1>3, <1>4, <1>5, <1>6

\* A restarted node knows what it saved.
Restarts(st, b) ==
    /\ b \in States /\ SameView(st, b)
    /\ b.saved = st.saved /\ b.lastVoteEpoch = st.lastVoteEpoch
    /\ b.currentEpoch >= st.saved
    /\ b.auth_count = 0 /\ ~b.auth_sent /\ b.auth_epoch = 0

Restarted(st) ==
    [st EXCEPT !.currentEpoch = clusterGetMaxEpoch([st EXCEPT !.currentEpoch = st.saved]),
               !.auth_time = FALSE, !.auth_count = 0, !.auth_sent = FALSE, !.auth_epoch = 0]

LEMMA RestartEffect ==
    ASSUME NEW st \in States
    PROVE  Restarts(st, Restarted(st))
<1> DEFINE old == [st EXCEPT !.currentEpoch = st.saved]
           e == clusterGetMaxEpoch(old)
           b == Restarted(st)
<1>1. old \in States /\ old.currentEpoch = st.saved
  BY DEF States
<1> HIDE DEF old
<1>2. e \in Nat /\ e >= st.saved
  BY <1>1, MaxEpochEffect
<1>3. b = [st EXCEPT !.currentEpoch = e, !.auth_time = FALSE, !.auth_count = 0,
                     !.auth_sent = FALSE, !.auth_epoch = 0]
  BY DEF Restarted, old
<1> HIDE DEF e, b
<1>4. b \in States
  BY <1>2, <1>3 DEF States
<1>5. /\ SameView(st, b) /\ b.saved = st.saved /\ b.lastVoteEpoch = st.lastVoteEpoch
      /\ b.currentEpoch = e /\ b.auth_count = 0 /\ b.auth_sent = FALSE /\ b.auth_epoch = 0
  BY <1>3 DEF States, SameView
<1> QED
  BY <1>2, <1>4, <1>5 DEF Restarts, b

\* A node that is told of a failure.
Told(st, m) == [st EXCEPT !.fail = @ \cup {m}]

LEMMA ToldEffect ==
    ASSUME NEW st \in States, NEW m \in Nodes
    PROVE  LET b == Told(st, m)
           IN  /\ Heard(st, b)
               /\ b.slaveof = st.slaveof /\ b.slots = st.slots /\ b.configEpoch = st.configEpoch
               /\ b.fail = st.fail \cup {m} /\ b.currentEpoch = st.currentEpoch
<1> DEFINE b == Told(st, m)
<1>1. b \in States
  BY DEF States, Told
<1>2. /\ b.slaveof = st.slaveof /\ b.slots = st.slots /\ b.configEpoch = st.configEpoch
      /\ b.fail = st.fail \cup {m} /\ b.currentEpoch = st.currentEpoch
      /\ b.saved = st.saved /\ SameElection(st, b) /\ st.currentEpoch \in Nat
  BY DEF States, Told, SameElection
<1>3. Heard(st, b)
  BY <1>1, <1>2 DEF Heard
<1> QED
  BY <1>2, <1>3

\* What a node announces of itself.
LEMMA HeaderEffect ==
    ASSUME TypeOK, NEW n \in Nodes, NEW type, NEW to
    PROVE  LET p == clusterBuildMessageHdr(n, type, to)
               st == cluster[n]
           IN  /\ FromNode(p) /\ p.from = n /\ p.to = to /\ p.type = type
               /\ p.currentEpoch = st.currentEpoch
               /\ p.configEpoch = st.configEpoch[Curmaster(st, n)]
               /\ p.myslots = SlotsOf(st, Curmaster(st, n)) /\ p.myslots \subseteq Slots
               /\ p.slaveof = st.slaveof[n] /\ p.slaveof \in Maybe
               /\ to \in Nodes \ {n} => HeartbeatOK(p)
<1> DEFINE p == clusterBuildMessageHdr(n, type, to)
           st == cluster[n]
<1>1. st \in States
  BY DEF TypeOK
<1>2. /\ p.from = n /\ p.to = to /\ p.type = type /\ p.currentEpoch = st.currentEpoch
      /\ p.configEpoch = st.configEpoch[Curmaster(st, n)]
      /\ p.myslots = SlotsOf(st, Curmaster(st, n)) /\ p.slaveof = st.slaveof[n]
  BY DEF clusterBuildMessageHdr, Curmaster
<1> HIDE DEF p, st
<1>3. Curmaster(st, n) \in Nodes /\ st.slaveof[n] \in Maybe /\ SlotsOf(st, Curmaster(st, n)) \subseteq Slots
  BY <1>1 DEF Curmaster, IsMaster, States, Maybe, SlotsOf
<1>4. st.currentEpoch \in Nat /\ st.configEpoch[Curmaster(st, n)] \in Nat
  BY <1>1, <1>3 DEF States
<1> QED
  BY <1>2, <1>3, <1>4 DEF FromNode, HeartbeatOK, p, st
-----------------------------------------------------------------------------
(* The steps. *)

\* A heartbeat on its way or one that a node sends now.
Sent(p) ==
    \/ p \in net /\ p.type = "PING"
    \/ \E n \in Up : p.to \in Up \ {n} /\ p = clusterBuildMessageHdr(n, "PING", p.to)

HeartbeatStep(p, longAgo) ==
    LET r == Heartbeat(p.to, LearnEpochs(cluster[p.to], p), p, longAgo)
    IN  /\ Become(p.to, r.st) /\ net' \subseteq net \cup r.out
        /\ UNCHANGED <<scenario, winners, carried, restarts>>

LEMMA PingIsHeartbeat ==
    ASSUME TypeOK, NEW n \in Up, NEW m \in Up \ {n}, Ping(n, m)
    PROVE  \E p, longAgo : HeartbeatOK(p) /\ Sent(p) /\ HeartbeatStep(p, longAgo)
<1> DEFINE p == clusterBuildMessageHdr(n, "PING", m)
<1>1. n \in Nodes /\ m \in Nodes \ {n}
  BY DEF Up
<1>2. HeartbeatOK(p) /\ p.to = m
  BY <1>1, HeaderEffect
<1>3. Sent(p)
  BY <1>2 DEF Sent
<1>4. PICK longAgo \in Choices(n \in cluster[m].fail) :
        LET r == Heartbeat(m, LearnEpochs(cluster[m], p), p, longAgo)
        IN  /\ Become(m, r.st) /\ net' = net \cup r.out
            /\ UNCHANGED <<scenario, winners, carried, restarts>>
  BY DEF Ping
<1>5. HeartbeatStep(p, longAgo)
  <2> HIDE DEF p
  <2> QED
    BY <1>2, <1>4 DEF HeartbeatStep
<1> QED
  BY <1>2, <1>3, <1>5

LEMMA ReceivePingIsHeartbeat ==
    ASSUME TypeOK, NEW p \in net, ReceivePing(p)
    PROVE  \E longAgo : HeartbeatOK(p) /\ Sent(p) /\ HeartbeatStep(p, longAgo)
<1>1. HeartbeatOK(p) /\ Sent(p)
  BY DEF TypeOK, PacketOK, ReceivePing, Sent
<1>2. PICK longAgo \in Choices(p.from \in cluster[p.to].fail) :
         LET r == Heartbeat(p.to, LearnEpochs(cluster[p.to], p), p, longAgo)
         IN  Become(p.to, r.st) /\ net' = (net \ {p}) \cup r.out
  BY DEF ReceivePing
<1>3. HeartbeatStep(p, longAgo)
  BY <1>2 DEF HeartbeatStep, ReceivePing
<1> QED
  BY <1>1, <1>3

LEMMA BecomeEffect ==
    ASSUME TypeOK, NEW m \in Nodes, NEW st \in States, Become(m, st)
    PROVE  LET b == cluster'[m]
           IN  /\ cluster' \in [Nodes -> States]
               /\ \A n \in Nodes \ {m} : cluster'[n] = cluster[n]
               /\ SameView(st, b) /\ SameElection(st, b)
               /\ b.currentEpoch = st.currentEpoch
               /\ b.saved \in {st.saved, st.currentEpoch}
               /\ st.lastVoteEpoch # cluster[m].lastVoteEpoch => b.saved = st.currentEpoch
               /\ st.auth_epoch # cluster[m].auth_epoch => b.saved = st.currentEpoch
<1> DEFINE b == clusterBeforeSleep(cluster[m], st)
<1>1. cluster[m] \in States /\ cluster \in [Nodes -> States]
  BY DEF TypeOK
<1>2. /\ b \in States /\ SameView(st, b) /\ SameElection(st, b)
      /\ b.currentEpoch = st.currentEpoch
      /\ b.saved \in {st.saved, st.currentEpoch}
      /\ st.lastVoteEpoch # cluster[m].lastVoteEpoch => b.saved = st.currentEpoch
      /\ st.auth_epoch # cluster[m].auth_epoch => b.saved = st.currentEpoch
  BY <1>1, BeforeSleepEffect
<1>3. cluster' = [cluster EXCEPT ![m] = b]
  BY DEF Become
<1> HIDE DEF b
<1> QED
  BY <1>1, <1>2, <1>3

LEMMA MarkFailedEffect ==
    ASSUME TypeOK, NEW m \in Nodes, MarkFailed(m)
    PROVE  /\ cluster' \in [Nodes -> States]
           /\ \A n \in Nodes :
                 /\ cluster'[n].slaveof = cluster[n].slaveof
                 /\ cluster'[n].slots = cluster[n].slots
                 /\ cluster'[n].configEpoch = cluster[n].configEpoch
                 /\ cluster'[n].fail \subseteq cluster[n].fail \cup {m}
                 /\ cluster'[n].currentEpoch = cluster[n].currentEpoch
                 /\ cluster'[n].saved \in {cluster[n].saved, cluster[n].currentEpoch}
                 /\ SameElection(cluster[n], cluster'[n])
                 /\ n \notin Up => cluster'[n] = cluster[n]
<1>1. cluster' = [n \in Nodes |-> IF n \notin Up \ {m} THEN cluster[n]
                                  ELSE clusterBeforeSleep(cluster[n], Told(cluster[n], m))]
  BY DEF MarkFailed, Told
<1>2. ASSUME NEW n \in Nodes
      PROVE  /\ cluster'[n] \in States
             /\ cluster'[n].slaveof = cluster[n].slaveof
             /\ cluster'[n].slots = cluster[n].slots
             /\ cluster'[n].configEpoch = cluster[n].configEpoch
             /\ cluster'[n].fail \subseteq cluster[n].fail \cup {m}
             /\ cluster'[n].currentEpoch = cluster[n].currentEpoch
             /\ cluster'[n].saved \in {cluster[n].saved, cluster[n].currentEpoch}
             /\ SameElection(cluster[n], cluster'[n])
             /\ n \notin Up => cluster'[n] = cluster[n]
  <2>0. cluster[n] \in States
    BY DEF TypeOK
  <2>1. CASE n \notin Up \ {m}
    BY <1>1, <2>0, <2>1 DEF SameElection
  <2>2. CASE n \in Up \ {m}
    <3> DEFINE t == Told(cluster[n], m)
               b == clusterBeforeSleep(cluster[n], t)
    <3>1. /\ Heard(cluster[n], t)
          /\ t.slaveof = cluster[n].slaveof /\ t.slots = cluster[n].slots
          /\ t.configEpoch = cluster[n].configEpoch /\ t.fail = cluster[n].fail \cup {m}
          /\ t.currentEpoch = cluster[n].currentEpoch
      BY <2>0, ToldEffect
    <3>2. cluster'[n] = b
      BY <1>1, <2>2
    <3> HIDE DEF t
    <3>3. t \in States
      BY <3>1 DEF Heard
    <3>4. /\ b \in States /\ SameView(t, b) /\ SameElection(t, b)
          /\ b.currentEpoch = t.currentEpoch /\ b.saved \in {t.saved, t.currentEpoch}
      BY <2>0, <3>3, BeforeSleepEffect
    <3> HIDE DEF b
    <3> QED
      BY <2>2, <3>1, <3>2, <3>4 DEF Heard, SameView, SameElection
  <2> QED
    BY <2>1, <2>2
<1>3. cluster' \in [Nodes -> States]
  BY <1>1, <1>2
<1> QED
  BY <1>2, <1>3

LEMMA RestartStep ==
    ASSUME TypeOK, NEW m \in Nodes, Restart(m)
    PROVE  /\ cluster' \in [Nodes -> States]
           /\ \A n \in Nodes \ {m} : cluster'[n] = cluster[n]
           /\ Restarts(cluster[m], cluster'[m])
           /\ net' \subseteq net /\ restarts' \in Nat
<1>1. cluster \in [Nodes -> States] /\ cluster[m] \in States /\ restarts \in Nat
  BY DEF TypeOK
<1>2. cluster' = [cluster EXCEPT ![m] = Restarted(cluster[m])]
  BY DEF Restart, Restarted
<1>3. Restarts(cluster[m], Restarted(cluster[m]))
  BY <1>1, RestartEffect
<1>4. Restarted(cluster[m]) \in States
  BY <1>3 DEF Restarts
<1>5. net' \subseteq net /\ restarts' = restarts + 1
  BY DEF Restart
<1> QED
  BY <1>1, <1>2, <1>3, <1>4, <1>5

\* The state in which a node that got a vote looks at its election.
Counted(p) == CountVote(LearnEpochs(cluster[p.to], p), p)

\* What happens between the states old and st of a candidate.
Elects(n, c, st) ==
    \/ st = c
    \/ FailoverNeeded(n, c) /\ (Retries(c, st) \/ Starts(c, st) \/ Replaces(n, c, st))

LEMMA ElectsType ==
    ASSUME NEW n, NEW c \in States, NEW st, Elects(n, c, st)
    PROVE  st \in States
BY DEF Elects, Retries, Starts, Replaces

LEMMA CountedEffect ==
    ASSUME TypeOK, NEW p \in net, p.type = "ACK"
    PROVE  LET st == cluster[p.to]
               c == Counted(p)
           IN  /\ st \in States /\ c \in States /\ p.to \in Nodes /\ FromNode(p)
               /\ c.slaveof = st.slaveof /\ c.slots = st.slots /\ c.fail = st.fail
               /\ c.saved = st.saved /\ c.lastVoteEpoch = st.lastVoteEpoch
               /\ c.auth_time = st.auth_time /\ c.auth_sent = st.auth_sent
               /\ c.auth_epoch = st.auth_epoch
               /\ c.currentEpoch >= st.currentEpoch
               /\ \A n \in Nodes \ {p.from} : c.configEpoch[n] = st.configEpoch[n]
               /\ c.configEpoch[p.from] \in {st.configEpoch[p.from], p.configEpoch}
               /\ c.auth_count =
                    IF /\ IsMaster(st, p.from) /\ SlotsOf(st, p.from) # {}
                       /\ p.currentEpoch >= st.auth_epoch
                    THEN st.auth_count + 1 ELSE st.auth_count
<1> DEFINE st == cluster[p.to]
           l == LearnEpochs(st, p)
           c == Counted(p)
<1>0. p.to \in Nodes /\ FromNode(p) /\ st \in States
  BY DEF TypeOK, PacketOK
<1>1. /\ Heard(st, l) /\ l.slaveof = st.slaveof /\ l.slots = st.slots /\ l.fail = st.fail
      /\ \A n \in Nodes \ {p.from} : l.configEpoch[n] = st.configEpoch[n]
      /\ l.configEpoch[p.from] \in {st.configEpoch[p.from], p.configEpoch}
  BY <1>0, LearnEpochsEffect
<1>2. l \in States
  BY <1>1 DEF Heard
<1>3. /\ Counts(l, c)
      /\ c.auth_count = IF /\ IsMaster(l, p.from) /\ SlotsOf(l, p.from) # {}
                           /\ p.currentEpoch >= l.auth_epoch
                        THEN l.auth_count + 1 ELSE l.auth_count
  <2> HIDE DEF l
  <2>1. c = CountVote(l, p)
    BY DEF Counted, l
  <2> HIDE DEF c
  <2> QED
    BY <1>2, <2>1, CountVoteEffect
<1> HIDE DEF l, c, st
<1>4. /\ IsMaster(l, p.from) <=> IsMaster(st, p.from)
      /\ SlotsOf(l, p.from) = SlotsOf(st, p.from)
  BY <1>1 DEF IsMaster, SlotsOf
<1>5. l.auth_epoch = st.auth_epoch /\ l.auth_count = st.auth_count
  BY <1>1 DEF Heard, SameElection
<1> QED
  BY <1>0, <1>1, <1>3, <1>4, <1>5 DEF Heard, SameElection, Counts, SameView, st, c

\* The request that announces an election, after which the candidate is in state st.
Requested(n, c, st, q) ==
    /\ Announces(c, st) /\ FromNode(q) /\ q.from = n /\ q.type = "REQUEST"
    /\ q.currentEpoch = st.currentEpoch /\ q.myslots \subseteq Slots
    /\ q.configEpoch = c.configEpoch[Curmaster(c, n)] /\ Curmaster(c, n) \in Nodes

LEMMA FailoverStep ==
    ASSUME TypeOK, NEW n \in Nodes, NEW c \in States, NEW clock, NEW P, Failover(n, c, clock, P)
    PROVE  \E st \in States :
             /\ Elects(n, c, st) /\ Become(n, st) /\ Record(n, c, st) /\ Carry(n, c, st)
             /\ \A q \in net' : q \in P \/ Requested(n, c, st, q)
<1> DEFINE st == clusterHandleSlaveFailover(n, c, clock)
           h == clusterBuildMessageHdr(n, "REQUEST", None)
           q == [h EXCEPT !.currentEpoch = st.currentEpoch,
                          !.configEpoch = st.configEpoch[st.slaveof[n]]]
<1>1. Elects(n, c, st)
  BY FailoverEffect DEF Elects
<1>2. st \in States
  BY <1>1, ElectsType
<1>3. ASSUME Announces(c, st) PROVE Requested(n, c, st, q)
  <2> HIDE DEF st
  <2>1. FailoverNeeded(n, c) /\ Starts(c, st)
    BY <1>1, <1>3 DEF Announces, Elects, Retries, Replaces, SameElection
  <2>2. /\ st.slaveof[n] = Curmaster(c, n) /\ Curmaster(c, n) \in Nodes
        /\ st.configEpoch = c.configEpoch
    BY <2>1 DEF Starts, SameView, FailoverNeeded, Curmaster, IsMaster, States, Maybe
  <2>3. st.currentEpoch \in Nat /\ c.configEpoch[Curmaster(c, n)] \in Nat
    BY <1>2, <2>2 DEF States
  <2>4. h.from = n /\ h.type = "REQUEST" /\ h.myslots \subseteq Slots
    BY HeaderEffect
  <2>5. /\ q.from = h.from /\ q.type = h.type /\ q.myslots = h.myslots
        /\ q.currentEpoch = st.currentEpoch /\ q.configEpoch = st.configEpoch[st.slaveof[n]]
    BY DEF clusterBuildMessageHdr
  <2> HIDE DEF q, h
  <2> QED
    BY <1>3, <2>2, <2>3, <2>4, <2>5 DEF Requested, FromNode
<1>4. /\ Become(n, st) /\ Record(n, c, st) /\ Carry(n, c, st)
      /\ net' = P \cup (IF ~Announces(c, st) THEN {} ELSE {q})
  BY DEF Failover, clusterRequestFailoverAuth
<1> HIDE DEF st, q
<1> QED
  BY <1>1, <1>2, <1>3, <1>4

LEMMA AckStep ==
    ASSUME TypeOK, NEW p \in net, NEW clock, ReceiveAck(p, clock)
    PROVE  \E st \in States :
             /\ Elects(p.to, Counted(p), st) /\ Become(p.to, st)
             /\ Record(p.to, Counted(p), st) /\ Carry(p.to, Counted(p), st)
             /\ \A q \in net' : q \in net \ {p} \/ Requested(p.to, Counted(p), st, q)
<1>1. Counted(p) \in States /\ p.to \in Nodes
  BY CountedEffect DEF ReceiveAck
<1>2. Failover(p.to, Counted(p), clock, net \ {p})
  BY DEF ReceiveAck, Counted
<1> QED
  BY <1>1, <1>2, FailoverStep

LEMMA CronStep ==
    ASSUME TypeOK, NEW n \in Nodes, NEW clock, Cron(n, clock)
    PROVE  \E st \in States :
             /\ Elects(n, cluster[n], st) /\ Become(n, st)
             /\ Record(n, cluster[n], st) /\ Carry(n, cluster[n], st)
             /\ \A q \in net' : q \in net \/ Requested(n, cluster[n], st, q)
<1>1. cluster[n] \in States
  BY DEF TypeOK
<1> QED
  BY <1>1, FailoverStep DEF Cron

LEMMA VoteStep ==
    ASSUME TypeOK, NEW p \in net, NEW n \in Nodes, ReceiveRequest(p, n)
    PROVE  LET l == LearnEpochs(cluster[n], p)
           IN  /\ Heard(cluster[n], l)
               /\ \E st \in States :
                    /\ Become(n, st)
                    /\ \/ st = l /\ net' \subseteq net
                       \/ /\ MayVote(n, l, p) /\ Votes(l, st)
                          /\ net' \subseteq net \cup {VotePacket(l, n, p.from)}
<1> DEFINE l == LearnEpochs(cluster[n], p)
<1>1. cluster[n] \in States /\ FromNode(p)
  BY DEF TypeOK, PacketOK
<1>2. Heard(cluster[n], l)
  BY <1>1, LearnEpochsEffect
<1>3. l \in States
  BY <1>2 DEF Heard
<1>4. PICK soon : LET r == clusterSendFailoverAuthIfNeeded(n, l, p, soon)
                  IN  Become(n, r.st) /\ net' \subseteq net \cup r.out
  BY DEF ReceiveRequest
<1> DEFINE r == clusterSendFailoverAuthIfNeeded(n, l, p, soon)
<1> HIDE DEF l
<1>5. \/ r.st = l /\ r.out = {}
      \/ MayVote(n, l, p) /\ Votes(l, r.st) /\ r.out = {VotePacket(l, n, p.from)}
  BY <1>3, VoteEffect
<1> HIDE DEF r
<1>6. r.st \in States
  BY <1>3, <1>5 DEF Votes
<1>7. Become(n, r.st) /\ net' \subseteq net \cup r.out
  BY <1>4 DEF r
<1> QED
  BY <1>2, <1>5, <1>6, <1>7 DEF l

LEMMA UpdateStep ==
    ASSUME TypeOK, NEW p \in net, ReceiveUpdate(p)
    PROVE  LET l == LearnEpochs(cluster[p.to], p)
               st == ProcessUpdate(p.to, l, p)
           IN  /\ UpdateOK(p) /\ l \in States /\ st \in States
               /\ Heard(cluster[p.to], l) /\ Heard(cluster[p.to], st)
               /\ Become(p.to, st) /\ net' = net \ {p}
<1> DEFINE l == LearnEpochs(cluster[p.to], p)
           st == ProcessUpdate(p.to, l, p)
<1>1. UpdateOK(p) /\ p.to \in Nodes
  BY DEF TypeOK, PacketOK, ReceiveUpdate, UpdateOK
<1>2. cluster[p.to] \in States /\ FromNode(p)
  BY <1>1 DEF TypeOK, UpdateOK
<1>3. Heard(cluster[p.to], l)
  BY <1>2, LearnEpochsEffect
<1>4. l \in States
  BY <1>3 DEF Heard
<1>5. Become(p.to, st) /\ net' = net \ {p}
  BY DEF ReceiveUpdate
<1> HIDE DEF l
<1>6. Heard(l, st)
  BY <1>1, <1>4, ProcessUpdateEffect
<1> HIDE DEF st
<1>7. Heard(cluster[p.to], st) /\ st \in States
  BY <1>2, <1>3, <1>6, HeardTwice DEF Heard
<1> QED
  BY <1>1, <1>3, <1>4, <1>5, <1>7 DEF l, st

LEMMA HeartbeatEffect ==
    ASSUME TypeOK, NEW p, NEW longAgo, HeartbeatOK(p), HeartbeatStep(p, longAgo)
    PROVE  LET l == LearnEpochs(cluster[p.to], p)
               w == Switched(l, p, longAgo)
               u == Updated(p.to, w, p)
               st == clusterHandleConfigEpochCollision(p.to, u, p)
           IN  /\ p.to \in Nodes /\ cluster[p.to] \in States
               /\ l \in States /\ w \in States /\ u \in States
               /\ st \in States /\ Heard(cluster[p.to], st) /\ Become(p.to, st)
               /\ net' \subseteq net \cup Corrections(p.to, u, p)
               /\ UNCHANGED <<scenario, winners, carried, restarts>>
<1> DEFINE me == p.to
           l == LearnEpochs(cluster[me], p)
           w == Switched(l, p, longAgo)
           u == Updated(me, w, p)
           r == Heartbeat(me, l, p, longAgo)
<1>1. me \in Nodes /\ cluster[me] \in States
  BY DEF TypeOK, HeartbeatOK
<1>2. /\ l \in States /\ w \in States /\ u \in States /\ Heard(cluster[me], r.st)
      /\ r.st = clusterHandleConfigEpochCollision(me, u, p)
      /\ r.out \subseteq Corrections(me, u, p)
  BY <1>1, HeartbeatHeard
<1>3. /\ Become(me, r.st) /\ net' \subseteq net \cup r.out
      /\ UNCHANGED <<scenario, winners, carried, restarts>>
  BY DEF HeartbeatStep
<1> HIDE DEF l, w, u, r
<1> QED
  BY <1>1, <1>2, <1>3 DEF l, w, u, Heard

LEMMA CorrectionsOK ==
    ASSUME NEW st \in States, NEW me \in Nodes, NEW p, HeartbeatOK(p),
           NEW q \in Corrections(me, st, p)
    PROVE  PacketOK(q)
<1>1. /\ q.type = "UPDATE" /\ q.from = me /\ q.to = p.from
      /\ q.currentEpoch = st.currentEpoch
      /\ q.about \in Nodes /\ q.about # p.from
      /\ q.reportedConfigEpoch = st.configEpoch[q.about]
      /\ q.slots = SlotsOf(st, q.about)
      /\ q.configEpoch = st.configEpoch[Curmaster(st, me)]
  BY CorrectionsEffect
<1>2. /\ Curmaster(st, me) \in Nodes /\ p.from \in Nodes
      /\ st.currentEpoch \in Nat /\ st.configEpoch \in [Nodes -> Nat]
      /\ SlotsOf(st, q.about) \subseteq Slots
  BY DEF Curmaster, IsMaster, States, Maybe, HeartbeatOK, FromNode, SlotsOf
<1> QED
  BY <1>1, <1>2 DEF PacketOK, UpdateOK, FromNode

LEMMA InitTypeOK == Init => TypeOK
<1> SUFFICES ASSUME Init PROVE TypeOK
  OBVIOUS
<1> DEFINE T == {InitEpoch[m] : m \in Nodes}
           top == MaxOf(T)
<1>1. ASSUME NEW n \in Nodes PROVE cluster[n] \in States
  <2>1. T \in SUBSET Nat /\ T # {}
    BY ClusterAssumption
  <2>2. IsFiniteSet(T)
    <3>1. IsFiniteSet(Nodes) /\ InitEpoch \in Surjection(Nodes, T)
      BY ClusterAssumption DEF Surjection
    <3> QED
      BY <3>1, FS_Surjection
  <2> HIDE DEF T
  <2>3. top \in Nat
    BY <2>1, <2>2, GreatestNumber
  <2> HIDE DEF top
  <2>4. cluster[n] =
          [currentEpoch |-> top, saved |-> top, lastVoteEpoch |-> 0,
           slaveof |-> InitSlaveof, configEpoch |-> InitEpoch, slots |-> InitOwner,
           fail |-> {}, auth_time |-> FALSE, auth_count |-> 0, auth_sent |-> FALSE,
           auth_epoch |-> 0]
    BY DEF Init, top, T
  <2>5. /\ InitSlaveof \in [Nodes -> Maybe] /\ InitEpoch \in [Nodes -> Nat]
        /\ InitOwner \in [Slots -> Maybe]
    BY ClusterAssumption DEF Maybe
  <2> QED
    BY <2>3, <2>4, <2>5 DEF States
<1>2. cluster = [n \in Nodes |-> cluster[n]]
  BY DEF Init
<1>3. cluster \in [Nodes -> States]
  BY <1>1, <1>2
<1> QED
  BY <1>3 DEF Init, TypeOK

LEMMA NextTypeOK == TypeOK /\ [Next]_vars => TypeOK'
<1> SUFFICES ASSUME TypeOK, [Next]_vars PROVE TypeOK'
  OBVIOUS
<1>1. CASE UNCHANGED vars
  BY <1>1 DEF TypeOK, vars
<1>2. ASSUME NEW p, NEW longAgo, HeartbeatOK(p), HeartbeatStep(p, longAgo) PROVE TypeOK'
  <2>1. PICK u \in States, st \in States :
          /\ p.to \in Nodes /\ Become(p.to, st) /\ net' \subseteq net \cup Corrections(p.to, u, p)
          /\ UNCHANGED <<scenario, winners, carried, restarts>>
    BY <1>2, HeartbeatEffect
  <2>2. cluster' \in [Nodes -> States]
    BY <2>1, BecomeEffect
  <2>3. \A q \in net' : PacketOK(q)
    BY <1>2, <2>1, CorrectionsOK DEF TypeOK
  <2> QED
    BY <2>1, <2>2, <2>3 DEF TypeOK
<1>3. ASSUME NEW n \in Up, NEW m \in Up \ {n}, SlowPing(n, m) PROVE TypeOK'
  <2>1. n \in Nodes /\ m \in Nodes \ {n}
    BY DEF Up
  <2> DEFINE p == clusterBuildMessageHdr(n, "PING", m)
  <2>2. HeartbeatOK(p) /\ p.type = "PING"
    BY <2>1, HeaderEffect
  <2>3. /\ net' = net \cup {p} /\ UNCHANGED <<cluster, scenario, winners, carried, restarts>>
    BY <1>3 DEF SlowPing
  <2> HIDE DEF p
  <2>4. PacketOK(p)
    BY <2>2 DEF PacketOK, HeartbeatOK
  <2> QED
    BY <2>3, <2>4 DEF TypeOK
<1>4. ASSUME NEW p \in net, ReceiveUpdate(p) PROVE TypeOK'
  <2>1. PICK st \in States : UpdateOK(p) /\ Become(p.to, st) /\ net' = net \ {p}
    BY <1>4, UpdateStep
  <2>2. cluster' \in [Nodes -> States]
    BY <2>1, BecomeEffect DEF UpdateOK
  <2> QED
    BY <1>4, <2>1, <2>2 DEF TypeOK, ReceiveUpdate
<1>5. ASSUME NEW p \in net, NEW n \in Up, ReceiveRequest(p, n) PROVE TypeOK'
  <2>0. n \in Nodes /\ FromNode(p)
    BY DEF Up, TypeOK, PacketOK
  <2> DEFINE l == LearnEpochs(cluster[n], p)
  <2>1. /\ Heard(cluster[n], l)
        /\ \E st \in States :
             Become(n, st) /\ net' \subseteq net \cup {VotePacket(l, n, p.from)}
    BY <1>5, <2>0, VoteStep
  <2>2. cluster' \in [Nodes -> States]
    BY <2>0, <2>1, BecomeEffect
  <2>3. PacketOK(VotePacket(l, n, p.from))
    BY <2>0, <2>1 DEF Heard, States, VotePacket, PacketOK, FromNode
  <2> HIDE DEF l
  <2> QED
    BY <1>5, <2>1, <2>2, <2>3 DEF TypeOK, ReceiveRequest
<1>6. ASSUME NEW n \in Nodes, NEW c \in States, NEW st \in States, Become(n, st),
             Record(n, c, st), Carry(n, c, st), scenario' = scenario, restarts' = restarts,
             \A q \in net' : q \in net \/ Requested(n, c, st, q)
      PROVE  TypeOK'
  <2>1. cluster' \in [Nodes -> States]
    BY <1>6, BecomeEffect
  <2>2. <<st.auth_epoch, n>> \in Nat \X Nodes
    BY DEF States
  <2>3. winners' \subseteq Nat \X Nodes /\ carried' \subseteq Nat \X Nodes
    BY <1>6, <2>2 DEF Record, Carry, TypeOK
  <2>4. \A q \in net' : PacketOK(q)
    BY <1>6 DEF TypeOK, PacketOK, Requested
  <2> QED
    BY <1>6, <2>1, <2>3, <2>4 DEF TypeOK
<1>7. ASSUME NEW p \in net, NEW clock, ReceiveAck(p, clock) PROVE TypeOK'
  <2>1. p.to \in Nodes /\ Counted(p) \in States /\ scenario' = scenario /\ restarts' = restarts
    BY <1>7, CountedEffect DEF ReceiveAck
  <2> QED
    BY <1>6, <1>7, <2>1, AckStep
<1>8. ASSUME NEW n \in Up, NEW clock, Cron(n, clock) PROVE TypeOK'
  <2>1. n \in Nodes /\ cluster[n] \in States /\ scenario' = scenario /\ restarts' = restarts
    BY <1>8 DEF Up, TypeOK, Cron
  <2> QED
    BY <1>6, <1>8, <2>1, CronStep
<1>9. ASSUME NEW m \in Suspects, MarkFailed(m) PROVE TypeOK'
  <2>1. cluster' \in [Nodes -> States]
    BY <1>9, ClusterAssumption, MarkFailedEffect
  <2> QED
    BY <1>9, <2>1 DEF TypeOK, MarkFailed
<1>10. ASSUME NEW n \in Up, Restart(n) PROVE TypeOK'
  <2>1. cluster' \in [Nodes -> States] /\ net' \subseteq net /\ restarts' \in Nat
    BY <1>10, RestartStep DEF Up
  <2> QED
    BY <1>10, <2>1 DEF TypeOK, Restart
<1>11. ASSUME NEW n \in Up, NEW m \in Up \ {n}, Ping(n, m) PROVE TypeOK'
  BY <1>2, <1>11, PingIsHeartbeat
<1>12. ASSUME NEW p \in net, ReceivePing(p) PROVE TypeOK'
  BY <1>2, <1>12, ReceivePingIsHeartbeat
<1> QED
  BY <1>1, <1>3, <1>4, <1>5, <1>7, <1>8, <1>9, <1>10, <1>11, <1>12 DEF Next
-----------------------------------------------------------------------------
(* A replica serves nothing. *)

ServesNothing(me, st) == st.slaveof[me] # None => \A s \in Slots : st.slots[s] # me

\* A node that loses slots is a replica only when the last of them is gone.
LEMMA UpdateServes ==
    ASSUME NEW st \in States, NEW me \in Nodes, NEW sender \in Nodes, sender # me,
           NEW epoch \in Nat, NEW claimed \in SUBSET Slots, ServesNothing(me, st)
    PROVE  ServesNothing(me, clusterUpdateSlotsConfigWith(me, st, sender, epoch, claimed))
<1> DEFINE b == clusterUpdateSlotsConfigWith(me, st, sender, epoch, claimed)
<1>1. /\ \A s \in Slots : b.slots[s] \in {sender, st.slots[s]}
      /\ b.slaveof[me] # st.slaveof[me] => \A s \in Slots : b.slots[s] # Curmaster(st, me)
  BY UpdateSlotsEffect
<1> HIDE DEF b
<1>2. CASE st.slaveof[me] = None
  BY <1>1, <1>2 DEF ServesNothing, Curmaster, IsMaster, b
<1>3. CASE st.slaveof[me] # None
  BY <1>1, <1>3 DEF ServesNothing, b
<1> QED
  BY <1>2, <1>3

LEMMA HeartbeatServes ==
    ASSUME NEW st \in States, NEW p, HeartbeatOK(p), ServesNothing(p.to, st), NEW longAgo
    PROVE  ServesNothing(p.to, clusterHandleConfigEpochCollision(p.to,
               Updated(p.to, Switched(LearnEpochs(st, p), p, longAgo), p), p))
<1> DEFINE me == p.to
           l == LearnEpochs(st, p)
           w == Switched(l, p, longAgo)
           u == Updated(me, w, p)
           b == clusterHandleConfigEpochCollision(me, u, p)
<1>0. /\ me \in Nodes /\ p.from \in Nodes \ {me} /\ FromNode(p)
      /\ p.configEpoch \in Nat /\ p.myslots \in SUBSET Slots
  BY DEF HeartbeatOK, FromNode
<1>1. l \in States /\ w \in States /\ u \in States
  BY <1>0, HeartbeatHeard
<1>2. ServesNothing(me, l)
  <2>1. l.slaveof = st.slaveof /\ l.slots = st.slots
    BY <1>0, LearnEpochsEffect
  <2> HIDE DEF l
  <2> QED
    BY <2>1 DEF ServesNothing
<1> HIDE DEF l
<1>3. ServesNothing(me, w)
  <2>1. /\ \A n \in Nodes \ {p.from} : w.slaveof[n] = l.slaveof[n]
        /\ \A s \in Slots : w.slots[s] \in {None, l.slots[s]}
    BY <1>1, SwitchedEffect
  <2>2. None \notin Nodes
    BY ClusterAssumption
  <2> HIDE DEF w
  <2> QED
    BY <1>0, <1>2, <2>1, <2>2 DEF ServesNothing
<1> HIDE DEF w
<1>4. ServesNothing(me, u)
  BY <1>0, <1>1, <1>3, UpdateServes DEF Updated
<1> HIDE DEF u
<1>5. b.slaveof = u.slaveof /\ b.slots = u.slots
  BY <1>0, <1>1, CollisionEffect
<1>6. ServesNothing(me, b)
  <2> HIDE DEF b
  <2> QED
    BY <1>4, <1>5 DEF ServesNothing
<1> QED
  BY <1>6 DEF b, u, w, l

LEMMA ProcessUpdateServes ==
    ASSUME NEW st \in States, NEW p, UpdateOK(p), ServesNothing(p.to, st)
    PROVE  ServesNothing(p.to, ProcessUpdate(p.to, st, p))
<1> DEFINE i == Informed(st, p)
<1>0. /\ p.to \in Nodes /\ p.about \in Nodes \ {p.to} /\ p.reportedConfigEpoch \in Nat
      /\ p.slots \in SUBSET Slots
  BY DEF UpdateOK
<1>1. /\ Heard(st, i) /\ i.slots = st.slots
      /\ \A n \in Nodes \ {p.about} : i.slaveof[n] = st.slaveof[n]
  BY InformedEffect
<1> HIDE DEF i
<1>2. i \in States /\ ServesNothing(p.to, i)
  BY <1>0, <1>1 DEF Heard, ServesNothing
<1>3. ServesNothing(p.to, clusterUpdateSlotsConfigWith(p.to, i, p.about, p.reportedConfigEpoch, p.slots))
  BY <1>0, <1>2, UpdateServes
<1> QED
  BY <1>3, ProcessUpdateEffect DEF i

LEMMA ElectsServes ==
    ASSUME NEW me \in Nodes, NEW c \in States, NEW st, Elects(me, c, st), ServesNothing(me, c)
    PROVE  ServesNothing(me, st)
BY DEF Elects, ServesNothing, Retries, Starts, Replaces, SameView

NothingServed == \A n \in Nodes : ServesNothing(n, cluster[n])

LEMMA BecomeServes ==
    ASSUME TypeOK, NothingServed, NEW m \in Nodes, NEW st \in States, Become(m, st),
           ServesNothing(m, st)
    PROVE  NothingServed'
<1>1. /\ \A n \in Nodes \ {m} : cluster'[n] = cluster[n]
      /\ SameView(st, cluster'[m])
  BY BecomeEffect
<1> QED
  BY <1>1 DEF NothingServed, ServesNothing, SameView

LEMMA InitServes == Init => NothingServed
BY ClusterAssumption DEF Init, NothingServed, ServesNothing

LEMMA NextServes == TypeOK /\ NothingServed /\ [Next]_vars => NothingServed'
<1> SUFFICES ASSUME TypeOK, NothingServed, [Next]_vars PROVE NothingServed'
  OBVIOUS
<1>1. CASE UNCHANGED cluster
  BY <1>1 DEF NothingServed
<1>2. ASSUME NEW p, NEW longAgo, HeartbeatOK(p), HeartbeatStep(p, longAgo) PROVE NothingServed'
  <2> DEFINE st == clusterHandleConfigEpochCollision(p.to,
                Updated(p.to, Switched(LearnEpochs(cluster[p.to], p), p, longAgo), p), p)
  <2>1. p.to \in Nodes /\ cluster[p.to] \in States /\ st \in States /\ Become(p.to, st)
    BY <1>2, HeartbeatEffect
  <2>2. ServesNothing(p.to, cluster[p.to])
    BY <2>1 DEF NothingServed
  <2>3. ServesNothing(p.to, st)
    BY <1>2, <2>1, <2>2, HeartbeatServes
  <2> HIDE DEF st
  <2> QED
    BY <2>1, <2>3, BecomeServes
<1>3. ASSUME NEW p \in net, ReceiveUpdate(p) PROVE NothingServed'
  <2> DEFINE l == LearnEpochs(cluster[p.to], p)
             st == ProcessUpdate(p.to, l, p)
  <2>1. UpdateOK(p) /\ l \in States /\ st \in States /\ Become(p.to, st)
    BY <1>3, UpdateStep
  <2>2. p.to \in Nodes /\ FromNode(p) /\ cluster[p.to] \in States /\ ServesNothing(p.to, cluster[p.to])
    BY <2>1 DEF UpdateOK, TypeOK, NothingServed
  <2>3. l.slaveof = cluster[p.to].slaveof /\ l.slots = cluster[p.to].slots
    BY <2>2, LearnEpochsEffect
  <2> HIDE DEF l
  <2>4. ServesNothing(p.to, l)
    BY <2>2, <2>3 DEF ServesNothing
  <2>5. ServesNothing(p.to, st)
    BY <2>1, <2>4, ProcessUpdateServes
  <2> HIDE DEF st
  <2> QED
    BY <2>1, <2>2, <2>5, BecomeServes
<1>4. ASSUME NEW p \in net, NEW n \in Up, ReceiveRequest(p, n) PROVE NothingServed'
  <2>0. n \in Nodes /\ FromNode(p) /\ cluster[n] \in States /\ ServesNothing(n, cluster[n])
    BY DEF Up, TypeOK, PacketOK, NothingServed
  <2> DEFINE l == LearnEpochs(cluster[n], p)
  <2>1. l.slaveof = cluster[n].slaveof /\ l.slots = cluster[n].slots
    BY <2>0, LearnEpochsEffect
  <2>2. PICK st \in States : Become(n, st) /\ (st = l \/ Votes(l, st))
    BY <1>4, <2>0, VoteStep
  <2> HIDE DEF l
  <2>3. ServesNothing(n, st)
    BY <2>0, <2>1, <2>2 DEF ServesNothing, Votes, SameView
  <2> QED
    BY <2>0, <2>2, <2>3, BecomeServes
<1>5. ASSUME NEW p \in net, NEW clock, ReceiveAck(p, clock) PROVE NothingServed'
  <2>1. /\ p.to \in Nodes /\ Counted(p) \in States
        /\ Counted(p).slaveof = cluster[p.to].slaveof /\ Counted(p).slots = cluster[p.to].slots
    BY <1>5, CountedEffect DEF ReceiveAck
  <2>2. PICK st \in States : Elects(p.to, Counted(p), st) /\ Become(p.to, st)
    BY <1>5, AckStep
  <2>3. ServesNothing(p.to, Counted(p))
    BY <2>1 DEF ServesNothing, NothingServed
  <2> QED
    BY <2>1, <2>2, <2>3, ElectsServes, BecomeServes
<1>6. ASSUME NEW n \in Up, NEW clock, Cron(n, clock) PROVE NothingServed'
  <2>0. n \in Nodes /\ cluster[n] \in States /\ ServesNothing(n, cluster[n])
    BY DEF Up, TypeOK, NothingServed
  <2>1. PICK st \in States : Elects(n, cluster[n], st) /\ Become(n, st)
    BY <1>6, <2>0, CronStep
  <2> QED
    BY <2>0, <2>1, ElectsServes, BecomeServes
<1>7. ASSUME NEW m \in Suspects, MarkFailed(m) PROVE NothingServed'
  <2>1. \A n \in Nodes : /\ cluster'[n].slaveof = cluster[n].slaveof
                         /\ cluster'[n].slots = cluster[n].slots
    BY <1>7, ClusterAssumption, MarkFailedEffect
  <2> QED
    BY <2>1 DEF NothingServed, ServesNothing
<1>8. ASSUME NEW n \in Up, Restart(n) PROVE NothingServed'
  <2>1. /\ \A m \in Nodes \ {n} : cluster'[m] = cluster[m]
        /\ Restarts(cluster[n], cluster'[n])
    BY <1>8, RestartStep DEF Up
  <2> QED
    BY <2>1 DEF NothingServed, ServesNothing, Restarts, SameView
<1>9. ASSUME NEW n \in Up, NEW m \in Up \ {n}, Ping(n, m) PROVE NothingServed'
  BY <1>2, <1>9, PingIsHeartbeat
<1>10. ASSUME NEW p \in net, ReceivePing(p) PROVE NothingServed'
  BY <1>2, <1>10, ReceivePingIsHeartbeat
<1>11. ASSUME NEW n \in Up, NEW m \in Up \ {n}, SlowPing(n, m) PROVE NothingServed'
  BY <1>1, <1>11 DEF SlowPing
<1> QED
  BY <1>1, <1>3, <1>4, <1>5, <1>6, <1>7, <1>8, <1>9, <1>10, <1>11 DEF Next, vars

\* No view of a replica has slots of its own, as clusterSetMaster() asserts
\* (cluster.c:3972), whatever is lost, delayed or restarted and however many nodes
\* and slots there are.
THEOREM ReplicasAreEmpty == Spec => []ReplicasServeNothing
<1>1. TypeOK /\ NothingServed => ReplicasServeNothing
  BY DEF NothingServed, ServesNothing, ReplicasServeNothing, IsMaster, SlotsOf
<1> QED
  BY <1>1, InitTypeOK, NextTypeOK, InitServes, NextServes, PTL DEF Spec
-----------------------------------------------------------------------------
(***************************************************************************)
(* One master has crashed.  What follows is about the behaviours in which  *)
(* a single node is ever reported as failing, and rightly so: it is down.  *)
(***************************************************************************)
OneSuspect == \E d \in Nodes : Suspects = {d}
Crashed == Suspects \subseteq scenario.down

Dead == CHOOSE d : d \in Suspects

\* Its slots, and the masters that serve the others: who can elect its successor.
Lost == {s \in Slots : InitOwner[s] = Dead}
Voters == {n \in Nodes : n # Dead /\ \E s \in Slots : InitOwner[s] = n}

LEMMA DeadFacts ==
    ASSUME OneSuspect
    PROVE  Suspects = {Dead} /\ Dead \in Nodes /\ Dead # None /\ None \notin Nodes
BY ClusterAssumption DEF OneSuspect, Dead

\* The slots C that node n may claim: its own, and the lost ones all or none.
Claims(n, C) ==
    /\ \A s \in C : s \in Lost \/ InitOwner[s] = n
    /\ \A s, t \in Lost : s \in C => t \in C

\* In the view st of node me only the lost slots move, and they move together; a
\* replica of the crashed master has not seen them move; nobody else fails.
ViewOK(me, st) ==
    /\ \A s \in Slots \ Lost : st.slots[s] = InitOwner[s]
    /\ \A s, t \in Lost : st.slots[s] = st.slots[t]
    /\ \A n \in Voters : st.slaveof[n] = None
    /\ st.slaveof[me] = Dead => \A s \in Lost : st.slots[s] = Dead
    /\ st.configEpoch[Dead] = InitEpoch[Dead]
    /\ st.fail \subseteq {Dead}

\* Nobody becomes a replica of the crashed master any more.
NoReturn(me, a, b) == b.slaveof[me] = Dead => a.slaveof[me] = Dead

HeartbeatView(p) ==
    /\ p.from # Dead /\ p.to # Dead
    /\ p.from \in Voters => p.slaveof = None
    /\ p.slaveof = None => Claims(p.from, p.myslots)
UpdateView(p) ==
    /\ p.from # Dead
    /\ Claims(p.about, p.slots)
    /\ p.about = Dead => p.reportedConfigEpoch = InitEpoch[Dead]
PacketView(p) ==
    /\ p.from # Dead
    /\ p.type = "PING" => HeartbeatView(p)
    /\ p.type = "UPDATE" => UpdateView(p)
    /\ p.type = "ACK" => p.to # Dead

ViewInv ==
    /\ Crashed
    /\ \A n \in Nodes : ViewOK(n, cluster[n])
    /\ \A p \in net : PacketView(p)

LEMMA OwnClaims ==
    ASSUME OneSuspect, NEW me, NEW st \in States, ViewOK(me, st), NEW n \in Nodes
    PROVE  Claims(n, SlotsOf(st, n))
<1>1. Lost \subseteq Slots
  BY DEF Lost
<1> QED
  BY <1>1 DEF Claims, SlotsOf, ViewOK

LEMMA LearnView ==
    ASSUME OneSuspect, NEW me \in Nodes, NEW st \in States, NEW p, FromNode(p), p.from # Dead,
           ViewOK(me, st)
    PROVE  ViewOK(me, LearnEpochs(st, p)) /\ NoReturn(me, st, LearnEpochs(st, p))
<1> DEFINE b == LearnEpochs(st, p)
<1>1. /\ b.slaveof = st.slaveof /\ b.slots = st.slots /\ b.fail = st.fail
      /\ \A n \in Nodes \ {p.from} : b.configEpoch[n] = st.configEpoch[n]
  BY LearnEpochsEffect
<1> HIDE DEF b
<1> QED
  BY <1>1, DeadFacts DEF ViewOK, NoReturn, b

LEMMA SwitchedView ==
    ASSUME OneSuspect, NEW st \in States, NEW p, HeartbeatOK(p), HeartbeatView(p), NEW longAgo,
           ViewOK(p.to, st)
    PROVE  ViewOK(p.to, Switched(st, p, longAgo)) /\ NoReturn(p.to, st, Switched(st, p, longAgo))
<1> DEFINE b == Switched(st, p, longAgo)
           me == p.to
<1>0. p.from \in Nodes /\ me \in Nodes \ {p.from} /\ p.from # Dead
      /\ (p.from \in Voters => p.slaveof = None)
  BY DEF HeartbeatOK, FromNode, HeartbeatView
<1>1. /\ b.configEpoch = st.configEpoch /\ b.fail \subseteq st.fail
      /\ b.slaveof[p.from] = p.slaveof
      /\ \A n \in Nodes \ {p.from} : b.slaveof[n] = st.slaveof[n]
      /\ \A s \in Slots : b.slots[s] =
           IF p.slaveof # None /\ IsMaster(st, p.from) /\ st.slots[s] = p.from
           THEN None ELSE st.slots[s]
  BY SwitchedEffect
<1> HIDE DEF b
<1>2. \A s \in Slots \ Lost : b.slots[s] = InitOwner[s]
  BY <1>0, <1>1, ClusterAssumption DEF ViewOK, Voters, Lost
<1>3. \A s, t \in Lost : b.slots[s] = b.slots[t]
  BY <1>1 DEF ViewOK, Lost
<1>4. \A n \in Voters : b.slaveof[n] = None
  BY <1>0, <1>1 DEF ViewOK, Voters
<1>5. b.slaveof[me] = st.slaveof[me]
  BY <1>0, <1>1
<1>6. b.slaveof[me] = Dead => \A s \in Lost : b.slots[s] = Dead
  BY <1>0, <1>1, <1>5 DEF ViewOK, Lost
<1>7. b.configEpoch[Dead] = InitEpoch[Dead] /\ b.fail \subseteq {Dead}
  BY <1>1 DEF ViewOK
<1> QED
  BY <1>2, <1>3, <1>4, <1>5, <1>6, <1>7 DEF ViewOK, NoReturn, b

LEMMA UpdateSlotsView ==
    ASSUME OneSuspect, NEW st \in States, NEW me \in Nodes, NEW sender \in Nodes, sender # me,
           sender # Dead, NEW epoch \in Nat, NEW claimed \in SUBSET Slots,
           Claims(sender, claimed), ViewOK(me, st)
    PROVE  LET b == clusterUpdateSlotsConfigWith(me, st, sender, epoch, claimed)
           IN  ViewOK(me, b) /\ NoReturn(me, st, b)
<1> DEFINE b == clusterUpdateSlotsConfigWith(me, st, sender, epoch, claimed)
<1>1. /\ b.configEpoch = st.configEpoch /\ b.fail = st.fail
      /\ \A n \in Nodes \ {me} : b.slaveof[n] = st.slaveof[n]
      /\ \A s \in Slots : b.slots[s] =
           IF s \in claimed /\ Believes(st, s, sender, epoch) THEN sender ELSE st.slots[s]
      /\ b.slaveof[me] =
           IF /\ \E s \in Slots : st.slots[s] = Curmaster(st, me)
                                  /\ b.slots[s] # Curmaster(st, me)
              /\ \A s \in Slots : b.slots[s] # Curmaster(st, me)
           THEN sender ELSE st.slaveof[me]
  BY UpdateSlotsEffect
<1> HIDE DEF b
<1>2. \A s \in Slots \ Lost : b.slots[s] = InitOwner[s]
  BY <1>1 DEF ViewOK, Claims, Believes
<1>3. \A s, t \in Lost : b.slots[s] = b.slots[t]
  <2>1. \A s, t \in Lost : Believes(st, s, sender, epoch) <=> Believes(st, t, sender, epoch)
    BY DEF Believes, ViewOK
  <2>2. \A s, t \in Lost : st.slots[s] = st.slots[t]
    BY DEF ViewOK
  <2>3. \A s, t \in Lost : s \in claimed <=> t \in claimed
    BY DEF Claims
  <2>4. Lost \subseteq Slots
    BY DEF Lost
  <2> QED
    BY <1>1, <2>1, <2>2, <2>3, <2>4
<1>4. \A n \in Voters : b.slaveof[n] = None
  <2>1. ASSUME me \in Voters PROVE b.slaveof[me] = None
    <3>1. st.slaveof[me] = None /\ Curmaster(st, me) = me
      BY <2>1 DEF ViewOK, Curmaster, IsMaster
    <3>2. PICK s \in Slots \ Lost : InitOwner[s] = me
      BY <2>1 DEF Voters, Lost
    <3> QED
      BY <1>1, <1>2, <3>1, <3>2
  <2> QED
    BY <1>1, <2>1 DEF ViewOK, Voters
<1>5. NoReturn(me, st, b)
  BY <1>1 DEF NoReturn
<1>6. ASSUME b.slaveof[me] = Dead, NEW s \in Lost, b.slots[s] # Dead PROVE FALSE
  <2>1. st.slaveof[me] = Dead
    BY <1>5, <1>6 DEF NoReturn
  <2>2. Curmaster(st, me) = Dead /\ st.slots[s] = Dead /\ s \in Slots
    BY <2>1, DeadFacts DEF Curmaster, IsMaster, ViewOK, Lost
  <2>3. \A t \in Slots : b.slots[t] # Dead
    BY <1>2, <1>3, <1>6 DEF Lost
  <2> QED
    BY <1>1, <1>6, <2>2, <2>3
<1>7. b.configEpoch[Dead] = InitEpoch[Dead] /\ b.fail \subseteq {Dead}
  BY <1>1 DEF ViewOK
<1> QED
  BY <1>2, <1>3, <1>4, <1>5, <1>6, <1>7 DEF ViewOK, b

LEMMA HeartbeatKeepsView ==
    ASSUME OneSuspect, NEW st \in States, NEW p, HeartbeatOK(p), HeartbeatView(p), NEW longAgo,
           ViewOK(p.to, st)
    PROVE  LET u == Updated(p.to, Switched(LearnEpochs(st, p), p, longAgo), p)
               b == clusterHandleConfigEpochCollision(p.to, u, p)
           IN  ViewOK(p.to, u) /\ ViewOK(p.to, b) /\ NoReturn(p.to, st, b)
<1> DEFINE me == p.to
           l == LearnEpochs(st, p)
           w == Switched(l, p, longAgo)
           u == Updated(me, w, p)
           b == clusterHandleConfigEpochCollision(me, u, p)
<1>0. /\ me \in Nodes \ {Dead} /\ p.from \in Nodes \ {me} /\ FromNode(p) /\ p.from # Dead
      /\ p.configEpoch \in Nat /\ p.myslots \in SUBSET Slots
      /\ p.slaveof = None => Claims(p.from, p.myslots)
  BY DEF HeartbeatOK, FromNode, HeartbeatView
<1>1. l \in States /\ w \in States /\ u \in States
  BY <1>0, HeartbeatHeard
<1>2. ViewOK(me, l) /\ NoReturn(me, st, l)
  BY <1>0, LearnView
<1> HIDE DEF l
<1>3. ViewOK(me, w) /\ NoReturn(me, l, w) /\ w.slaveof[p.from] = p.slaveof
  BY <1>1, <1>2, SwitchedView, SwitchedEffect
<1> HIDE DEF w
<1>4. ViewOK(me, u) /\ NoReturn(me, w, u)
  <2>1. CASE u = w
    BY <1>3, <2>1 DEF NoReturn
  <2>2. CASE /\ IsMaster(w, p.from)
             /\ u = clusterUpdateSlotsConfigWith(me, w, p.from, p.configEpoch, p.myslots)
    <3>1. Claims(p.from, p.myslots)
      BY <1>0, <1>3, <2>2 DEF IsMaster
    <3> HIDE DEF u
    <3> QED
      BY <1>0, <1>1, <1>3, <2>2, <3>1, UpdateSlotsView
  <2> QED
    BY <2>1, <2>2 DEF Updated
<1> HIDE DEF u
<1>5. /\ b.slaveof = u.slaveof /\ b.slots = u.slots /\ b.fail = u.fail
      /\ \A n \in Nodes \ {me} : b.configEpoch[n] = u.configEpoch[n]
  BY <1>0, <1>1, CollisionEffect
<1> HIDE DEF b
<1>6. ViewOK(me, b) /\ NoReturn(me, u, b)
  BY <1>0, <1>4, <1>5, DeadFacts DEF ViewOK, NoReturn
<1>7. NoReturn(me, st, b)
  BY <1>2, <1>3, <1>4, <1>6 DEF NoReturn
<1> QED
  BY <1>4, <1>6, <1>7 DEF b, u, w, l

LEMMA ProcessUpdateView ==
    ASSUME OneSuspect, NEW st \in States, NEW p, UpdateOK(p), UpdateView(p), ViewOK(p.to, st)
    PROVE  LET b == ProcessUpdate(p.to, st, p)
           IN  ViewOK(p.to, b) /\ NoReturn(p.to, st, b)
<1> DEFINE me == p.to
           i == Informed(st, p)
           b == ProcessUpdate(me, st, p)
<1>0. /\ me \in Nodes /\ p.about \in Nodes \ {me} /\ p.reportedConfigEpoch \in Nat
      /\ p.slots \in SUBSET Slots /\ Claims(p.about, p.slots)
      /\ p.about = Dead => p.reportedConfigEpoch = InitEpoch[Dead]
  BY DEF UpdateOK, UpdateView
<1>1. CASE b = st
  BY <1>1 DEF NoReturn
<1>2. CASE /\ st.configEpoch[p.about] < p.reportedConfigEpoch
           /\ b = clusterUpdateSlotsConfigWith(me, i, p.about, p.reportedConfigEpoch, p.slots)
  <2>1. p.about # Dead
    BY <1>0, <1>2 DEF ViewOK
  <2>2. /\ Heard(st, i) /\ i.slots = st.slots /\ i.fail = st.fail /\ i.slaveof[p.about] = None
        /\ \A n \in Nodes \ {p.about} : /\ i.slaveof[n] = st.slaveof[n]
                                        /\ i.configEpoch[n] = st.configEpoch[n]
    BY InformedEffect
  <2> HIDE DEF i
  <2>3. i \in States /\ ViewOK(me, i) /\ NoReturn(me, st, i)
    BY <1>0, <2>1, <2>2, DeadFacts DEF Heard, ViewOK, NoReturn, Voters
  <2> HIDE DEF b
  <2>4. ViewOK(me, b) /\ NoReturn(me, i, b)
    BY <1>0, <1>2, <2>1, <2>3, UpdateSlotsView
  <2> QED
    BY <2>3, <2>4 DEF NoReturn, b
<1> QED
  BY <1>1, <1>2, ProcessUpdateEffect

\* Only a replica of the crashed master has an election.
LEMMA Candidate ==
    ASSUME OneSuspect, NEW me \in Nodes, NEW c, ViewOK(me, c), FailoverNeeded(me, c)
    PROVE  /\ c.slaveof[me] = Dead /\ \A s \in Lost : c.slots[s] = Dead
           /\ Lost # {} /\ me \notin Voters
<1>1. c.slaveof[me] = Dead
  BY DEF FailoverNeeded, ViewOK
<1>2. Lost # {}
  BY <1>1 DEF FailoverNeeded, ViewOK, SlotsOf, Lost
<1>3. me \notin Voters
  BY <1>1, DeadFacts DEF ViewOK
<1> QED
  BY <1>1, <1>2, <1>3 DEF ViewOK

LEMMA ElectsView ==
    ASSUME OneSuspect, NEW me \in Nodes \ {Dead}, NEW c \in States, NEW st, Elects(me, c, st),
           ViewOK(me, c)
    PROVE  ViewOK(me, st) /\ NoReturn(me, c, st)
<1>1. CASE st = c
  BY <1>1 DEF NoReturn
<1>2. CASE SameView(c, st)
  BY <1>2 DEF NoReturn, ViewOK, SameView
<1>3. CASE FailoverNeeded(me, c) /\ Replaces(me, c, st)
  <2>1. /\ c.slaveof[me] = Dead /\ \A s \in Lost : c.slots[s] = Dead
    BY <1>3, Candidate
  <2>2. /\ st.slaveof[me] = None /\ st.fail = c.fail
        /\ \A n \in Nodes \ {me} : st.slaveof[n] = c.slaveof[n] /\ st.configEpoch[n] = c.configEpoch[n]
        /\ \A s \in Slots : st.slots[s] = IF c.slots[s] = Dead THEN me ELSE c.slots[s]
    BY <1>3, <2>1 DEF Replaces
  <2>3. \A s \in Slots \ Lost : st.slots[s] = InitOwner[s]
    BY <2>2 DEF ViewOK, Lost
  <2>4. \A s, t \in Lost : st.slots[s] = st.slots[t]
    BY <2>1, <2>2 DEF Lost
  <2>5. \A n \in Voters : st.slaveof[n] = None
    BY <2>2 DEF ViewOK, Voters
  <2>6. st.configEpoch[Dead] = InitEpoch[Dead] /\ st.fail \subseteq {Dead} /\ st.slaveof[me] # Dead
    BY <2>2, DeadFacts DEF ViewOK
  <2> QED
    BY <2>3, <2>4, <2>5, <2>6 DEF ViewOK, NoReturn
<1> QED
  BY <1>1, <1>2, <1>3 DEF Elects, Retries, Starts

ViewStep == ViewInv' /\ \A n \in Nodes : NoReturn(n, cluster[n], cluster'[n])

LEMMA BecomeView ==
    ASSUME OneSuspect, TypeOK, ViewInv, NEW m \in Nodes, NEW st \in States, Become(m, st),
           ViewOK(m, st), NoReturn(m, cluster[m], st), scenario' = scenario,
           \A q \in net' : PacketView(q)
    PROVE  ViewStep
<1>1. /\ \A n \in Nodes \ {m} : cluster'[n] = cluster[n]
      /\ SameView(st, cluster'[m])
  BY BecomeEffect
<1>2. ViewOK(m, cluster'[m]) /\ NoReturn(m, cluster[m], cluster'[m])
  BY <1>1 DEF SameView, ViewOK, NoReturn
<1>3. \A n \in Nodes : ViewOK(n, cluster'[n]) /\ NoReturn(n, cluster[n], cluster'[n])
  <2>1. \A n \in Nodes \ {m} : ViewOK(n, cluster'[n]) /\ NoReturn(n, cluster[n], cluster'[n])
    BY <1>1 DEF ViewInv, NoReturn
  <2> QED
    BY <1>2, <2>1
<1> QED
  BY <1>3 DEF ViewStep, ViewInv, Crashed

LEMMA HeaderView ==
    ASSUME OneSuspect, TypeOK, ViewInv, NEW n \in Up, NEW m \in Up \ {n}
    PROVE  HeartbeatView(clusterBuildMessageHdr(n, "PING", m))
<1> DEFINE p == clusterBuildMessageHdr(n, "PING", m)
           st == cluster[n]
<1>1. n \in Nodes \ {Dead} /\ m \in Nodes \ {Dead}
  BY DeadFacts DEF ViewInv, Crashed, Up
<1>2. st \in States /\ ViewOK(n, st)
  BY <1>1 DEF TypeOK, ViewInv
<1>3. /\ p.from = n /\ p.to = m /\ p.slaveof = st.slaveof[n]
      /\ p.myslots = SlotsOf(st, Curmaster(st, n))
  BY <1>1, HeaderEffect
<1> HIDE DEF p, st
<1>4. n \in Voters => p.slaveof = None
  BY <1>2, <1>3 DEF ViewOK
<1>5. p.slaveof = None => Claims(n, p.myslots)
  BY <1>1, <1>2, <1>3, OwnClaims DEF Curmaster, IsMaster
<1> QED
  BY <1>1, <1>3, <1>4, <1>5 DEF HeartbeatView, p

LEMMA SentView ==
    ASSUME OneSuspect, TypeOK, ViewInv, NEW p, Sent(p)
    PROVE  HeartbeatView(p)
BY HeaderView DEF Sent, ViewInv, PacketView

LEMMA CorrectionsView ==
    ASSUME OneSuspect, NEW me \in Nodes \ {Dead}, NEW st \in States, NEW p, HeartbeatOK(p),
           ViewOK(me, st), NEW q \in Corrections(me, st, p)
    PROVE  PacketView(q)
<1>1. /\ q.type = "UPDATE" /\ q.from = me /\ q.about \in Nodes
      /\ q.reportedConfigEpoch = st.configEpoch[q.about] /\ q.slots = SlotsOf(st, q.about)
  BY CorrectionsEffect
<1>2. Claims(q.about, q.slots)
  BY <1>1, OwnClaims
<1> QED
  BY <1>1, <1>2 DEF PacketView, UpdateView, ViewOK

LEMMA InitView == OneSuspect /\ Init /\ Crashed => ViewInv
<1> SUFFICES ASSUME OneSuspect, Init, Crashed PROVE ViewInv
  OBVIOUS
<1>1. ASSUME NEW n \in Nodes PROVE ViewOK(n, cluster[n])
  <2>1. /\ cluster[n].slots = InitOwner /\ cluster[n].slaveof = InitSlaveof
        /\ cluster[n].configEpoch = InitEpoch /\ cluster[n].fail = {}
    BY DEF Init
  <2>2. \A s \in Slots : InitSlaveof[InitOwner[s]] = None
    BY ClusterAssumption
  <2>3. \A s \in Lost : InitOwner[s] = Dead
    BY DEF Lost
  <2> QED
    BY <2>1, <2>2, <2>3 DEF ViewOK, Voters
<1> QED
  BY <1>1 DEF ViewInv, Init

LEMMA NextView == OneSuspect /\ TypeOK /\ ViewInv /\ [Next]_vars => ViewStep
<1> SUFFICES ASSUME OneSuspect, TypeOK, ViewInv, [Next]_vars PROVE ViewStep
  OBVIOUS
<1>0. \A n \in Up : n \in Nodes \ {Dead} /\ cluster[n] \in States /\ ViewOK(n, cluster[n])
  BY DeadFacts DEF ViewInv, Crashed, Up, TypeOK
<1>1. CASE UNCHANGED vars
  BY <1>1 DEF vars, ViewStep, ViewInv, NoReturn, Crashed
<1>2. ASSUME NEW p, NEW longAgo, HeartbeatOK(p), Sent(p), HeartbeatStep(p, longAgo) PROVE ViewStep
  <2> DEFINE me == p.to
             u == Updated(me, Switched(LearnEpochs(cluster[me], p), p, longAgo), p)
             st == clusterHandleConfigEpochCollision(me, u, p)
  <2>1. /\ me \in Nodes /\ cluster[me] \in States /\ u \in States
        /\ st \in States /\ Become(me, st)
        /\ net' \subseteq net \cup Corrections(me, u, p) /\ scenario' = scenario
    BY <1>2, HeartbeatEffect
  <2>2. HeartbeatView(p)
    BY <1>2, SentView
  <2>3. ViewOK(me, cluster[me]) /\ me # Dead
    BY <2>1, <2>2 DEF ViewInv, HeartbeatView
  <2>4. ViewOK(me, u) /\ ViewOK(me, st) /\ NoReturn(me, cluster[me], st)
    BY <1>2, <2>1, <2>2, <2>3, HeartbeatKeepsView
  <2> HIDE DEF u, st
  <2>5. \A q \in net' : PacketView(q)
    <3>1. \A q \in Corrections(me, u, p) : PacketView(q)
      BY <1>2, <2>1, <2>3, <2>4, CorrectionsView
    <3> QED
      BY <2>1, <3>1 DEF ViewInv
  <2> QED
    BY <2>1, <2>4, <2>5, BecomeView
<1>3. ASSUME NEW n \in Up, NEW m \in Up \ {n}, SlowPing(n, m) PROVE ViewStep
  <2> DEFINE p == clusterBuildMessageHdr(n, "PING", m)
  <2>1. HeartbeatView(p) /\ p.type = "PING"
    BY <1>0, HeaderView, HeaderEffect
  <2>2. net' = net \cup {p} /\ cluster' = cluster /\ scenario' = scenario
    BY <1>3 DEF SlowPing
  <2> HIDE DEF p
  <2>3. PacketView(p)
    BY <2>1 DEF PacketView, HeartbeatView
  <2> QED
    BY <2>2, <2>3 DEF ViewStep, ViewInv, Crashed, NoReturn
<1>4. ASSUME NEW p \in net, ReceiveUpdate(p) PROVE ViewStep
  <2> DEFINE l == LearnEpochs(cluster[p.to], p)
             st == ProcessUpdate(p.to, l, p)
  <2>1. /\ UpdateOK(p) /\ l \in States /\ st \in States /\ Become(p.to, st) /\ net' = net \ {p}
    BY <1>4, UpdateStep
  <2>2. /\ p.to \in Nodes /\ cluster[p.to] \in States /\ ViewOK(p.to, cluster[p.to])
        /\ FromNode(p) /\ UpdateView(p) /\ p.from # Dead
    BY <1>4, <2>1 DEF UpdateOK, TypeOK, ViewInv, PacketView, ReceiveUpdate
  <2>3. ViewOK(p.to, l) /\ NoReturn(p.to, cluster[p.to], l)
    BY <2>2, LearnView
  <2> HIDE DEF l
  <2>4. ViewOK(p.to, st) /\ NoReturn(p.to, l, st)
    BY <2>1, <2>2, <2>3, ProcessUpdateView
  <2> HIDE DEF st
  <2>5. NoReturn(p.to, cluster[p.to], st)
    BY <2>3, <2>4 DEF NoReturn
  <2>6. scenario' = scenario /\ \A q \in net' : PacketView(q)
    BY <1>4, <2>1 DEF ReceiveUpdate, ViewInv
  <2> QED
    BY <2>1, <2>2, <2>4, <2>5, <2>6, BecomeView
<1>5. ASSUME NEW p \in net, NEW n \in Up, ReceiveRequest(p, n) PROVE ViewStep
  <2> DEFINE l == LearnEpochs(cluster[n], p)
  <2>0. n \in Nodes \ {Dead} /\ FromNode(p) /\ p.from # Dead
    BY <1>0 DEF TypeOK, PacketOK, ViewInv, PacketView
  <2>1. ViewOK(n, l) /\ NoReturn(n, cluster[n], l)
    BY <1>0, <2>0, LearnView
  <2>2. PICK st \in States : /\ Become(n, st) /\ (st = l \/ Votes(l, st))
                             /\ net' \subseteq net \cup {VotePacket(l, n, p.from)}
    BY <1>5, <2>0, VoteStep
  <2>3. PacketView(VotePacket(l, n, p.from))
    BY <2>0 DEF VotePacket, PacketView
  <2> HIDE DEF l
  <2>4. ViewOK(n, st) /\ NoReturn(n, cluster[n], st)
    BY <2>1, <2>2 DEF Votes, SameView, ViewOK, NoReturn
  <2>5. scenario' = scenario /\ \A q \in net' : PacketView(q)
    BY <1>5, <2>2, <2>3 DEF ReceiveRequest, ViewInv
  <2> QED
    BY <2>0, <2>2, <2>4, <2>5, BecomeView
<1>6. ASSUME NEW p \in net, NEW clock, ReceiveAck(p, clock) PROVE ViewStep
  <2> DEFINE c == Counted(p)
  <2>0. p.to \in Nodes \ {Dead} /\ p.from # Dead /\ p.type = "ACK"
    BY <1>6, CountedEffect DEF ReceiveAck, ViewInv, PacketView
  <2>1. /\ c \in States /\ c.slaveof = cluster[p.to].slaveof /\ c.slots = cluster[p.to].slots
        /\ c.fail = cluster[p.to].fail
        /\ \A n \in Nodes \ {p.from} : c.configEpoch[n] = cluster[p.to].configEpoch[n]
    BY <2>0, CountedEffect
  <2> HIDE DEF c
  <2>2. ViewOK(p.to, c) /\ NoReturn(p.to, cluster[p.to], c)
    BY <2>0, <2>1, DeadFacts DEF ViewInv, ViewOK, NoReturn
  <2>3. PICK st \in States : /\ Elects(p.to, c, st) /\ Become(p.to, st)
                             /\ \A q \in net' : q \in net \/ Requested(p.to, c, st, q)
    BY <1>6, AckStep DEF c
  <2>4. ViewOK(p.to, st) /\ NoReturn(p.to, c, st)
    BY <2>0, <2>1, <2>2, <2>3, ElectsView
  <2>5. NoReturn(p.to, cluster[p.to], st)
    BY <2>2, <2>4 DEF NoReturn
  <2>6. scenario' = scenario /\ \A q \in net' : PacketView(q)
    BY <1>6, <2>0, <2>3 DEF ReceiveAck, ViewInv, PacketView, Requested
  <2> QED
    BY <2>0, <2>3, <2>4, <2>5, <2>6, BecomeView
<1>7. ASSUME NEW n \in Up, NEW clock, Cron(n, clock) PROVE ViewStep
  <2>0. n \in Nodes \ {Dead} /\ cluster[n] \in States /\ ViewOK(n, cluster[n])
    BY <1>0
  <2>1. PICK st \in States :
          /\ Elects(n, cluster[n], st) /\ Become(n, st)
          /\ \A q \in net' : q \in net \/ Requested(n, cluster[n], st, q)
    BY <1>7, <2>0, CronStep
  <2>2. ViewOK(n, st) /\ NoReturn(n, cluster[n], st)
    BY <2>0, <2>1, ElectsView
  <2>3. scenario' = scenario /\ \A q \in net' : PacketView(q)
    BY <1>7, <2>0, <2>1 DEF Cron, ViewInv, PacketView, Requested
  <2> QED
    BY <2>0, <2>1, <2>2, <2>3, BecomeView
<1>8. ASSUME NEW m \in Suspects, MarkFailed(m) PROVE ViewStep
  <2>0. m = Dead /\ m \in Nodes
    BY DeadFacts
  <2>1. \A n \in Nodes : /\ cluster'[n].slaveof = cluster[n].slaveof
                         /\ cluster'[n].slots = cluster[n].slots
                         /\ cluster'[n].configEpoch = cluster[n].configEpoch
                         /\ cluster'[n].fail \subseteq cluster[n].fail \cup {m}
    BY <1>8, <2>0, MarkFailedEffect
  <2>2. \A n \in Nodes : ViewOK(n, cluster'[n]) /\ NoReturn(n, cluster[n], cluster'[n])
    BY <2>0, <2>1 DEF ViewInv, ViewOK, NoReturn
  <2>3. scenario' = scenario /\ net' = net
    BY <1>8 DEF MarkFailed
  <2> QED
    BY <2>2, <2>3 DEF ViewStep, ViewInv, Crashed
<1>9. ASSUME NEW n \in Up, Restart(n) PROVE ViewStep
  <2>1. /\ \A m \in Nodes \ {n} : cluster'[m] = cluster[m]
        /\ SameView(cluster[n], cluster'[n]) /\ net' \subseteq net
    BY <1>0, <1>9, RestartStep DEF Restarts
  <2>2. \A m \in Nodes : ViewOK(m, cluster'[m]) /\ NoReturn(m, cluster[m], cluster'[m])
    BY <2>1 DEF ViewInv, ViewOK, NoReturn, SameView
  <2>3. scenario' = scenario
    BY <1>9 DEF Restart
  <2> QED
    BY <2>1, <2>2, <2>3 DEF ViewStep, ViewInv, Crashed
<1>10. ASSUME NEW n \in Up, NEW m \in Up \ {n}, Ping(n, m) PROVE ViewStep
  BY <1>2, <1>10, PingIsHeartbeat
<1>11. ASSUME NEW p \in net, ReceivePing(p) PROVE ViewStep
  BY <1>2, <1>11, ReceivePingIsHeartbeat
<1> QED
  BY <1>1, <1>3, <1>4, <1>5, <1>6, <1>7, <1>8, <1>9, <1>10, <1>11 DEF Next
-----------------------------------------------------------------------------
(* Votes. *)

\* What a node voted in and asked for is on its disk, and not beyond the epoch it
\* knows.
EpochsOK(st) ==
    st.lastVoteEpoch <= st.saved /\ st.auth_epoch <= st.saved /\ st.saved <= st.currentEpoch

\* A request is not newer than the election of its sender, and neither is a vote for it.
NotNewer(p, st) ==
    p.currentEpoch <= st.saved /\ (st.auth_sent => p.currentEpoch <= st.auth_epoch)
RequestOK(p) == p.type = "REQUEST" => NotNewer(p, cluster[p.from])
AckOK(p) == p.type = "ACK" => NotNewer(p, cluster[p.to])

EpochInv ==
    /\ \A n \in Nodes : EpochsOK(cluster[n])
    /\ \A p \in net : RequestOK(p) /\ AckOK(p)

\* A step of node m that leaves the elections alone.
LEMMA QuietEpochs ==
    ASSUME TypeOK, EpochInv, cluster' \in [Nodes -> States],
           \A n \in Nodes : /\ SameElection(cluster[n], cluster'[n])
                            /\ cluster'[n].currentEpoch >= cluster[n].currentEpoch
                            /\ cluster'[n].saved \in {cluster[n].saved, cluster'[n].currentEpoch},
           \A q \in net' : q \in net \/ q.type \in {"PING", "UPDATE"}
    PROVE  EpochInv'
<1>1. ASSUME NEW n \in Nodes
      PROVE  EpochsOK(cluster'[n]) /\ cluster'[n].saved >= cluster[n].saved
  <2>1. cluster[n] \in States /\ cluster'[n] \in States /\ EpochsOK(cluster[n])
    BY DEF TypeOK, EpochInv
  <2>2. /\ cluster[n].lastVoteEpoch \in Nat /\ cluster[n].auth_epoch \in Nat
        /\ cluster[n].saved \in Nat /\ cluster[n].currentEpoch \in Nat
        /\ cluster'[n].saved \in Nat /\ cluster'[n].currentEpoch \in Nat
    BY <2>1 DEF States
  <2> QED
    BY <2>1, <2>2 DEF EpochsOK, SameElection
<1>2. ASSUME NEW q \in net, NEW n \in Nodes, NotNewer(q, cluster[n]), q.currentEpoch \in Nat
      PROVE  NotNewer(q, cluster'[n])
  <2>1. /\ cluster[n].saved \in Nat /\ cluster'[n].saved \in Nat
        /\ cluster'[n].saved >= cluster[n].saved
    BY <1>1 DEF TypeOK, States
  <2> QED
    BY <1>2, <2>1 DEF NotNewer, SameElection
<1>3. ASSUME NEW q \in net' PROVE RequestOK(q)' /\ AckOK(q)'
  <2>1. CASE q.type \in {"PING", "UPDATE"}
    BY <2>1 DEF RequestOK, AckOK
  <2>2. CASE q \in net
    <3>1. /\ q.from \in Nodes /\ q.currentEpoch \in Nat /\ RequestOK(q) /\ AckOK(q)
          /\ q.type = "ACK" => q.to \in Nodes
      BY <2>2 DEF TypeOK, PacketOK, FromNode, EpochInv
    <3>2. q.type = "REQUEST" => NotNewer(q, cluster'[q.from])
      BY <1>2, <2>2, <3>1 DEF RequestOK
    <3>3. q.type = "ACK" => NotNewer(q, cluster'[q.to])
      BY <1>2, <2>2, <3>1 DEF AckOK
    <3> QED
      BY <3>2, <3>3 DEF RequestOK, AckOK
  <2> QED
    BY <2>1, <2>2
<1> QED
  BY <1>1, <1>3 DEF EpochInv

LEMMA InitEpochs == Init => EpochInv
<1> SUFFICES ASSUME Init PROVE EpochInv
  OBVIOUS
<1>1. TypeOK
  BY InitTypeOK
<1>2. ASSUME NEW n \in Nodes PROVE EpochsOK(cluster[n])
  <2>1. /\ cluster[n].lastVoteEpoch = 0 /\ cluster[n].auth_epoch = 0
        /\ cluster[n].saved = cluster[n].currentEpoch /\ cluster[n].auth_count = 0
    BY DEF Init
  <2>2. cluster[n].saved \in Nat
    BY <1>1 DEF TypeOK, States
  <2> QED
    BY <2>1, <2>2 DEF EpochsOK
<1> QED
  BY <1>2 DEF EpochInv, Init

\* A vote is for the epoch of the request and the first one of its sender in it.
LEMMA VoteEpoch ==
    ASSUME TypeOK, EpochInv, NEW p \in net, NEW n \in Nodes,
           MayVote(n, LearnEpochs(cluster[n], p), p)
    PROVE  LET l == LearnEpochs(cluster[n], p)
           IN  /\ l.currentEpoch = p.currentEpoch /\ p.currentEpoch \in Nat
               /\ cluster[n].lastVoteEpoch < p.currentEpoch
               /\ l.lastVoteEpoch = cluster[n].lastVoteEpoch
<1> DEFINE l == LearnEpochs(cluster[n], p)
<1>1. cluster[n] \in States /\ FromNode(p) /\ EpochsOK(cluster[n])
  BY DEF TypeOK, PacketOK, EpochInv
<1>2. Heard(cluster[n], l) /\ l.currentEpoch >= p.currentEpoch
  BY <1>1, LearnEpochsEffect
<1>3. p.currentEpoch >= l.currentEpoch /\ l.lastVoteEpoch # l.currentEpoch
  BY DEF MayVote
<1> HIDE DEF l
<1>4. /\ l.lastVoteEpoch = cluster[n].lastVoteEpoch /\ l.currentEpoch >= cluster[n].currentEpoch
      /\ l \in States
  BY <1>2 DEF Heard, SameElection
<1>5. /\ p.currentEpoch \in Nat /\ l.currentEpoch \in Nat
      /\ cluster[n].lastVoteEpoch \in Nat /\ cluster[n].currentEpoch \in Nat /\ cluster[n].saved \in Nat
  BY <1>1, <1>4 DEF States, FromNode
<1>6. cluster[n].lastVoteEpoch <= cluster[n].currentEpoch
  BY <1>1, <1>5 DEF EpochsOK
<1> QED
  BY <1>2, <1>3, <1>4, <1>5, <1>6 DEF l

\* A vote is written down with its epoch, which is the one of the request.
LEMMA VoteEpochs ==
    ASSUME TypeOK, EpochInv, NEW p \in net, NEW n \in Nodes, NEW st \in States,
           p.type = "REQUEST", n # p.from,
           Heard(cluster[n], LearnEpochs(cluster[n], p)),
           MayVote(n, LearnEpochs(cluster[n], p), p),
           Votes(LearnEpochs(cluster[n], p), st), Become(n, st),
           net' \subseteq net \cup {VotePacket(LearnEpochs(cluster[n], p), n, p.from)}
    PROVE  EpochInv'
<1> DEFINE l == LearnEpochs(cluster[n], p)
           o == cluster[n]
           b == cluster'[n]
           v == VotePacket(l, n, p.from)
<1>1. /\ cluster' \in [Nodes -> States]
      /\ \A m \in Nodes \ {n} : cluster'[m] = cluster[m]
      /\ SameElection(st, b) /\ b.currentEpoch = st.currentEpoch
      /\ st.lastVoteEpoch # o.lastVoteEpoch => b.saved = st.currentEpoch
  BY BecomeEffect
<1>2. l.currentEpoch = p.currentEpoch /\ o.lastVoteEpoch < p.currentEpoch /\ p.currentEpoch \in Nat
  BY VoteEpoch
<1>3. /\ v.type = "ACK" /\ v.to = p.from /\ v.currentEpoch = l.currentEpoch
  BY DEF VotePacket
<1>4. /\ o \in States /\ EpochsOK(o) /\ RequestOK(p) /\ p.from \in Nodes
  BY DEF TypeOK, EpochInv, PacketOK, FromNode
<1>5. /\ st.lastVoteEpoch = p.currentEpoch /\ st.currentEpoch = p.currentEpoch
      /\ st.auth_sent = o.auth_sent /\ st.auth_epoch = o.auth_epoch /\ st.auth_count = o.auth_count
      /\ p.currentEpoch >= o.currentEpoch
  <2> HIDE DEF l, o
  <2> QED
    BY <1>2 DEF Votes, Heard, SameElection, l, o
<1> HIDE DEF l, v, o, b
<1>6. /\ b.lastVoteEpoch = p.currentEpoch /\ b.saved = p.currentEpoch /\ b.currentEpoch = p.currentEpoch
      /\ b.auth_sent = o.auth_sent /\ b.auth_epoch = o.auth_epoch /\ b.auth_count = o.auth_count
  <2>1. o.lastVoteEpoch \in Nat
    BY <1>4 DEF States
  <2>2. st.lastVoteEpoch # o.lastVoteEpoch
    BY <1>2, <1>5, <2>1
  <2> QED
    BY <1>1, <1>5, <2>2 DEF SameElection
<1>7. /\ o.saved \in Nat /\ o.auth_epoch \in Nat /\ o.currentEpoch \in Nat
  BY <1>4 DEF States
<1>8. EpochsOK(b) /\ o.saved <= b.saved
  BY <1>2, <1>4, <1>5, <1>6, <1>7 DEF EpochsOK
<1>9. \A m \in Nodes : EpochsOK(cluster'[m])
  BY <1>1, <1>8 DEF EpochInv, b
<1>10. ASSUME NEW q, NEW m \in Nodes, NotNewer(q, cluster[m]), q.currentEpoch \in Nat
       PROVE  NotNewer(q, cluster'[m])
  <2>1. CASE m = n
    <3>1. NotNewer(q, o)
      BY <1>10, <2>1 DEF o
    <3>2. b.saved \in Nat
      BY <1>2, <1>6
    <3>3. NotNewer(q, b)
      BY <1>6, <1>7, <1>8, <1>10, <3>1, <3>2 DEF NotNewer
    <3> QED
      BY <2>1, <3>3 DEF b
  <2>2. CASE m # n
    BY <1>1, <1>10, <2>2
  <2> QED
    BY <2>1, <2>2
<1>11. ASSUME NEW q \in net' PROVE RequestOK(q)' /\ AckOK(q)'
  <2>1. CASE q = v
    <3>1. NotNewer(p, cluster'[p.from])
      BY <1>2, <1>4, <1>10 DEF RequestOK
    <3>2. NotNewer(v, cluster'[p.from])
      BY <1>2, <1>3, <3>1 DEF NotNewer
    <3> QED
      BY <1>3, <2>1, <3>2 DEF RequestOK, AckOK
  <2>2. CASE q \in net
    <3>1. /\ RequestOK(q) /\ AckOK(q) /\ q.from \in Nodes /\ q.currentEpoch \in Nat
          /\ q.type = "ACK" => q.to \in Nodes
      BY <2>2 DEF EpochInv, TypeOK, PacketOK, FromNode
    <3>2. q.type = "REQUEST" => NotNewer(q, cluster'[q.from])
      BY <1>10, <3>1 DEF RequestOK
    <3>3. q.type = "ACK" => NotNewer(q, cluster'[q.to])
      BY <1>10, <3>1 DEF AckOK
    <3> QED
      BY <3>2, <3>3 DEF RequestOK, AckOK
  <2> QED
    BY <2>1, <2>2, <1>11 DEF v, l
<1> QED
  BY <1>9, <1>11 DEF EpochInv

\* An election goes on, is planned anew, begins or is won.
LEMMA ElectsEpochs ==
    ASSUME TypeOK, EpochInv, NEW n \in Nodes, NEW c \in States, NEW st \in States,
           Elects(n, c, st), Become(n, st),
           c.lastVoteEpoch = cluster[n].lastVoteEpoch, c.auth_epoch = cluster[n].auth_epoch,
           c.auth_sent = cluster[n].auth_sent, c.saved = cluster[n].saved,
           c.currentEpoch >= cluster[n].currentEpoch,
           \A q \in net' : q \in net \/ Requested(n, c, st, q)
    PROVE  EpochInv'
<1> DEFINE o == cluster[n]
           b == cluster'[n]
<1>1. /\ cluster' \in [Nodes -> States]
      /\ \A m \in Nodes \ {n} : cluster'[m] = cluster[m]
      /\ SameElection(st, b) /\ b.currentEpoch = st.currentEpoch
      /\ b.saved \in {st.saved, st.currentEpoch}
      /\ st.auth_epoch # o.auth_epoch => b.saved = st.currentEpoch
  BY BecomeEffect
<1>2. /\ o.saved \in Nat /\ o.auth_epoch \in Nat /\ o.lastVoteEpoch \in Nat /\ o.currentEpoch \in Nat
      /\ c.currentEpoch \in Nat /\ st.currentEpoch \in Nat /\ b.saved \in Nat
      /\ b.auth_epoch \in Nat /\ b.lastVoteEpoch \in Nat /\ b.currentEpoch \in Nat
  BY <1>1 DEF TypeOK, States
<1>3. EpochsOK(o)
  BY DEF EpochInv
<1> HIDE DEF o, b
<1>4. \/ /\ st.auth_epoch = o.auth_epoch /\ st.currentEpoch = c.currentEpoch
         /\ st.auth_sent => o.auth_sent
      \/ /\ ~o.auth_sent /\ st.auth_sent /\ st.currentEpoch = c.currentEpoch + 1
         /\ st.auth_epoch = st.currentEpoch
  BY DEF Elects, Retries, Starts, Replaces, SameElection, o
<1>5. st.lastVoteEpoch = o.lastVoteEpoch /\ st.saved = o.saved
  BY DEF Elects, Retries, Starts, Replaces, SameElection, o
<1>6. EpochsOK(b) /\ b.saved >= o.saved
  BY <1>1, <1>2, <1>3, <1>4, <1>5 DEF EpochsOK, SameElection, o
<1>7. ASSUME NEW q, NEW m \in Nodes, NotNewer(q, cluster[m]), q.currentEpoch \in Nat
      PROVE  NotNewer(q, cluster'[m])
  <2>1. CASE m = n
    <3>1. q.currentEpoch <= o.saved /\ (o.auth_sent => q.currentEpoch <= o.auth_epoch)
      BY <1>7, <2>1 DEF NotNewer, o
    <3>2. q.currentEpoch <= b.saved /\ (b.auth_sent => q.currentEpoch <= b.auth_epoch)
      BY <1>1, <1>2, <1>3, <1>4, <1>6, <1>7, <3>1 DEF EpochsOK, SameElection, o
    <3> QED
      BY <2>1, <3>2 DEF NotNewer, b
  <2>2. CASE m # n
    BY <1>1, <1>7, <2>2
  <2> QED
    BY <2>1, <2>2
<1>8. ASSUME NEW q \in net' PROVE RequestOK(q)' /\ AckOK(q)'
  <2>1. CASE Requested(n, c, st, q)
    <3>1. /\ q.from = n /\ q.type = "REQUEST" /\ q.currentEpoch = st.currentEpoch
          /\ st.auth_epoch = st.currentEpoch /\ st.currentEpoch = c.currentEpoch + 1
      BY <1>4, <2>1 DEF Requested, Announces, o
    <3>2. st.auth_epoch # o.auth_epoch
      BY <1>2, <1>3, <3>1 DEF EpochsOK, o
    <3>3. b.saved = q.currentEpoch /\ b.auth_epoch = q.currentEpoch /\ q.currentEpoch \in Nat
      BY <1>1, <1>2, <3>1, <3>2 DEF SameElection
    <3>4. NotNewer(q, b)
      BY <3>3 DEF NotNewer
    <3> QED
      BY <3>1, <3>4 DEF RequestOK, AckOK, b
  <2>2. CASE q \in net
    <3>1. /\ RequestOK(q) /\ AckOK(q) /\ q.from \in Nodes /\ q.currentEpoch \in Nat
          /\ q.type = "ACK" => q.to \in Nodes
      BY <2>2 DEF EpochInv, TypeOK, PacketOK, FromNode
    <3>2. q.type = "REQUEST" => NotNewer(q, cluster'[q.from])
      BY <1>7, <3>1 DEF RequestOK
    <3>3. q.type = "ACK" => NotNewer(q, cluster'[q.to])
      BY <1>7, <3>1 DEF AckOK
    <3> QED
      BY <3>2, <3>3 DEF RequestOK, AckOK
  <2> QED
    BY <2>1, <2>2
<1>9. \A m \in Nodes : EpochsOK(cluster'[m])
  BY <1>1, <1>6 DEF EpochInv, b
<1> QED
  BY <1>8, <1>9 DEF EpochInv

\* A step that leaves every election alone: all but restarts, votes and the
\* election timer.
QuietStep ==
    /\ cluster' \in [Nodes -> States]
    /\ \A n \in Nodes : /\ SameElection(cluster[n], cluster'[n])
                        /\ cluster'[n].currentEpoch >= cluster[n].currentEpoch
                        /\ cluster'[n].saved \in {cluster[n].saved, cluster'[n].currentEpoch}
    /\ \A q \in net' : q \in net \/ q.type \in {"PING", "UPDATE"}
    /\ winners' = winners /\ carried' = carried

LEMMA HeardIsQuiet ==
    ASSUME TypeOK, NEW m \in Nodes, NEW st \in States, Become(m, st), Heard(cluster[m], st),
           \A q \in net' : q \in net \/ q.type \in {"PING", "UPDATE"},
           winners' = winners, carried' = carried
    PROVE  QuietStep
<1>1. /\ cluster' \in [Nodes -> States]
      /\ \A n \in Nodes \ {m} : cluster'[n] = cluster[n]
      /\ SameElection(st, cluster'[m]) /\ cluster'[m].currentEpoch = st.currentEpoch
      /\ cluster'[m].saved \in {st.saved, st.currentEpoch}
  BY BecomeEffect
<1>2. \A n \in Nodes : cluster[n].currentEpoch \in Nat
  BY DEF TypeOK, States
<1>3. \A n \in Nodes : /\ SameElection(cluster[n], cluster'[n])
                       /\ cluster'[n].currentEpoch >= cluster[n].currentEpoch
                       /\ cluster'[n].saved \in {cluster[n].saved, cluster'[n].currentEpoch}
  BY <1>1, <1>2 DEF Heard, SameElection
<1> QED
  BY <1>1, <1>3 DEF QuietStep

\* The kinds of steps.
LEMMA Kinds ==
    ASSUME TypeOK, [Next]_vars
    PROVE  \/ QuietStep
           \/ \E n \in Nodes : Restart(n)
           \/ \E p \in net, n \in Nodes : ReceiveRequest(p, n)
           \/ \E p \in net, clock \in {"retry", "wait", "go"} : ReceiveAck(p, clock)
           \/ \E n \in Nodes, clock \in {"retry", "go"} : Cron(n, clock)
<1>0. \A n \in Nodes : cluster[n] \in States /\ cluster[n].currentEpoch \in Nat
  BY DEF TypeOK, States
<1>1. CASE UNCHANGED vars
  BY <1>0, <1>1 DEF TypeOK, vars, QuietStep, SameElection
<1>2. ASSUME NEW p, NEW longAgo, HeartbeatOK(p), HeartbeatStep(p, longAgo) PROVE QuietStep
  <2>1. PICK u \in States, st \in States :
          /\ p.to \in Nodes /\ Heard(cluster[p.to], st) /\ Become(p.to, st)
          /\ net' \subseteq net \cup Corrections(p.to, u, p)
          /\ winners' = winners /\ carried' = carried
    BY <1>2, HeartbeatEffect
  <2>2. \A q \in Corrections(p.to, u, p) : q.type = "UPDATE"
    BY <1>2, <2>1, CorrectionsEffect
  <2>3. \A q \in net' : q \in net \/ q.type \in {"PING", "UPDATE"}
    BY <2>1, <2>2
  <2> QED
    BY <2>1, <2>3, HeardIsQuiet
<1>3. ASSUME NEW n \in Up, NEW m \in Up \ {n}, SlowPing(n, m) PROVE QuietStep
  <2>1. n \in Nodes
    BY DEF Up
  <2> DEFINE p == clusterBuildMessageHdr(n, "PING", m)
  <2>2. p.type = "PING"
    BY <2>1, HeaderEffect
  <2>3. net' = net \cup {p} /\ UNCHANGED <<cluster, winners, carried>>
    BY <1>3 DEF SlowPing
  <2> HIDE DEF p
  <2> QED
    BY <1>0, <2>2, <2>3 DEF QuietStep, SameElection, TypeOK
<1>4. ASSUME NEW p \in net, ReceiveUpdate(p) PROVE QuietStep
  <2>1. PICK st \in States : /\ UpdateOK(p) /\ Heard(cluster[p.to], st) /\ Become(p.to, st)
                             /\ net' = net \ {p}
    BY <1>4, UpdateStep
  <2>2. p.to \in Nodes /\ winners' = winners /\ carried' = carried
    BY <1>4, <2>1 DEF UpdateOK, ReceiveUpdate
  <2> QED
    BY <2>1, <2>2, HeardIsQuiet
<1>5. ASSUME NEW m \in Suspects, MarkFailed(m) PROVE QuietStep
  <2>0. m \in Nodes
    BY ClusterAssumption
  <2>1. /\ cluster' \in [Nodes -> States]
        /\ \A n \in Nodes : /\ cluster'[n].currentEpoch = cluster[n].currentEpoch
                            /\ cluster'[n].saved \in {cluster[n].saved, cluster[n].currentEpoch}
                            /\ SameElection(cluster[n], cluster'[n])
    BY <1>5, <2>0, MarkFailedEffect
  <2>2. net' = net /\ winners' = winners /\ carried' = carried
    BY <1>5 DEF MarkFailed
  <2> QED
    BY <1>0, <2>1, <2>2 DEF QuietStep
<1>6. ASSUME NEW n \in Up, NEW m \in Up \ {n}, Ping(n, m) PROVE QuietStep
  BY <1>2, <1>6, PingIsHeartbeat
<1>7. ASSUME NEW p \in net, ReceivePing(p) PROVE QuietStep
  BY <1>2, <1>7, ReceivePingIsHeartbeat
<1>8. Up \subseteq Nodes
  BY DEF Up
<1> QED
  BY <1>1, <1>3, <1>4, <1>5, <1>6, <1>7, <1>8 DEF Next

LEMMA NextEpochs == TypeOK /\ EpochInv /\ [Next]_vars => EpochInv'
<1> SUFFICES ASSUME TypeOK, EpochInv, [Next]_vars PROVE EpochInv'
  OBVIOUS
<1>1. CASE QuietStep
  BY <1>1, QuietEpochs DEF QuietStep
<1>2. ASSUME NEW n \in Nodes, Restart(n) PROVE EpochInv'
  <2>1. /\ cluster' \in [Nodes -> States]
        /\ \A m \in Nodes \ {n} : cluster'[m] = cluster[m]
        /\ Restarts(cluster[n], cluster'[n]) /\ net' \subseteq net
    BY <1>2, RestartStep
  <2>3. /\ cluster'[n].saved = cluster[n].saved /\ cluster'[n].lastVoteEpoch = cluster[n].lastVoteEpoch
        /\ cluster'[n].currentEpoch >= cluster[n].saved
        /\ cluster'[n].auth_count = 0 /\ ~cluster'[n].auth_sent /\ cluster'[n].auth_epoch = 0
        /\ cluster[n].saved \in Nat
    BY <2>1 DEF Restarts, TypeOK, States
  <2>4. EpochsOK(cluster'[n])
    BY <2>3 DEF EpochInv, EpochsOK
  <2>5. \A m \in Nodes : EpochsOK(cluster'[m])
    BY <2>1, <2>4 DEF EpochInv
  <2>6. ASSUME NEW q \in net' PROVE RequestOK(q)' /\ AckOK(q)'
    <3>1. RequestOK(q) /\ AckOK(q) /\ q.from \in Nodes /\ (q.type = "ACK" => q.to \in Nodes)
      BY <2>1 DEF EpochInv, TypeOK, PacketOK, FromNode
    <3>2. AckOK(q)'
      BY <2>1, <2>3, <3>1 DEF AckOK, NotNewer
    <3>3. RequestOK(q)'
      BY <2>1, <2>3, <3>1 DEF RequestOK, NotNewer
    <3> QED
      BY <3>2, <3>3
  <2> QED
    BY <2>5, <2>6 DEF EpochInv
<1>3. ASSUME NEW p \in net, NEW n \in Nodes, ReceiveRequest(p, n) PROVE EpochInv'
  <2> DEFINE l == LearnEpochs(cluster[n], p)
  <2>1. Heard(cluster[n], l)
    BY <1>3, VoteStep
  <2>2. PICK st \in States :
          /\ Become(n, st)
          /\ \/ st = l /\ net' \subseteq net
             \/ /\ MayVote(n, l, p) /\ Votes(l, st)
                /\ net' \subseteq net \cup {VotePacket(l, n, p.from)}
    BY <1>3, VoteStep
  <2>4. p.type = "REQUEST" /\ n # p.from
    BY <1>3 DEF ReceiveRequest
  <2>5. CASE st = l /\ net' \subseteq net
    <3>1. winners' = winners /\ carried' = carried
      BY <1>3 DEF ReceiveRequest
    <3>2. QuietStep
      BY <2>1, <2>2, <2>5, <3>1, HeardIsQuiet
    <3> QED
      BY <3>2, QuietEpochs DEF QuietStep
  <2>6. CASE /\ MayVote(n, l, p) /\ Votes(l, st)
             /\ net' \subseteq net \cup {VotePacket(l, n, p.from)}
    BY <2>1, <2>2, <2>4, <2>6, VoteEpochs
  <2> QED
    BY <2>2, <2>5, <2>6
<1>4. ASSUME NEW p \in net, NEW clock, ReceiveAck(p, clock) PROVE EpochInv'
  <2>1. p.type = "ACK"
    BY <1>4 DEF ReceiveAck
  <2>2. /\ p.to \in Nodes /\ Counted(p) \in States
        /\ Counted(p).saved = cluster[p.to].saved
        /\ Counted(p).lastVoteEpoch = cluster[p.to].lastVoteEpoch
        /\ Counted(p).auth_sent = cluster[p.to].auth_sent
        /\ Counted(p).auth_epoch = cluster[p.to].auth_epoch
        /\ Counted(p).currentEpoch >= cluster[p.to].currentEpoch
    BY <2>1, CountedEffect
  <2>3. PICK st \in States : /\ Elects(p.to, Counted(p), st) /\ Become(p.to, st)
                             /\ \A q \in net' : q \in net \/ Requested(p.to, Counted(p), st, q)
    BY <1>4, AckStep
  <2> QED
    BY <2>2, <2>3, ElectsEpochs
<1>5. ASSUME NEW n \in Nodes, NEW clock, Cron(n, clock) PROVE EpochInv'
  <2>1. PICK st \in States : /\ Elects(n, cluster[n], st) /\ Become(n, st)
                             /\ \A q \in net' : q \in net \/ Requested(n, cluster[n], st, q)
    BY <1>5, CronStep
  <2>2. cluster[n] \in States /\ cluster[n].currentEpoch >= cluster[n].currentEpoch
    BY DEF TypeOK, States
  <2> QED
    BY <2>1, <2>2, ElectsEpochs
<1> QED
  BY <1>1, <1>2, <1>3, <1>4, <1>5, Kinds
-----------------------------------------------------------------------------
(***************************************************************************)
(* The ballots.  V is the set of the votes <<voter, epoch, candidate>>     *)
(* given so far, C the elections that began with late votes.  A voter      *)
(* gives one vote per epoch, a vote is counted once, and an election       *)
(* outside C is won with the votes of most Voters.                         *)
(***************************************************************************)
Support(V, C, n, st, packets) ==
    st.auth_sent /\ st.slaveof[n] = Dead /\ <<st.auth_epoch, n>> \notin C =>
      \E B \in SUBSET Voters :
        /\ Cardinality(B) = st.auth_count
        /\ \A v \in B : <<v, st.auth_epoch, n>> \in V
        /\ \A p \in packets : ~ /\ p.type = "ACK" /\ p.from \in B /\ p.to = n
                                /\ p.currentEpoch = st.auth_epoch

Elected(V, e, n) ==
    \E B \in SUBSET Voters : /\ 2 * Cardinality(B) > Cardinality(Voters)
                             /\ \A v \in B : <<v, e, n>> \in V

Ballots(V) ==
    /\ \A v, e, n, m : <<v, e, n>> \in V /\ <<v, e, m>> \in V => n = m
    /\ \A v, e, n : <<v, e, n>> \in V => v \in Nodes /\ e \in Nat /\ e <= cluster[v].lastVoteEpoch
    /\ \A p \in net : p.type = "ACK" => <<p.from, p.currentEpoch, p.to>> \in V
    /\ \A p, q \in net : /\ p.type = "ACK" /\ q.type = "ACK" /\ p.from = q.from
                          /\ p.to = q.to /\ p.currentEpoch = q.currentEpoch
                          => p = q
    /\ \A n \in Nodes : Support(V, carried, n, cluster[n], net)
    /\ \A w \in winners \ carried : Elected(V, w[1], w[2])

BallotInv == \E V : Ballots(V)

LEMMA VotersFinite == IsFiniteSet(Voters) /\ Cardinality(Voters) \in Nat
<1>1. Voters \subseteq Nodes /\ IsFiniteSet(Nodes)
  BY ClusterAssumption DEF Voters
<1> QED
  BY <1>1, FS_Subset, FS_CardinalityType

\* Two majorities have a voter in common.
LEMMA MajoritiesMeet ==
    ASSUME NEW A \in SUBSET Voters, NEW B \in SUBSET Voters,
           2 * Cardinality(A) > Cardinality(Voters), 2 * Cardinality(B) > Cardinality(Voters)
    PROVE  A \cap B # {}
<1> SUFFICES ASSUME A \cap B = {} PROVE FALSE
  OBVIOUS
<1>1. IsFiniteSet(A) /\ IsFiniteSet(B) /\ A \cup B \subseteq Voters
  BY VotersFinite, FS_Subset
<1>2. /\ Cardinality(A) \in Nat /\ Cardinality(B) \in Nat /\ Cardinality(Voters) \in Nat
      /\ Cardinality(A \cup B) \in Nat
  BY <1>1, VotersFinite, FS_CardinalityType, FS_Subset
<1>3. Cardinality(A \cup B) = Cardinality(A) + Cardinality(B) - Cardinality(A \cap B)
  BY <1>1, FS_Union
<1>4. Cardinality(A \cap B) = 0
  BY FS_EmptySet
<1>5. Cardinality(A \cup B) <= Cardinality(Voters)
  BY <1>1, VotersFinite, FS_Subset
<1> QED
  BY <1>2, <1>3, <1>4, <1>5

\* In a view of a replica of the crashed master the voters are all there is.
LEMMA QuorumIsMajority ==
    ASSUME OneSuspect, NEW n \in Nodes, NEW st \in States, ViewOK(n, st)
    PROVE  Size(st) \in Nat /\ Size(st) >= Cardinality(Voters)
<1> DEFINE M == {m \in Nodes : IsMaster(st, m) /\ SlotsOf(st, m) # {}}
<1>1. Voters \subseteq M
  BY DEF Voters, ViewOK, IsMaster, SlotsOf, Lost
<1>2. M \subseteq Nodes /\ IsFiniteSet(Nodes)
  BY ClusterAssumption
<1>3. IsFiniteSet(M) /\ Cardinality(M) \in Nat
  BY <1>2, FS_Subset, FS_CardinalityType
<1>4. Cardinality(Voters) <= Cardinality(M)
  BY <1>1, <1>3, FS_Subset
<1> QED
  BY <1>3, <1>4, VotersFinite DEF Size

\* A step without a new vote.
LEMMA KeepBallots ==
    ASSUME TypeOK, NEW V, Ballots(V), cluster' \in [Nodes -> States],
           \A n \in Nodes : /\ cluster'[n].lastVoteEpoch = cluster[n].lastVoteEpoch
                            /\ Support(V, carried', n, cluster'[n], net'),
           \A q \in net' : q.type = "ACK" => q \in net, carried \subseteq carried',
           \A w \in winners' \ carried' : w \in winners \/ Elected(V, w[1], w[2])
    PROVE  BallotInv'
<1>1. Ballots(V)'
  BY DEF Ballots
<1> QED
  BY <1>1 DEF BallotInv

\* Support lasts while the election does.
LEMMA SupportKept ==
    ASSUME NEW V, NEW C, NEW D, C \subseteq D, NEW n, NEW a, NEW b, NEW P, NEW Q,
           Support(V, C, n, a, P), b.slaveof[n] = Dead => a.slaveof[n] = Dead,
           b.auth_sent => /\ a.auth_sent /\ b.auth_count = a.auth_count
                          /\ b.auth_epoch = a.auth_epoch,
           \A q \in Q : q.type = "ACK" => q \in P
    PROVE  Support(V, D, n, b, Q)
BY DEF Support

LEMMA SupportNone ==
    ASSUME NEW V, NEW C, NEW n, NEW b, NEW Q, b.auth_count = 0
    PROVE  Support(V, C, n, b, Q)
<1>1. {} \in SUBSET Voters /\ Cardinality({}) = 0
  BY FS_EmptySet
<1> QED
  BY <1>1 DEF Support

\* The election of node n goes on from c, where a vote may have been counted, to st.
LEMMA ElectsBallots ==
    ASSUME OneSuspect, TypeOK, ViewInv, EpochInv, NEW V, Ballots(V), NEW n \in Nodes,
           NEW c \in States, NEW st \in States, ViewOK(n, c), Support(V, carried, n, c, net'),
           c.lastVoteEpoch = cluster[n].lastVoteEpoch,
           Elects(n, c, st), Become(n, st), Record(n, c, st), Carry(n, c, st),
           \A q \in net' : q.type = "ACK" => q \in net
    PROVE  BallotInv'
<1> DEFINE b == cluster'[n]
<1>1. /\ cluster' \in [Nodes -> States]
      /\ \A m \in Nodes \ {n} : cluster'[m] = cluster[m]
      /\ SameView(st, b) /\ SameElection(st, b)
  BY BecomeEffect
<1> HIDE DEF b
<1>0. carried \subseteq carried'
  BY DEF Carry
<1>2. Support(V, carried', n, st, net')
  <2>1. CASE st.auth_count = 0
    BY <2>1, SupportNone
  <2>2. CASE st = c
    BY <1>0, <2>2, SupportKept
  <2>3. CASE Replaces(n, c, st)
    BY <2>3, DeadFacts DEF Replaces, Support
  <2>4. CASE Starts(c, st)
    <3>1. st.auth_count = c.auth_count /\ Announces(c, st)
      BY <2>4 DEF Starts, Announces
    <3>2. c.auth_count = 0 \/ <<st.auth_epoch, n>> \in carried'
      BY <3>1 DEF Carry
    <3> QED
      BY <2>1, <3>1, <3>2 DEF Support
  <2> QED
    BY <2>1, <2>2, <2>3, <2>4 DEF Elects, Retries
<1>3. Support(V, carried', n, b, net')
  BY <1>1, <1>2 DEF Support, SameView, SameElection
<1>4. st.lastVoteEpoch = c.lastVoteEpoch
  BY DEF Elects, Retries, Starts, Replaces, SameElection
<1>5. \A m \in Nodes : /\ cluster'[m].lastVoteEpoch = cluster[m].lastVoteEpoch
                       /\ Support(V, carried', m, cluster'[m], net')
  <2>1. ASSUME NEW m \in Nodes \ {n} PROVE Support(V, carried', m, cluster'[m], net')
    BY <1>0, <1>1, SupportKept DEF Ballots
  <2>2. b.lastVoteEpoch = cluster[n].lastVoteEpoch
    BY <1>1, <1>4 DEF SameElection
  <2> QED
    BY <1>1, <1>3, <2>1, <2>2 DEF b
<1>6. ASSUME NEW w \in winners' \ carried', w \notin winners PROVE Elected(V, w[1], w[2])
  <2>1. /\ IsMaster(st, n) /\ ~IsMaster(c, n) /\ w = <<st.auth_epoch, n>>
    BY <1>6 DEF Record
  <2>2. FailoverNeeded(n, c) /\ Replaces(n, c, st)
    BY <2>1 DEF Elects, Retries, Starts, SameView, IsMaster
  <2>3. c.slaveof[n] = Dead
    BY <2>2, Candidate
  <2>4. Wins(n, c) /\ st.auth_epoch = c.auth_epoch
    BY <2>2 DEF Replaces, SameElection
  <2>5. PICK B \in SUBSET Voters : /\ Cardinality(B) = c.auth_count
                                   /\ \A v \in B : <<v, c.auth_epoch, n>> \in V
    BY <1>0, <1>6, <2>1, <2>3, <2>4 DEF Support, Wins
  <2>6. Size(c) \in Nat /\ Size(c) >= Cardinality(Voters) /\ c.auth_count \in Nat
    BY QuorumIsMajority DEF States
  <2>7. c.auth_count >= Size(c) \div 2 + 1
    BY <2>4 DEF Wins, NeededQuorum
  <2>8. 2 * Cardinality(B) > Cardinality(Voters)
    BY <2>5, <2>6, <2>7, VotersFinite
  <2>9. Elected(V, c.auth_epoch, n)
    BY <2>5, <2>8 DEF Elected
  <2> QED
    BY <2>1, <2>4, <2>9
<1> QED
  BY <1>0, <1>1, <1>5, <1>6, KeepBallots

\* A vote that is counted is one of a voter, and of this election if it is on.
LEMMA CountedSupport ==
    ASSUME OneSuspect, TypeOK, ViewInv, EpochInv, NEW V, Ballots(V),
           NEW p \in net, p.type = "ACK"
    PROVE  /\ Support(V, carried, p.to, Counted(p), net \ {p})
           /\ ViewOK(p.to, Counted(p))
<1> DEFINE n == p.to
           o == cluster[n]
           c == Counted(p)
<1>1. /\ o \in States /\ c \in States /\ n \in Nodes /\ FromNode(p)
      /\ c.slaveof = o.slaveof /\ c.slots = o.slots /\ c.fail = o.fail
      /\ c.auth_sent = o.auth_sent /\ c.auth_epoch = o.auth_epoch
      /\ \A m \in Nodes \ {p.from} : c.configEpoch[m] = o.configEpoch[m]
      /\ c.auth_count = IF /\ IsMaster(o, p.from) /\ SlotsOf(o, p.from) # {}
                           /\ p.currentEpoch >= o.auth_epoch
                        THEN o.auth_count + 1 ELSE o.auth_count
  BY CountedEffect
<1>2. /\ ViewOK(n, o) /\ p.from # Dead /\ AckOK(p) /\ Support(V, carried, n, o, net)
      /\ <<p.from, p.currentEpoch, n>> \in V /\ p.from \in Nodes /\ p.currentEpoch \in Nat
      /\ o.auth_epoch \in Nat
  BY <1>1 DEF ViewInv, PacketView, EpochInv, Ballots, FromNode, States
<1> HIDE DEF o, c, n
<1>3. ViewOK(n, c)
  BY <1>1, <1>2, DeadFacts DEF ViewOK
<1> SUFFICES Support(V, carried, n, c, net \ {p})
  BY <1>3 DEF c, n
<1>4. CASE c.auth_count = o.auth_count
  BY <1>1, <1>2, <1>4, SupportKept
<1>5. CASE /\ IsMaster(o, p.from) /\ SlotsOf(o, p.from) # {}
           /\ p.currentEpoch >= o.auth_epoch
  <2> SUFFICES ASSUME c.auth_sent, c.slaveof[n] = Dead, <<c.auth_epoch, n>> \notin carried
               PROVE  Support(V, carried, n, c, net \ {p})
    BY DEF Support
  <2>1. PICK B \in SUBSET Voters :
          /\ Cardinality(B) = o.auth_count
          /\ \A v \in B : <<v, o.auth_epoch, n>> \in V
          /\ \A q \in net : ~ /\ q.type = "ACK" /\ q.from \in B /\ q.to = n
                              /\ q.currentEpoch = o.auth_epoch
    BY <1>1, <1>2 DEF Support
  <2>2. p.currentEpoch = o.auth_epoch
    BY <1>1, <1>2, <1>5 DEF AckOK, NotNewer, o, n
  <2>3. p.from \in Voters
    <3>1. PICK s \in Slots : o.slots[s] = p.from
      BY <1>5 DEF SlotsOf
    <3>2. s \notin Lost
      BY <1>1, <1>2, <3>1 DEF ViewOK
    <3>3. InitOwner[s] = p.from
      BY <1>2, <3>1, <3>2 DEF ViewOK
    <3> QED
      BY <1>2, <3>3 DEF Voters
  <2>4. p.from \notin B
    BY <2>1, <2>2 DEF n
  <2>5. Cardinality(B \cup {p.from}) = c.auth_count
    <3>1. IsFiniteSet(B)
      BY VotersFinite, FS_Subset
    <3>2. Cardinality(B \cup {p.from}) = Cardinality(B) + 1
      BY <2>4, <3>1, FS_AddElement
    <3> QED
      BY <1>1, <1>5, <2>1, <3>2
  <2>6. \A v \in B \cup {p.from} : <<v, c.auth_epoch, n>> \in V
    BY <1>1, <1>2, <2>1, <2>2
  <2>7. \A q \in net \ {p} : ~ /\ q.type = "ACK" /\ q.from \in B \cup {p.from} /\ q.to = n
                               /\ q.currentEpoch = c.auth_epoch
    BY <1>1, <2>1, <2>2 DEF Ballots, n
  <2> QED
    BY <2>3, <2>5, <2>6, <2>7 DEF Support
<1> QED
  BY <1>1, <1>4, <1>5

\* A vote is the only one of its voter in its epoch.
LEMMA VoteBallots ==
    ASSUME OneSuspect, TypeOK, EpochInv, NEW V, Ballots(V),
           NEW p \in net, NEW n \in Nodes, NEW st \in States,
           Heard(cluster[n], LearnEpochs(cluster[n], p)),
           LearnEpochs(cluster[n], p).slaveof = cluster[n].slaveof,
           MayVote(n, LearnEpochs(cluster[n], p), p),
           Votes(LearnEpochs(cluster[n], p), st), Become(n, st),
           net' \subseteq net \cup {VotePacket(LearnEpochs(cluster[n], p), n, p.from)},
           winners' = winners, carried' = carried
    PROVE  BallotInv'
<1> DEFINE l == LearnEpochs(cluster[n], p)
           o == cluster[n]
           b == cluster'[n]
           v == VotePacket(l, n, p.from)
           e == p.currentEpoch
           W == V \cup {<<n, e, p.from>>}
<1>1. /\ cluster' \in [Nodes -> States]
      /\ \A m \in Nodes \ {n} : cluster'[m] = cluster[m]
      /\ SameView(st, b) /\ SameElection(st, b)
  BY BecomeEffect
<1>2. l.currentEpoch = e /\ o.lastVoteEpoch < e /\ e \in Nat /\ o.lastVoteEpoch \in Nat
  BY VoteEpoch DEF TypeOK, States
<1>3. v.type = "ACK" /\ v.from = n /\ v.to = p.from /\ v.currentEpoch = e
  BY <1>2 DEF VotePacket
<1>4. /\ b.lastVoteEpoch = e /\ b.auth_sent = o.auth_sent /\ b.auth_epoch = o.auth_epoch
      /\ b.auth_count = o.auth_count /\ b.slaveof = o.slaveof
  <2> HIDE DEF l, o, b, e
  <2> QED
    BY <1>1, <1>2 DEF Votes, Heard, SameElection, SameView, l, o
<1>5. net' \subseteq net \cup {v}
  OBVIOUS
<1> HIDE DEF l, v, o, b, e
<1>6. \A m, d : <<n, d, m>> \in V => d # e
  BY <1>2 DEF Ballots, o
<1>7. \A x, d, m, k : <<x, d, m>> \in W /\ <<x, d, k>> \in W => m = k
  BY <1>6 DEF Ballots
<1>8. ASSUME NEW x, NEW d, NEW m, <<x, d, m>> \in W
      PROVE  x \in Nodes /\ d \in Nat /\ d <= cluster'[x].lastVoteEpoch
  <2>1. CASE <<x, d, m>> \in V
    <3>1. x \in Nodes /\ d \in Nat /\ d <= cluster[x].lastVoteEpoch
      BY <2>1 DEF Ballots
    <3>2. CASE x = n
      BY <1>2, <1>4, <3>1, <3>2 DEF o, b
    <3>3. CASE x # n
      BY <1>1, <3>1, <3>3
    <3> QED
      BY <3>2, <3>3
  <2>2. CASE x = n /\ d = e
    BY <1>2, <1>4, <2>2 DEF b
  <2> QED
    BY <1>8, <2>1, <2>2
<1>9. \A q \in net' : q.type = "ACK" => <<q.from, q.currentEpoch, q.to>> \in W
  BY <1>3, <1>5 DEF Ballots
<1>10. ASSUME NEW q \in net', NEW r \in net', q.type = "ACK", r.type = "ACK",
              q.from = r.from, q.to = r.to, q.currentEpoch = r.currentEpoch
       PROVE  q = r
  <2>1. \A k \in net : k.type = "ACK" => ~(k.from = n /\ k.currentEpoch = e)
    BY <1>6 DEF Ballots
  <2> QED
    BY <1>3, <1>5, <1>10, <2>1 DEF Ballots
<1>11. ASSUME NEW m \in Nodes PROVE Support(W, carried', m, cluster'[m], net')
  <2> DEFINE a == cluster[m]
             z == cluster'[m]
  <2>1. /\ z.auth_sent = a.auth_sent /\ z.auth_epoch = a.auth_epoch
        /\ z.auth_count = a.auth_count /\ z.slaveof = a.slaveof
    BY <1>1, <1>4 DEF o, b
  <2>2. Support(V, carried, m, a, net)
    BY DEF Ballots
  <2> HIDE DEF a, z
  <2> SUFFICES ASSUME z.auth_sent, z.slaveof[m] = Dead, <<z.auth_epoch, m>> \notin carried
               PROVE  Support(W, carried', m, z, net')
    BY DEF Support, z
  <2>3. PICK B \in SUBSET Voters :
          /\ Cardinality(B) = a.auth_count
          /\ \A x \in B : <<x, a.auth_epoch, m>> \in V
          /\ \A q \in net : ~ /\ q.type = "ACK" /\ q.from \in B /\ q.to = m
                              /\ q.currentEpoch = a.auth_epoch
    BY <2>1, <2>2 DEF Support
  <2>4. \A q \in net' : ~ /\ q.type = "ACK" /\ q.from \in B /\ q.to = m
                          /\ q.currentEpoch = z.auth_epoch
    BY <1>3, <1>5, <1>6, <2>1, <2>3
  <2> QED
    BY <2>1, <2>3, <2>4 DEF Support
<1>12. \A w \in winners' \ carried' : Elected(W, w[1], w[2])
  BY DEF Ballots, Elected
<1> HIDE DEF W
<1>13. Ballots(W)'
  BY <1>7, <1>8, <1>9, <1>10, <1>11, <1>12 DEF Ballots
<1> QED
  BY <1>13 DEF BallotInv

LEMMA InitBallots == Init => BallotInv
<1> SUFFICES ASSUME Init PROVE Ballots({})
  BY DEF BallotInv
<1>1. \A n \in Nodes : cluster[n].auth_sent = FALSE
  BY DEF Init
<1> QED
  BY <1>1 DEF Ballots, Init, Support

LEMMA NextBallots ==
    /\ OneSuspect /\ TypeOK /\ ViewInv /\ EpochInv /\ BallotInv /\ [Next]_vars
    => BallotInv'
<1> SUFFICES ASSUME OneSuspect, TypeOK, ViewInv, EpochInv, BallotInv, [Next]_vars PROVE BallotInv'
  OBVIOUS
<1>0. PICK V : Ballots(V)
  BY DEF BallotInv
<1>1. \A n \in Nodes : NoReturn(n, cluster[n], cluster'[n])
  BY NextView DEF ViewStep
<1>2. CASE QuietStep
  <2>1. ASSUME NEW n \in Nodes
        PROVE  /\ cluster'[n].lastVoteEpoch = cluster[n].lastVoteEpoch
               /\ Support(V, carried', n, cluster'[n], net')
    <3>1. /\ SameElection(cluster[n], cluster'[n]) /\ Support(V, carried, n, cluster[n], net)
          /\ carried \subseteq carried'
      BY <1>0, <1>2 DEF QuietStep, Ballots
    <3>2. \A q \in net' : q.type = "ACK" => q \in net
      BY <1>2 DEF QuietStep
    <3>3. Support(V, carried', n, cluster'[n], net')
      BY <1>1, <3>1, <3>2, SupportKept DEF NoReturn, SameElection
    <3> QED
      BY <3>1, <3>3 DEF SameElection
  <2> QED
    BY <1>0, <1>2, <2>1, KeepBallots DEF QuietStep
<1>3. ASSUME NEW n \in Nodes, Restart(n) PROVE BallotInv'
  <2>1. /\ cluster' \in [Nodes -> States]
        /\ \A m \in Nodes \ {n} : cluster'[m] = cluster[m]
        /\ Restarts(cluster[n], cluster'[n]) /\ net' \subseteq net /\ winners' = winners
        /\ carried' = carried
    BY <1>3, RestartStep DEF Restart
  <2>2. Support(V, carried', n, cluster'[n], net') /\ cluster'[n].lastVoteEpoch = cluster[n].lastVoteEpoch
    BY <2>1, SupportNone DEF Restarts
  <2>3. ASSUME NEW m \in Nodes \ {n} PROVE Support(V, carried', m, cluster'[m], net')
    BY <1>0, <2>1, SupportKept DEF Ballots
  <2> QED
    BY <1>0, <2>1, <2>2, <2>3, KeepBallots
<1>4. ASSUME NEW p \in net, NEW n \in Nodes, ReceiveRequest(p, n) PROVE BallotInv'
  <2> DEFINE l == LearnEpochs(cluster[n], p)
  <2>1. Heard(cluster[n], l)
    BY <1>4, VoteStep
  <2>2. PICK st \in States :
          /\ Become(n, st)
          /\ \/ st = l /\ net' \subseteq net
             \/ /\ MayVote(n, l, p) /\ Votes(l, st)
                /\ net' \subseteq net \cup {VotePacket(l, n, p.from)}
    BY <1>4, VoteStep
  <2>3. winners' = winners /\ carried' = carried
    BY <1>4 DEF ReceiveRequest
  <2>4. CASE st = l /\ net' \subseteq net
    <3>1. QuietStep
      BY <2>1, <2>2, <2>3, <2>4, HeardIsQuiet
    <3> QED
      BY <1>2, <3>1
  <2>5. CASE /\ MayVote(n, l, p) /\ Votes(l, st)
             /\ net' \subseteq net \cup {VotePacket(l, n, p.from)}
    <3>1. l.slaveof = cluster[n].slaveof
      BY LearnEpochsEffect DEF TypeOK, PacketOK
    <3> QED
      BY <1>0, <2>1, <2>2, <2>3, <2>5, <3>1, VoteBallots
  <2> QED
    BY <2>2, <2>4, <2>5
<1>5. ASSUME NEW p \in net, NEW clock, ReceiveAck(p, clock) PROVE BallotInv'
  <2> DEFINE n == p.to
             c == Counted(p)
  <2>0. p.type = "ACK"
    BY <1>5 DEF ReceiveAck
  <2>1. n \in Nodes /\ c \in States /\ c.lastVoteEpoch = cluster[n].lastVoteEpoch
    BY <2>0, CountedEffect
  <2>2. Support(V, carried, n, c, net \ {p}) /\ ViewOK(n, c)
    BY <1>0, <2>0, CountedSupport
  <2>3. PICK st \in States :
          /\ Elects(n, c, st) /\ Become(n, st) /\ Record(n, c, st) /\ Carry(n, c, st)
          /\ \A q \in net' : q \in net \ {p} \/ Requested(n, c, st, q)
    BY <1>5, AckStep
  <2> HIDE DEF c
  <2>4. \A q \in net' : q.type = "ACK" => q \in net \ {p}
    BY <2>3 DEF Requested
  <2>5. Support(V, carried, n, c, net')
    BY <2>2, <2>4, SupportKept
  <2> QED
    BY <1>0, <2>1, <2>2, <2>3, <2>4, <2>5, ElectsBallots
<1>6. ASSUME NEW n \in Nodes, NEW clock, Cron(n, clock) PROVE BallotInv'
  <2> DEFINE c == cluster[n]
  <2>1. PICK st \in States :
          /\ Elects(n, c, st) /\ Become(n, st) /\ Record(n, c, st) /\ Carry(n, c, st)
          /\ \A q \in net' : q \in net \/ Requested(n, c, st, q)
    BY <1>6, CronStep
  <2>2. c \in States /\ ViewOK(n, c) /\ Support(V, carried, n, c, net)
    BY <1>0 DEF TypeOK, ViewInv, Ballots
  <2>3. \A q \in net' : q.type = "ACK" => q \in net
    BY <2>1 DEF Requested
  <2>4. Support(V, carried, n, c, net')
    BY <2>2, <2>3, SupportKept
  <2> QED
    BY <1>0, <2>1, <2>2, <2>3, <2>4, ElectsBallots
<1> QED
  BY <1>2, <1>3, <1>4, <1>5, <1>6, Kinds

LEMMA BallotsDecide == BallotInv => OneWinnerOfOwnVotes
<1> SUFFICES ASSUME NEW V, Ballots(V), NEW v \in winners \ carried, NEW w \in winners \ carried,
                    v[1] = w[1]
             PROVE  v[2] = w[2]
  BY DEF BallotInv, OneWinnerOfOwnVotes
<1>1. Elected(V, v[1], v[2]) /\ Elected(V, v[1], w[2])
  BY DEF Ballots
<1>2. PICK A \in SUBSET Voters : /\ 2 * Cardinality(A) > Cardinality(Voters)
                                 /\ \A x \in A : <<x, v[1], v[2]>> \in V
  BY <1>1 DEF Elected
<1>3. PICK B \in SUBSET Voters : /\ 2 * Cardinality(B) > Cardinality(Voters)
                                 /\ \A x \in B : <<x, v[1], w[2]>> \in V
  BY <1>1 DEF Elected
<1>4. PICK x : x \in A \cap B
  BY <1>2, <1>3, MajoritiesMeet
<1> QED
  BY <1>2, <1>3, <1>4 DEF Ballots

\* Of the elections that were announced before any vote was counted for them, no two
\* replicas of a crashed master win one in the same epoch, for any number of nodes and
\* slots, whichever packets are lost and whenever nodes restart: a master writes down
\* the epoch of its vote before it sends it and gives one per epoch
\* (clusterSendFailoverAuthIfNeeded()), after the announcement a replica counts votes of
\* its own election only, and it needs those of most masters
\* (clusterHandleSlaveFailover()).  Elections that begin with late votes are left out:
\* for them it is not true of the code (cluster.c:2076-2088, 3053, 3115).
THEOREM OneWinner ==
    ASSUME OneSuspect
    PROVE  Spec /\ Crashed => []OneWinnerOfOwnVotes
<1> DEFINE Inv == TypeOK /\ ViewInv /\ EpochInv /\ BallotInv
<1>1. Init /\ Crashed => Inv
  BY InitTypeOK, InitView, InitEpochs, InitBallots
<1>2. Inv /\ [Next]_vars => Inv'
  BY NextTypeOK, NextView, NextEpochs, NextBallots DEF ViewStep
<1>3. Inv => OneWinnerOfOwnVotes
  BY BallotsDecide
<1> QED
  BY <1>1, <1>2, <1>3, PTL DEF Spec
-----------------------------------------------------------------------------
(***************************************************************************)
(* Agreement.  W is the set of the elections won so far.  The masters had  *)
(* different config epochs at the start (DistinctEpochs); then no two ever *)
(* have the same one as long as no two elections are won in one epoch, and *)
(* who won last keeps the lost slots.                                      *)
(***************************************************************************)
DistinctEpochs ==
    \A n, m \in Nodes : /\ InitSlaveof[n] = None /\ InitSlaveof[m] = None
                        /\ InitEpoch[n] = InitEpoch[m]
                        => n = m

Top == MaxOf({InitEpoch[n] : n \in Nodes})

Won(W, n) == \E w \in W : w[2] = n
Bounded(W, e) == e <= Top \/ \E w \in W : e <= w[1]

\* A node has the config epoch it began with, or the one of its only election.
OwnEpoch(W, n, e) ==
    /\ ~Won(W, n) => e = InitEpoch[n]
    /\ \A w \in W : w[2] = n => w[1] = e

\* Only replicas of the crashed master win, and their epochs are new.
WinnersOK(W) ==
    /\ W \subseteq Nat \X Nodes /\ IsFiniteSet(W)
    /\ W # {} => Lost # {}
    /\ \A w \in W : InitSlaveof[w[2]] = Dead /\ w[1] > Top

EpochsKnown(W, me, st) ==
    /\ OwnEpoch(W, me, st.configEpoch[me])
    /\ \A n \in Nodes : Bounded(W, st.configEpoch[n])
RoleOK(W, me, st) ==
    /\ st.slaveof[me] = None => InitSlaveof[me] = None \/ Won(W, me)
    /\ st.slaveof[me] = Dead => InitSlaveof[me] = Dead /\ ~Won(W, me)
LostOwner(W, st) ==
    \A s \in Lost : /\ st.slots[s] = None => W # {}
                    /\ st.slots[s] # None => /\ st.slots[s] = Dead \/ Won(W, st.slots[s])
                                             /\ st.slaveof[st.slots[s]] = None
\* A winner has the lost slots as long as it is a master, and steps down for a
\* later winner only.
WinnerOK(W, me, st) ==
    Won(W, me) => /\ st.slaveof[me] = None => \A s \in Lost : st.slots[s] = me
                  /\ st.slaveof[me] # None => \E w \in W : w[1] > st.configEpoch[me]

Standing(W, me, st) ==
    EpochsKnown(W, me, st) /\ RoleOK(W, me, st) /\ LostOwner(W, st) /\ WinnerOK(W, me, st)

LEMMA TopFacts ==
    ASSUME OneSuspect
    PROVE  Top \in Nat /\ \A n \in Nodes : InitEpoch[n] \in Nat /\ InitEpoch[n] <= Top
<1> DEFINE T == {InitEpoch[n] : n \in Nodes}
<1>0. Dead \in Nodes /\ InitEpoch \in [Nodes -> Nat]
  BY ClusterAssumption, DeadFacts
<1>1. T \in SUBSET Nat /\ T # {}
  BY <1>0
<1>2. IsFiniteSet(T)
  <2>1. IsFiniteSet(Nodes) /\ InitEpoch \in Surjection(Nodes, T)
    BY ClusterAssumption DEF Surjection
  <2> QED
    BY <2>1, FS_Surjection
<1>3. \A n \in Nodes : InitEpoch[n] \in T
  OBVIOUS
<1>4. Top = MaxOf(T)
  BY DEF Top
<1> HIDE DEF T
<1>5. Top \in T /\ \A y \in T : y <= Top
  BY <1>1, <1>2, <1>4, GreatestNumber
<1> QED
  BY <1>1, <1>3, <1>5

LEMMA WinnerFacts ==
    ASSUME OneSuspect, NEW W, WinnersOK(W), NEW n \in Nodes, Won(W, n)
    PROVE  /\ InitSlaveof[n] = Dead /\ n # Dead
           /\ \A s \in Slots : InitOwner[s] # n
           /\ \A e : OwnEpoch(W, n, e) => e \in Nat /\ e > Top /\ <<e, n>> \in W
<1>1. PICK w \in W : w[2] = n
  BY DEF Won
<1>2. /\ w \in Nat \X Nodes /\ InitSlaveof[n] = Dead /\ w[1] > Top /\ w = <<w[1], n>>
  BY <1>1 DEF WinnersOK
<1>3. \A s \in Slots : InitOwner[s] # n
  BY <1>2, ClusterAssumption, DeadFacts
<1>4. n # Dead
  <2>1. Lost # {}
    BY <1>1 DEF WinnersOK
  <2>2. InitSlaveof[Dead] = None
    BY <2>1, ClusterAssumption DEF Lost
  <2> QED
    BY <1>2, <2>2, DeadFacts
<1>5. ASSUME NEW e, OwnEpoch(W, n, e) PROVE e \in Nat /\ e > Top /\ <<e, n>> \in W
  <2>1. w[1] = e
    BY <1>1, <1>5 DEF OwnEpoch
  <2> QED
    BY <1>1, <1>2, <2>1
<1> QED
  BY <1>2, <1>3, <1>4, <1>5

LEMMA LearnStanding ==
    ASSUME OneSuspect, NEW W, NEW me \in Nodes, NEW st \in States, NEW p, FromNode(p),
           p.from # me, Bounded(W, p.configEpoch), Standing(W, me, st)
    PROVE  Standing(W, me, LearnEpochs(st, p))
<1> DEFINE b == LearnEpochs(st, p)
<1>1. /\ b.slaveof = st.slaveof /\ b.slots = st.slots
      /\ \A n \in Nodes \ {p.from} : b.configEpoch[n] = st.configEpoch[n]
      /\ b.configEpoch[p.from] \in {st.configEpoch[p.from], p.configEpoch}
      /\ p.from \in Nodes
  BY LearnEpochsEffect DEF FromNode
<1> HIDE DEF b
<1>2. b.configEpoch[me] = st.configEpoch[me]
  BY <1>1
<1>3. EpochsKnown(W, me, b)
  BY <1>1, <1>2 DEF Standing, EpochsKnown
<1> QED
  BY <1>1, <1>2, <1>3 DEF Standing, RoleOK, LostOwner, WinnerOK, b

LEMMA SwitchedStanding ==
    ASSUME OneSuspect, NEW W, NEW st \in States, NEW p, HeartbeatOK(p), HeartbeatView(p),
           NEW longAgo, Standing(W, p.to, st)
    PROVE  Standing(W, p.to, Switched(st, p, longAgo))
<1> DEFINE b == Switched(st, p, longAgo)
           me == p.to
<1>0. p.from \in Nodes /\ me \in Nodes \ {p.from} /\ p.from # Dead /\ p.from # None
  BY DeadFacts DEF HeartbeatOK, FromNode, HeartbeatView
<1>1. /\ b.configEpoch = st.configEpoch
      /\ b.slaveof[p.from] = p.slaveof
      /\ \A n \in Nodes \ {p.from} : b.slaveof[n] = st.slaveof[n]
      /\ \A s \in Slots : b.slots[s] =
           IF p.slaveof # None /\ IsMaster(st, p.from) /\ st.slots[s] = p.from
           THEN None ELSE st.slots[s]
  BY SwitchedEffect
<1> HIDE DEF b
<1>2. b.slaveof[me] = st.slaveof[me]
  BY <1>0, <1>1
<1>3. EpochsKnown(W, me, b) /\ RoleOK(W, me, b)
  BY <1>1, <1>2 DEF Standing, EpochsKnown, RoleOK
<1>4. LostOwner(W, b)
  <2> SUFFICES ASSUME NEW s \in Lost
               PROVE  /\ b.slots[s] = None => W # {}
                      /\ b.slots[s] # None => /\ b.slots[s] = Dead \/ Won(W, b.slots[s])
                                              /\ b.slaveof[b.slots[s]] = None
    BY DEF LostOwner
  <2>1. /\ st.slots[s] = None => W # {}
        /\ st.slots[s] # None => /\ st.slots[s] = Dead \/ Won(W, st.slots[s])
                                 /\ st.slaveof[st.slots[s]] = None
    BY DEF Standing, LostOwner
  <2>2. s \in Slots /\ st.slots[s] \in Maybe
    BY DEF Lost, States
  <2>3. CASE st.slots[s] = p.from
    <3>1. Won(W, p.from) /\ IsMaster(st, p.from)
      BY <1>0, <2>1, <2>3 DEF IsMaster
    <3>2. W # {}
      BY <3>1 DEF Won
    <3> QED
      BY <1>0, <1>1, <2>2, <2>3, <3>1, <3>2
  <2>4. CASE st.slots[s] # p.from
    BY <1>1, <2>1, <2>2, <2>4 DEF Maybe
  <2> QED
    BY <2>3, <2>4
<1>5. WinnerOK(W, me, b)
  BY <1>0, <1>1, <1>2 DEF Standing, WinnerOK, Lost
<1> QED
  BY <1>3, <1>4, <1>5 DEF Standing, b

\* A claim that takes slots from a winner is one of a later winner.
LEMMA UpdateSlotsStanding ==
    ASSUME OneSuspect, NEW W, WinnersOK(W), NEW st \in States, NEW me \in Nodes,
           NEW sender \in Nodes \ {Dead}, sender # me,
           NEW epoch \in Nat, NEW claimed \in SUBSET Slots, Claims(sender, claimed),
           Bounded(W, epoch), Lost \cap claimed # {} => Won(W, sender),
           st.slaveof[sender] = None, ViewOK(me, st), Standing(W, me, st)
    PROVE  Standing(W, me, clusterUpdateSlotsConfigWith(me, st, sender, epoch, claimed))
<1> DEFINE b == clusterUpdateSlotsConfigWith(me, st, sender, epoch, claimed)
<1>0. sender # None /\ Lost \subseteq Slots
  BY DeadFacts DEF Lost
<1>1. /\ b.configEpoch = st.configEpoch
      /\ \A n \in Nodes \ {me} : b.slaveof[n] = st.slaveof[n]
      /\ \A s \in Slots : b.slots[s] =
           IF s \in claimed /\ Believes(st, s, sender, epoch) THEN sender
           ELSE st.slots[s]
      /\ b.slaveof[me] =
           IF /\ \E s \in Slots : st.slots[s] = Curmaster(st, me)
                                  /\ b.slots[s] # Curmaster(st, me)
              /\ \A s \in Slots : b.slots[s] # Curmaster(st, me)
           THEN sender ELSE st.slaveof[me]
  BY UpdateSlotsEffect
<1> HIDE DEF b
<1>2. EpochsKnown(W, me, b)
  BY <1>1 DEF Standing, EpochsKnown
<1>3. RoleOK(W, me, b)
  BY <1>0, <1>1 DEF Standing, RoleOK
<1>4. LostOwner(W, b)
  <2> SUFFICES ASSUME NEW s \in Lost
               PROVE  /\ b.slots[s] = None => W # {}
                      /\ b.slots[s] # None => /\ b.slots[s] = Dead \/ Won(W, b.slots[s])
                                              /\ b.slaveof[b.slots[s]] = None
    BY DEF LostOwner
  <2>1. /\ st.slots[s] = None => W # {}
        /\ st.slots[s] # None => /\ st.slots[s] = Dead \/ Won(W, st.slots[s])
                                 /\ st.slaveof[st.slots[s]] = None
    BY DEF Standing, LostOwner
  <2>2. s \in Slots /\ st.slots[s] \in Maybe
    BY <1>0 DEF States
  <2>3. CASE b.slots[s] # st.slots[s]
    <3>1. b.slots[s] = sender /\ s \in Lost \cap claimed
      BY <1>1, <2>2, <2>3
    <3>2. Won(W, sender) /\ b.slaveof[sender] = None
      BY <1>1, <3>1
    <3> QED
      BY <1>0, <3>1, <3>2
  <2>4. CASE b.slots[s] = st.slots[s] /\ st.slots[s] # me
    BY <1>1, <2>1, <2>2, <2>4 DEF Maybe
  <2>5. CASE b.slots[s] = st.slots[s] /\ st.slots[s] = me
    <3>1. me # None /\ st.slaveof[me] = None
      BY <2>1, <2>5, DeadFacts
    <3>2. Curmaster(st, me) = me
      BY <3>1 DEF Curmaster, IsMaster
    <3> QED
      BY <1>1, <2>1, <2>2, <2>5, <3>1, <3>2
  <2> QED
    BY <2>3, <2>4, <2>5
<1>5. WinnerOK(W, me, b)
  <2> SUFFICES ASSUME Won(W, me)
               PROVE  /\ b.slaveof[me] = None => \A s \in Lost : b.slots[s] = me
                      /\ b.slaveof[me] # None => \E w \in W : w[1] > b.configEpoch[me]
    BY DEF WinnerOK
  <2>1. CASE st.slaveof[me] # None
    <3>1. \E w \in W : w[1] > st.configEpoch[me]
      BY <2>1 DEF Standing, WinnerOK
    <3> QED
      BY <1>0, <1>1, <2>1, <3>1
  <2>2. CASE st.slaveof[me] = None
    <3>1. Curmaster(st, me) = me /\ \A s \in Lost : st.slots[s] = me
      BY <2>2 DEF Curmaster, IsMaster, Standing, WinnerOK
    <3>2. \A s \in Slots : InitOwner[s] # me
      BY WinnerFacts
    <3>3. \A s \in Slots : st.slots[s] = me => s \in Lost
      BY <3>2 DEF ViewOK
    <3>4. CASE \A s \in Lost : b.slots[s] = me
      BY <1>1, <2>2, <3>1, <3>3, <3>4
    <3>5. ASSUME NEW s \in Lost, b.slots[s] # me
          PROVE  b.slaveof[me] = sender /\ \E w \in W : w[1] > b.configEpoch[me]
      <4>0. s \in Slots
        BY <1>0
      <4>1. s \in claimed /\ st.configEpoch[me] < epoch
        BY <1>1, <3>1, <3>5, <4>0, DeadFacts DEF Believes
      <4>2. \A t \in Lost : b.slots[t] = sender
        <5>1. \A t \in Lost : t \in claimed
          BY <4>1 DEF Claims
        <5>2. \A t \in Lost : Believes(st, t, sender, epoch)
          BY <3>1, <4>1 DEF Believes
        <5> QED
          BY <1>0, <1>1, <5>1, <5>2
      <4>3. \A t \in Slots : b.slots[t] # me
        BY <1>1, <3>3, <4>2
      <4>4. b.slaveof[me] = sender
        BY <1>1, <3>1, <3>5, <4>0, <4>3
      <4>5. st.configEpoch[me] \in Nat /\ st.configEpoch[me] > Top
        BY WinnerFacts DEF Standing, EpochsKnown
      <4>6. ~(epoch <= Top)
        BY <4>1, <4>5, TopFacts
      <4>7. PICK w \in W : epoch <= w[1]
        BY <4>6 DEF Bounded
      <4>8. w[1] \in Nat
        BY DEF WinnersOK
      <4>9. w[1] > b.configEpoch[me]
        BY <1>1, <4>1, <4>5, <4>7, <4>8
      <4> QED
        BY <4>4, <4>9
    <3> QED
      BY <1>0, <3>4, <3>5
  <2> QED
    BY <2>1, <2>2
<1> QED
  BY <1>2, <1>3, <1>4, <1>5 DEF Standing, b

LEMMA StandingView ==
    ASSUME NEW W, NEW n, NEW a, NEW b, SameView(a, b), Standing(W, n, a)
    PROVE  Standing(W, n, b)
BY DEF SameView, Standing, EpochsKnown, RoleOK, LostOwner, WinnerOK

\* What packets say: a master has its own epoch, and the lost slots only if it won.
HeartbeatClaims(W, p) ==
    /\ Bounded(W, p.configEpoch)
    /\ p.slaveof = None => /\ InitSlaveof[p.from] = None \/ Won(W, p.from)
                           /\ OwnEpoch(W, p.from, p.configEpoch)
                           /\ Lost \cap p.myslots # {} => Won(W, p.from)
UpdateClaims(W, p) ==
    /\ p.from # p.to
    /\ Bounded(W, p.configEpoch) /\ Bounded(W, p.reportedConfigEpoch)
    /\ Lost \cap p.slots # {} => p.about = Dead \/ Won(W, p.about)

OneEach(W) == \A v, w \in W : v[1] = w[1] => v[2] = w[2]

\* No two masters have the same config epoch.
LEMMA MastersDiffer ==
    ASSUME OneSuspect, DistinctEpochs, NEW W, WinnersOK(W), OneEach(W),
           NEW n \in Nodes, NEW m \in Nodes \ {n}, NEW e,
           InitSlaveof[n] = None \/ Won(W, n), InitSlaveof[m] = None \/ Won(W, m),
           OwnEpoch(W, n, e), OwnEpoch(W, m, e)
    PROVE  FALSE
<1>1. CASE ~Won(W, n) /\ ~Won(W, m)
  BY <1>1 DEF OwnEpoch, DistinctEpochs
<1>2. CASE Won(W, n) /\ Won(W, m)
  <2>1. <<e, n>> \in W /\ <<e, m>> \in W
    BY <1>2, WinnerFacts
  <2> QED
    BY <2>1 DEF OneEach
<1>3. ASSUME NEW x \in Nodes, NEW y \in Nodes, Won(W, x), ~Won(W, y),
             OwnEpoch(W, x, e), OwnEpoch(W, y, e)
      PROVE  FALSE
  <2>1. e \in Nat /\ e > Top
    BY <1>3, WinnerFacts
  <2>2. e = InitEpoch[y]
    BY <1>3 DEF OwnEpoch
  <2> QED
    BY <2>1, <2>2, TopFacts
<1> QED
  BY <1>1, <1>2, <1>3

\* A heartbeat never finds two masters with the same epoch.
LEMMA HeartbeatStanding ==
    ASSUME OneSuspect, DistinctEpochs, NEW W, WinnersOK(W), OneEach(W), NEW st \in States,
           NEW p, HeartbeatOK(p), HeartbeatView(p), HeartbeatClaims(W, p), NEW longAgo,
           ViewOK(p.to, st), Standing(W, p.to, st)
    PROVE  LET u == Updated(p.to, Switched(LearnEpochs(st, p), p, longAgo), p)
           IN  /\ clusterHandleConfigEpochCollision(p.to, u, p) = u
               /\ Standing(W, p.to, u) /\ u.slaveof[p.from] = p.slaveof
<1> DEFINE me == p.to
           l == LearnEpochs(st, p)
           w == Switched(l, p, longAgo)
           u == Updated(me, w, p)
<1>0. /\ me \in Nodes \ {Dead} /\ p.from \in Nodes \ {me, Dead} /\ FromNode(p)
      /\ p.configEpoch \in Nat /\ p.myslots \in SUBSET Slots
      /\ p.slaveof = None => Claims(p.from, p.myslots)
  BY DEF HeartbeatOK, FromNode, HeartbeatView
<1>1. l \in States /\ w \in States /\ u \in States
  BY <1>0, HeartbeatHeard
<1>2. Standing(W, me, l) /\ ViewOK(me, l)
  BY <1>0, LearnStanding, LearnView DEF HeartbeatClaims
<1> HIDE DEF l
<1>3. Standing(W, me, w) /\ ViewOK(me, w) /\ w.slaveof[p.from] = p.slaveof
  <2>1. Standing(W, me, w)
    BY <1>1, <1>2, SwitchedStanding
  <2>2. ViewOK(me, w)
    BY <1>1, <1>2, SwitchedView
  <2>3. w.slaveof[p.from] = p.slaveof
    BY <1>1, SwitchedEffect
  <2> QED
    BY <2>1, <2>2, <2>3
<1> HIDE DEF w
<1>4. Standing(W, me, u) /\ u.slaveof[p.from] = p.slaveof
  <2>1. CASE u = w
    BY <1>3, <2>1
  <2>2. CASE /\ IsMaster(w, p.from)
             /\ u = clusterUpdateSlotsConfigWith(me, w, p.from, p.configEpoch, p.myslots)
    <3>1. p.slaveof = None /\ Claims(p.from, p.myslots) /\ w.slaveof[p.from] = None
      BY <1>0, <1>3, <2>2 DEF IsMaster
    <3>2. Bounded(W, p.configEpoch) /\ (Lost \cap p.myslots # {} => Won(W, p.from))
      BY <3>1 DEF HeartbeatClaims
    <3> HIDE DEF u
    <3>3. Standing(W, me, u)
      BY <1>0, <1>1, <1>3, <2>2, <3>1, <3>2, UpdateSlotsStanding
    <3>4. u.slaveof[p.from] = w.slaveof[p.from]
      BY <1>0, <1>1, <2>2, UpdateSlotsEffect
    <3> QED
      BY <1>3, <3>3, <3>4
  <2> QED
    BY <2>1, <2>2 DEF Updated
<1> HIDE DEF u
<1>5. ASSUME IsMaster(u, me), IsMaster(u, p.from), p.configEpoch = u.configEpoch[me]
      PROVE  FALSE
  <2>1. /\ InitSlaveof[p.from] = None \/ Won(W, p.from)
        /\ OwnEpoch(W, p.from, p.configEpoch)
    BY <1>4, <1>5 DEF HeartbeatClaims, IsMaster
  <2>2. /\ InitSlaveof[me] = None \/ Won(W, me)
        /\ OwnEpoch(W, me, p.configEpoch)
    BY <1>4, <1>5 DEF Standing, RoleOK, EpochsKnown, IsMaster
  <2> QED
    BY <1>0, <2>1, <2>2, MastersDiffer
<1>6. clusterHandleConfigEpochCollision(me, u, p) = u
  BY <1>5 DEF clusterHandleConfigEpochCollision
<1> QED
  BY <1>4, <1>6 DEF u, w, l

LEMMA ProcessUpdateStanding ==
    ASSUME OneSuspect, NEW W, WinnersOK(W), NEW st \in States,
           NEW p, UpdateOK(p), UpdateView(p), UpdateClaims(W, p),
           ViewOK(p.to, st), Standing(W, p.to, st)
    PROVE  Standing(W, p.to, ProcessUpdate(p.to, st, p))
<1> DEFINE me == p.to
           i == Informed(st, p)
           b == ProcessUpdate(me, st, p)
<1>0. /\ me \in Nodes /\ p.about \in Nodes \ {me} /\ p.reportedConfigEpoch \in Nat
      /\ p.slots \in SUBSET Slots /\ Claims(p.about, p.slots)
      /\ p.about = Dead => p.reportedConfigEpoch = InitEpoch[Dead]
      /\ Bounded(W, p.reportedConfigEpoch)
  BY DEF UpdateOK, UpdateView, UpdateClaims
<1>1. CASE b = st
  BY <1>1
<1>2. CASE /\ st.configEpoch[p.about] < p.reportedConfigEpoch
           /\ b = clusterUpdateSlotsConfigWith(me, i, p.about, p.reportedConfigEpoch, p.slots)
  <2>1. p.about # Dead
    BY <1>0, <1>2 DEF ViewOK
  <2>2. /\ Heard(st, i) /\ i.slots = st.slots /\ i.fail = st.fail /\ i.slaveof[p.about] = None
        /\ i.configEpoch[p.about] = p.reportedConfigEpoch
        /\ \A n \in Nodes \ {p.about} : /\ i.slaveof[n] = st.slaveof[n]
                                        /\ i.configEpoch[n] = st.configEpoch[n]
    BY InformedEffect
  <2> HIDE DEF i
  <2>3. i \in States /\ ViewOK(me, i)
    BY <1>0, <2>1, <2>2, DeadFacts DEF Heard, ViewOK, Voters
  <2>4. i.slaveof[me] = st.slaveof[me] /\ i.configEpoch[me] = st.configEpoch[me]
    BY <1>0, <2>2
  <2>5. EpochsKnown(W, me, i) /\ RoleOK(W, me, i) /\ WinnerOK(W, me, i)
    BY <1>0, <2>2, <2>4 DEF Standing, EpochsKnown, RoleOK, WinnerOK
  <2>6. LostOwner(W, i)
    <3>1. \A s \in Lost : st.slots[s] \in Maybe
      BY DEF States, Lost
    <3> QED
      BY <2>2, <3>1 DEF Standing, LostOwner, Maybe
  <2>7. Standing(W, me, i)
    BY <2>5, <2>6 DEF Standing
  <2>8. Lost \cap p.slots # {} => Won(W, p.about)
    BY <2>1 DEF UpdateClaims
  <2> HIDE DEF b
  <2>9. Standing(W, me, b)
    BY <1>0, <1>2, <2>1, <2>2, <2>3, <2>7, <2>8, UpdateSlotsStanding
  <2> QED
    BY <2>9 DEF b
<1> QED
  BY <1>1, <1>2, ProcessUpdateEffect

LEMMA CorrectionsClaims ==
    ASSUME OneSuspect, NEW W, NEW me \in Nodes, NEW st \in States, NEW p, HeartbeatOK(p),
           p.to = me, Standing(W, me, st), NEW q \in Corrections(me, st, p)
    PROVE  UpdateClaims(W, q)
<1>1. /\ q.type = "UPDATE" /\ q.from = me /\ q.to = p.from /\ q.about \in Nodes
      /\ q.reportedConfigEpoch = st.configEpoch[q.about] /\ q.slots = SlotsOf(st, q.about)
      /\ q.configEpoch = st.configEpoch[Curmaster(st, me)]
  BY CorrectionsEffect
<1>2. Curmaster(st, me) \in Nodes /\ p.from # me
  BY DEF Curmaster, IsMaster, States, Maybe, HeartbeatOK
<1>3. Bounded(W, q.configEpoch) /\ Bounded(W, q.reportedConfigEpoch)
  BY <1>1, <1>2 DEF Standing, EpochsKnown
<1>4. Lost \cap q.slots # {} => q.about = Dead \/ Won(W, q.about)
  BY <1>1, DeadFacts DEF Standing, LostOwner, SlotsOf
<1> QED
  BY <1>1, <1>2, <1>3, <1>4 DEF UpdateClaims

PacketClaims(W, p) ==
    /\ Bounded(W, p.configEpoch)
    /\ p.type = "PING" => HeartbeatClaims(W, p)
    /\ p.type = "UPDATE" => UpdateClaims(W, p)
    /\ p.type = "ACK" => p.from # p.to
Routed(p) ==
    /\ p.type = "REQUEST" => p.from \in Up
    /\ p.type = "ACK" => p.to \in Up

AgreeInv ==
    /\ WinnersOK(winners) /\ \A w \in winners : w[2] \in Up
    /\ \A n \in Nodes : Standing(winners, n, cluster[n])
    /\ \A p \in net : PacketClaims(winners, p) /\ Routed(p)

\* Elections are for epochs after the ones at the start.
Above(st) == st.saved >= Top /\ (st.auth_sent => st.auth_epoch > Top)
AboveInv == \A n \in Nodes : Above(cluster[n])

LEMMA InitAbove == OneSuspect /\ Init => AboveInv
<1> SUFFICES ASSUME OneSuspect, Init, NEW n \in Nodes PROVE Above(cluster[n])
  BY DEF AboveInv
<1>1. cluster[n].saved = Top /\ cluster[n].auth_sent = FALSE
  BY DEF Init, Top
<1> QED
  BY <1>1, TopFacts DEF Above

LEMMA NextAbove ==
    /\ OneSuspect /\ TypeOK /\ EpochInv /\ AboveInv /\ [Next]_vars
    => AboveInv'
<1> SUFFICES ASSUME OneSuspect, TypeOK, EpochInv, AboveInv, [Next]_vars PROVE AboveInv'
  OBVIOUS
<1>0. /\ Top \in Nat
      /\ \A n \in Nodes : /\ cluster[n] \in States /\ EpochsOK(cluster[n]) /\ Above(cluster[n])
                          /\ cluster[n].saved \in Nat /\ cluster[n].currentEpoch \in Nat
                          /\ cluster[n].auth_epoch \in Nat
  BY TopFacts DEF TypeOK, EpochInv, AboveInv, States
<1>1. ASSUME NEW n \in Nodes, NEW b \in States, b.saved \in {cluster[n].saved, b.currentEpoch},
             b.currentEpoch >= cluster[n].currentEpoch,
             b.auth_sent => \/ cluster[n].auth_sent /\ b.auth_epoch = cluster[n].auth_epoch
                            \/ b.auth_epoch > cluster[n].currentEpoch
      PROVE  Above(b)
  <2>1. b.saved \in Nat /\ b.currentEpoch \in Nat /\ b.auth_epoch \in Nat
    BY DEF States
  <2> QED
    BY <1>0, <1>1, <2>1 DEF Above, EpochsOK
<1>2. ASSUME NEW n \in Nodes, NEW st \in States, Become(n, st), Above(cluster'[n]) PROVE AboveInv'
  <2>1. \A m \in Nodes \ {n} : cluster'[m] = cluster[m]
    BY <1>2, BecomeEffect
  <2> QED
    BY <1>2, <2>1 DEF AboveInv
<1>3. CASE QuietStep
  <2>1. ASSUME NEW n \in Nodes PROVE Above(cluster'[n])
    BY <1>1, <1>3 DEF QuietStep, SameElection
  <2> QED
    BY <2>1 DEF AboveInv
<1>4. ASSUME NEW n \in Nodes, Restart(n) PROVE AboveInv'
  <2>1. /\ \A m \in Nodes \ {n} : cluster'[m] = cluster[m]
        /\ cluster'[n].saved = cluster[n].saved /\ ~cluster'[n].auth_sent
    BY <1>4, RestartStep DEF Restarts
  <2>2. Above(cluster'[n])
    BY <1>0, <2>1 DEF Above
  <2> QED
    BY <2>1, <2>2 DEF AboveInv
<1>5. ASSUME NEW p \in net, NEW n \in Nodes, ReceiveRequest(p, n) PROVE AboveInv'
  <2> DEFINE l == LearnEpochs(cluster[n], p)
  <2>1. PICK st \in States : Become(n, st) /\ (st = l \/ Votes(l, st))
    BY <1>5, VoteStep
  <2>2. Heard(cluster[n], l)
    BY <1>5, VoteStep
  <2>3. /\ cluster' \in [Nodes -> States]
        /\ SameElection(st, cluster'[n]) /\ cluster'[n].currentEpoch = st.currentEpoch
        /\ cluster'[n].saved \in {st.saved, st.currentEpoch}
    BY <2>1, BecomeEffect
  <2> HIDE DEF l
  <2>4. /\ st.saved = cluster[n].saved /\ st.currentEpoch >= cluster[n].currentEpoch
        /\ st.auth_sent = cluster[n].auth_sent /\ st.auth_epoch = cluster[n].auth_epoch
    BY <2>1, <2>2 DEF Votes, Heard, SameElection
  <2>5. Above(cluster'[n])
    BY <1>1, <2>3, <2>4 DEF SameElection
  <2> QED
    BY <1>2, <2>1, <2>5
<1>6. ASSUME NEW n \in Nodes, NEW c \in States, NEW st \in States, Elects(n, c, st), Become(n, st),
             c.saved = cluster[n].saved, c.currentEpoch >= cluster[n].currentEpoch,
             c.auth_sent = cluster[n].auth_sent, c.auth_epoch = cluster[n].auth_epoch
      PROVE  AboveInv'
  <2>1. /\ cluster' \in [Nodes -> States]
        /\ SameElection(st, cluster'[n]) /\ cluster'[n].currentEpoch = st.currentEpoch
        /\ cluster'[n].saved \in {st.saved, st.currentEpoch}
    BY <1>6, BecomeEffect
  <2>2. c.currentEpoch \in Nat /\ cluster[n].currentEpoch \in Nat
    BY <1>0 DEF States
  <2>3. /\ st.saved = c.saved
        /\ \/ /\ st.currentEpoch = c.currentEpoch /\ (st.auth_sent => c.auth_sent)
              /\ st.auth_epoch = c.auth_epoch
           \/ st.currentEpoch = c.currentEpoch + 1 /\ st.auth_epoch = c.currentEpoch + 1
    BY <1>6 DEF Elects, Retries, Starts, Replaces, SameElection
  <2>4. /\ cluster'[n].currentEpoch >= cluster[n].currentEpoch
        /\ cluster'[n].saved \in {cluster[n].saved, cluster'[n].currentEpoch}
    BY <1>6, <2>1, <2>2, <2>3
  <2>5. cluster'[n].auth_sent => \/ cluster[n].auth_sent /\ cluster'[n].auth_epoch = cluster[n].auth_epoch
                                 \/ cluster'[n].auth_epoch > cluster[n].currentEpoch
    BY <1>6, <2>1, <2>2, <2>3 DEF SameElection
  <2>6. Above(cluster'[n])
    BY <1>1, <2>1, <2>4, <2>5
  <2> QED
    BY <1>2, <1>6, <2>6
<1>7. ASSUME NEW p \in net, NEW clock, ReceiveAck(p, clock) PROVE AboveInv'
  <2>1. p.type = "ACK"
    BY <1>7 DEF ReceiveAck
  <2>2. /\ p.to \in Nodes /\ Counted(p) \in States /\ Counted(p).saved = cluster[p.to].saved
        /\ Counted(p).auth_sent = cluster[p.to].auth_sent
        /\ Counted(p).auth_epoch = cluster[p.to].auth_epoch
        /\ Counted(p).currentEpoch >= cluster[p.to].currentEpoch
    BY <2>1, CountedEffect
  <2>3. PICK st \in States : Elects(p.to, Counted(p), st) /\ Become(p.to, st)
    BY <1>7, AckStep
  <2> QED
    BY <1>6, <2>2, <2>3
<1>8. ASSUME NEW n \in Nodes, NEW clock, Cron(n, clock) PROVE AboveInv'
  <2>1. PICK st \in States : Elects(n, cluster[n], st) /\ Become(n, st)
    BY <1>8, CronStep
  <2> QED
    BY <1>0, <1>6, <2>1
<1> QED
  BY <1>3, <1>4, <1>5, <1>7, <1>8, Kinds

LEMMA BecomeAgree ==
    ASSUME TypeOK, AgreeInv, NEW m \in Nodes, NEW st \in States, Become(m, st),
           Standing(winners, m, st), winners' = winners, scenario' = scenario,
           \A q \in net' : PacketClaims(winners, q) /\ Routed(q)
    PROVE  AgreeInv'
<1>1. /\ \A n \in Nodes \ {m} : cluster'[n] = cluster[n]
      /\ SameView(st, cluster'[m])
  BY BecomeEffect
<1>2. Standing(winners, m, cluster'[m])
  BY <1>1, StandingView
<1>3. \A n \in Nodes : Standing(winners, n, cluster'[n])
  BY <1>1, <1>2 DEF AgreeInv
<1> QED
  BY <1>3 DEF AgreeInv, Routed, Up

\* A win changes nothing for the others, nor for what they have said.
LEMMA OthersStand ==
    ASSUME NEW W, NEW e, NEW n, NEW m, m # n, NEW st, Standing(W, m, st)
    PROVE  Standing(W \cup {<<e, n>>}, m, st)
<1> DEFINE X == W \cup {<<e, n>>}
<1>1. /\ \A d : Bounded(W, d) => Bounded(X, d)
      /\ \A k : Won(W, k) => Won(X, k)
      /\ Won(X, m) => Won(W, m)
      /\ \A d : OwnEpoch(W, m, d) => OwnEpoch(X, m, d)
      /\ W # {} => X # {}
  BY DEF Bounded, Won, OwnEpoch
<1>2. \A w \in W : w \in X
  OBVIOUS
<1> HIDE DEF X
<1>3. EpochsKnown(X, m, st) /\ RoleOK(X, m, st) /\ LostOwner(X, st)
  BY <1>1 DEF Standing, EpochsKnown, RoleOK, LostOwner
<1>4. WinnerOK(X, m, st)
  BY <1>1, <1>2 DEF Standing, WinnerOK
<1> QED
  BY <1>3, <1>4 DEF Standing, X

LEMMA ClaimsStand ==
    ASSUME OneSuspect, NEW W, NEW e, NEW n, ~Won(W, n), InitSlaveof[n] = Dead,
           NEW p, PacketClaims(W, p)
    PROVE  PacketClaims(W \cup {<<e, n>>}, p)
<1> DEFINE X == W \cup {<<e, n>>}
<1>1. /\ \A d : Bounded(W, d) => Bounded(X, d)
      /\ \A k : Won(W, k) => Won(X, k)
      /\ \A d, k : k # n /\ OwnEpoch(W, k, d) => OwnEpoch(X, k, d)
  BY DEF Bounded, Won, OwnEpoch
<1> HIDE DEF X
<1>2. Dead # None
  BY DeadFacts
<1>3. HeartbeatClaims(W, p) => HeartbeatClaims(X, p)
  BY <1>1, <1>2 DEF HeartbeatClaims
<1>4. UpdateClaims(W, p) => UpdateClaims(X, p)
  BY <1>1 DEF UpdateClaims
<1> QED
  BY <1>1, <1>3, <1>4 DEF PacketClaims, X

LEMMA WinAgree ==
    ASSUME OneSuspect, TypeOK, AgreeInv, NEW n \in Up, NEW c \in States, NEW st \in States,
           FailoverNeeded(n, c), ViewOK(n, c), Standing(winners, n, c), c.auth_epoch > Top,
           Replaces(n, c, st), Become(n, st),
           winners' = winners \cup {<<st.auth_epoch, n>>}, scenario' = scenario,
           \A q \in net' : PacketClaims(winners, q) /\ Routed(q)
    PROVE  AgreeInv'
<1> DEFINE e == st.auth_epoch
           X == winners \cup {<<e, n>>}
           b == cluster'[n]
<1>0. n \in Nodes /\ e \in Nat
  BY DEF Up, States
<1>1. /\ \A m \in Nodes \ {n} : cluster'[m] = cluster[m]
      /\ SameView(st, b)
  BY <1>0, BecomeEffect
<1>2. /\ c.slaveof[n] = Dead /\ \A s \in Lost : c.slots[s] = Dead
      /\ Lost # {}
  BY <1>0, Candidate
<1>3. /\ InitSlaveof[n] = Dead /\ ~Won(winners, n) /\ c.configEpoch[n] = InitEpoch[n]
  BY <1>2 DEF Standing, RoleOK, EpochsKnown, OwnEpoch
<1>4. /\ st.slaveof[n] = None /\ e = c.auth_epoch
      /\ \A m \in Nodes \ {n} : st.slaveof[m] = c.slaveof[m] /\ st.configEpoch[m] = c.configEpoch[m]
      /\ \A s \in Slots : st.slots[s] = IF c.slots[s] = Dead THEN n ELSE c.slots[s]
      /\ st.configEpoch[n] = Later(c.configEpoch[n], e)
  BY <1>2 DEF Replaces, SameElection
<1>5. e > Top /\ st.configEpoch[n] = e
  BY <1>0, <1>3, <1>4, TopFacts DEF Later
<1> HIDE DEF e, b
<1>6. WinnersOK(X)
  <2>1. X \subseteq Nat \X Nodes
    BY <1>0 DEF AgreeInv, WinnersOK
  <2>2. IsFiniteSet(X)
    BY FS_AddElement DEF AgreeInv, WinnersOK
  <2>3. \A w \in X : InitSlaveof[w[2]] = Dead /\ w[1] > Top
    BY <1>3, <1>5 DEF AgreeInv, WinnersOK
  <2> QED
    BY <1>2, <2>1, <2>2, <2>3 DEF WinnersOK
<1>7. /\ Won(X, n) /\ Bounded(X, e) /\ OwnEpoch(X, n, e)
      /\ \A d : Bounded(winners, d) => Bounded(X, d)
  <2>0. /\ <<e, n>> \in X /\ <<e, n>>[1] = e /\ <<e, n>>[2] = n /\ e <= e
        /\ \A w \in winners : w \in X
    BY <1>0 DEF e
  <2>1. Won(X, n) /\ \A d : Bounded(winners, d) => Bounded(X, d)
    BY <2>0, Zenon DEF Won, Bounded
  <2>2. Bounded(X, e)
    BY <2>0, Zenon DEF Bounded
  <2>3. OwnEpoch(X, n, e)
    BY <1>3, <2>1 DEF OwnEpoch, Won
  <2> QED
    BY <2>1, <2>2, <2>3
<1>8. Standing(X, n, st)
  <2>1. EpochsKnown(X, n, st)
    BY <1>4, <1>5, <1>7 DEF Standing, EpochsKnown
  <2>2. RoleOK(X, n, st)
    BY <1>4, <1>7, DeadFacts DEF RoleOK
  <2>3. \A s \in Lost : st.slots[s] = n
    BY <1>2, <1>4 DEF Lost
  <2>4. LostOwner(X, st) /\ WinnerOK(X, n, st)
    BY <1>0, <1>4, <1>7, <2>3, DeadFacts DEF LostOwner, WinnerOK
  <2> QED
    BY <2>1, <2>2, <2>4 DEF Standing
<1>9. Standing(X, n, b)
  BY <1>1, <1>8, StandingView
<1>10. ASSUME NEW m \in Nodes PROVE Standing(X, m, cluster'[m])
  <2>1. CASE m = n
    BY <1>9, <2>1 DEF b
  <2>2. CASE m # n
    <3>1. Standing(winners, m, cluster[m])
      BY DEF AgreeInv
    <3>2. Standing(X, m, cluster[m])
      BY <2>2, <3>1, OthersStand
    <3> QED
      BY <1>1, <2>2, <3>2
  <2> QED
    BY <2>1, <2>2
<1>11. \A q \in net' : PacketClaims(X, q)
  BY <1>3, ClaimsStand
<1>12. winners' = X /\ \A w \in X : w[2] \in Up
  BY DEF AgreeInv, e
<1> HIDE DEF X
<1> QED
  BY <1>6, <1>10, <1>11, <1>12 DEF AgreeInv, Routed, Up

\* The election of a node that is up goes on.
LEMMA ElectsAgree ==
    ASSUME OneSuspect, TypeOK, AgreeInv, NEW n \in Up, NEW c \in States, NEW st \in States,
           ViewOK(n, c), Standing(winners, n, c), c.auth_sent => c.auth_epoch > Top,
           Elects(n, c, st), Become(n, st), Record(n, c, st), scenario' = scenario,
           \A q \in net' : PacketClaims(winners, q) /\ Routed(q)
    PROVE  AgreeInv'
<1>0. n \in Nodes
  BY DEF Up
<1>1. CASE SameView(c, st)
  <2>1. Standing(winners, n, st)
    BY <1>1, StandingView
  <2>2. winners' = winners
    BY <1>1 DEF Record, SameView, IsMaster
  <2> QED
    BY <1>0, <2>1, <2>2, BecomeAgree
<1>2. CASE FailoverNeeded(n, c) /\ Replaces(n, c, st)
  <2>1. c.auth_epoch > Top
    BY <1>2 DEF Replaces, Wins
  <2>2. winners' = winners \cup {<<st.auth_epoch, n>>}
    BY <1>2 DEF Record, Replaces, IsMaster, FailoverNeeded
  <2> QED
    BY <1>2, <2>1, <2>2, WinAgree
<1>3. SameView(c, c)
  BY DEF SameView
<1> QED
  BY <1>1, <1>2, <1>3 DEF Elects, Retries, Starts

LEMMA HeaderClaims ==
    ASSUME OneSuspect, TypeOK, AgreeInv, NEW n \in Nodes \ {Dead}, NEW type, NEW to
    PROVE  LET p == clusterBuildMessageHdr(n, type, to)
           IN  HeartbeatClaims(winners, p) /\ Bounded(winners, p.configEpoch)
<1> DEFINE p == clusterBuildMessageHdr(n, type, to)
           st == cluster[n]
<1>1. /\ p.from = n /\ p.slaveof = st.slaveof[n]
      /\ p.configEpoch = st.configEpoch[Curmaster(st, n)]
      /\ p.myslots = SlotsOf(st, Curmaster(st, n))
  BY HeaderEffect
<1>2. st \in States /\ Standing(winners, n, st)
  BY DEF TypeOK, AgreeInv
<1> HIDE DEF p, st
<1>3. Curmaster(st, n) \in Nodes
  BY <1>2 DEF Curmaster, IsMaster, States, Maybe
<1>4. Bounded(winners, p.configEpoch)
  BY <1>1, <1>2, <1>3 DEF Standing, EpochsKnown
<1>5. ASSUME p.slaveof = None
      PROVE  /\ InitSlaveof[n] = None \/ Won(winners, n)
             /\ OwnEpoch(winners, n, p.configEpoch)
             /\ Lost \cap p.myslots # {} => Won(winners, n)
  <2>1. Curmaster(st, n) = n
    BY <1>1, <1>5 DEF Curmaster, IsMaster
  <2>2. Lost \cap p.myslots # {} => Won(winners, n)
    BY <1>1, <1>2, <2>1, DeadFacts DEF Standing, LostOwner, SlotsOf
  <2> QED
    BY <1>1, <1>2, <1>5, <2>1, <2>2 DEF Standing, RoleOK, EpochsKnown
<1> QED
  BY <1>1, <1>4, <1>5 DEF HeartbeatClaims, p

LEMMA SentClaims ==
    ASSUME OneSuspect, TypeOK, ViewInv, AgreeInv, NEW p, Sent(p)
    PROVE  HeartbeatClaims(winners, p)
<1>1. CASE p \in net /\ p.type = "PING"
  BY <1>1 DEF AgreeInv, PacketClaims
<1>2. ASSUME NEW n \in Up, p = clusterBuildMessageHdr(n, "PING", p.to)
      PROVE  HeartbeatClaims(winners, p)
  <2>1. n \in Nodes \ {Dead}
    BY DeadFacts DEF ViewInv, Crashed, Up
  <2>2. HeartbeatClaims(winners, clusterBuildMessageHdr(n, "PING", p.to))
    BY <2>1, HeaderClaims
  <2> QED
    BY <1>2, <2>2
<1> QED
  BY <1>1, <1>2 DEF Sent

LEMMA InitAgree == OneSuspect /\ Init => AgreeInv
<1> SUFFICES ASSUME OneSuspect, Init PROVE AgreeInv
  OBVIOUS
<1>1. WinnersOK({}) /\ \A n : ~Won({}, n)
  BY FS_EmptySet DEF WinnersOK, Won
<1>2. ASSUME NEW n \in Nodes PROVE Standing({}, n, cluster[n])
  <2>1. /\ cluster[n].slots = InitOwner /\ cluster[n].slaveof = InitSlaveof
        /\ cluster[n].configEpoch = InitEpoch
    BY DEF Init
  <2>2. EpochsKnown({}, n, cluster[n])
    BY <1>1, <2>1, TopFacts DEF EpochsKnown, OwnEpoch, Bounded
  <2>3. RoleOK({}, n, cluster[n]) /\ WinnerOK({}, n, cluster[n])
    BY <1>1, <2>1 DEF RoleOK, WinnerOK
  <2>4. LostOwner({}, cluster[n])
    BY <2>1, ClusterAssumption, DeadFacts DEF LostOwner, Lost
  <2> QED
    BY <2>2, <2>3, <2>4 DEF Standing
<1>3. winners = {} /\ net = {}
  BY DEF Init
<1> QED
  BY <1>1, <1>2, <1>3 DEF AgreeInv

LEMMA NextAgree ==
    /\ OneSuspect /\ DistinctEpochs /\ TypeOK /\ ViewInv /\ OneWinnerPerEpoch /\ AboveInv
    /\ AgreeInv /\ [Next]_vars
    => AgreeInv'
<1> SUFFICES ASSUME OneSuspect, DistinctEpochs, TypeOK, ViewInv, OneWinnerPerEpoch, AboveInv,
                    AgreeInv, [Next]_vars
             PROVE  AgreeInv'
  OBVIOUS
<1>0. /\ \A n \in Up : n \in Nodes \ {Dead}
      /\ \A n \in Nodes : /\ cluster[n] \in States /\ ViewOK(n, cluster[n])
                          /\ Standing(winners, n, cluster[n])
      /\ \A q \in net : PacketClaims(winners, q) /\ Routed(q)
      /\ WinnersOK(winners) /\ OneEach(winners)
  BY DeadFacts DEF ViewInv, Crashed, Up, TypeOK, AgreeInv, OneWinnerPerEpoch, OneEach
<1>1. CASE UNCHANGED vars
  BY <1>1 DEF vars, AgreeInv, Routed, Up
<1>2. ASSUME NEW p, NEW longAgo, HeartbeatOK(p), Sent(p), HeartbeatStep(p, longAgo) PROVE AgreeInv'
  <2> DEFINE me == p.to
             u == Updated(me, Switched(LearnEpochs(cluster[me], p), p, longAgo), p)
             st == clusterHandleConfigEpochCollision(me, u, p)
  <2>1. /\ me \in Nodes /\ cluster[me] \in States /\ u \in States
        /\ st \in States /\ Become(me, st)
        /\ net' \subseteq net \cup Corrections(me, u, p)
        /\ scenario' = scenario /\ winners' = winners
    BY <1>2, HeartbeatEffect
  <2>2. HeartbeatView(p) /\ HeartbeatClaims(winners, p)
    BY <1>2, SentView, SentClaims
  <2>3. ViewOK(me, cluster[me]) /\ Standing(winners, me, cluster[me])
    BY <1>0, <2>1
  <2>4. st = u /\ Standing(winners, me, u)
    BY <1>0, <1>2, <2>1, <2>2, <2>3, HeartbeatStanding
  <2> HIDE DEF u, st
  <2>5. \A q \in net' : PacketClaims(winners, q) /\ Routed(q)
    <3>1. ASSUME NEW q \in Corrections(me, u, p) PROVE PacketClaims(winners, q) /\ Routed(q)
      <4>1. UpdateClaims(winners, q) /\ q.type = "UPDATE"
        BY <1>2, <2>1, <2>4, CorrectionsClaims, CorrectionsEffect
      <4> QED
        BY <4>1 DEF PacketClaims, Routed, UpdateClaims
    <3> QED
      BY <1>0, <2>1, <3>1
  <2> QED
    BY <2>1, <2>4, <2>5, BecomeAgree
<1>3. ASSUME NEW n \in Up, NEW m \in Up \ {n}, SlowPing(n, m) PROVE AgreeInv'
  <2> DEFINE p == clusterBuildMessageHdr(n, "PING", m)
  <2>1. HeartbeatClaims(winners, p) /\ p.type = "PING"
    BY <1>0, HeaderClaims, HeaderEffect
  <2>2. net' = net \cup {p} /\ cluster' = cluster /\ scenario' = scenario /\ winners' = winners
    BY <1>3 DEF SlowPing
  <2> HIDE DEF p
  <2>3. PacketClaims(winners, p) /\ Routed(p)
    BY <2>1 DEF PacketClaims, Routed, HeartbeatClaims
  <2> QED
    BY <2>2, <2>3 DEF AgreeInv, Routed, Up
<1>4. ASSUME NEW p \in net, ReceiveUpdate(p) PROVE AgreeInv'
  <2> DEFINE l == LearnEpochs(cluster[p.to], p)
             st == ProcessUpdate(p.to, l, p)
  <2>1. /\ UpdateOK(p) /\ l \in States /\ st \in States /\ Become(p.to, st) /\ net' = net \ {p}
    BY <1>4, UpdateStep
  <2>2. /\ p.to \in Nodes /\ FromNode(p) /\ UpdateView(p) /\ UpdateClaims(winners, p)
        /\ p.from # Dead /\ p.from # p.to /\ Bounded(winners, p.configEpoch)
    BY <1>0, <1>4, <2>1 DEF UpdateOK, ViewInv, PacketView, PacketClaims, UpdateClaims, ReceiveUpdate
  <2>3. ViewOK(p.to, l)
    BY <1>0, <2>2, LearnView
  <2>4. Standing(winners, p.to, l)
    BY <1>0, <2>2, LearnStanding
  <2> HIDE DEF l
  <2>5. Standing(winners, p.to, st)
    BY <1>0, <2>1, <2>2, <2>3, <2>4, ProcessUpdateStanding
  <2> HIDE DEF st
  <2>6. /\ scenario' = scenario /\ winners' = winners
        /\ \A q \in net' : PacketClaims(winners, q) /\ Routed(q)
    BY <1>0, <1>4, <2>1 DEF ReceiveUpdate
  <2> QED
    BY <2>1, <2>2, <2>5, <2>6, BecomeAgree
<1>5. ASSUME NEW p \in net, NEW n \in Up, ReceiveRequest(p, n) PROVE AgreeInv'
  <2> DEFINE l == LearnEpochs(cluster[n], p)
             v == VotePacket(l, n, p.from)
  <2>0. /\ n \in Nodes \ {Dead} /\ FromNode(p) /\ n # p.from /\ p.from \in Up
        /\ Bounded(winners, p.configEpoch)
    BY <1>0, <1>5 DEF TypeOK, PacketOK, ReceiveRequest, Routed, PacketClaims
  <2>1. Standing(winners, n, l)
    BY <1>0, <2>0, LearnStanding
  <2>2. PICK st \in States : /\ Become(n, st) /\ (st = l \/ Votes(l, st)) /\ net' \subseteq net \cup {v}
    BY <1>5, <2>0, VoteStep
  <2>3. PacketClaims(winners, v) /\ Routed(v)
    <3>1. /\ v.type = "ACK" /\ v.from = n /\ v.to = p.from /\ v.configEpoch = l.configEpoch[n]
      BY DEF VotePacket
    <3> HIDE DEF v, l
    <3> QED
      BY <2>0, <2>1, <3>1 DEF PacketClaims, Routed, Standing, EpochsKnown
  <2> HIDE DEF l, v
  <2>4. Standing(winners, n, st)
    BY <2>1, <2>2, StandingView DEF Votes
  <2>5. /\ scenario' = scenario /\ winners' = winners
        /\ \A q \in net' : PacketClaims(winners, q) /\ Routed(q)
    BY <1>0, <1>5, <2>2, <2>3 DEF ReceiveRequest
  <2> QED
    BY <2>0, <2>2, <2>4, <2>5, BecomeAgree
<1>6. ASSUME NEW p \in net, NEW clock, ReceiveAck(p, clock) PROVE AgreeInv'
  <2> DEFINE n == p.to
             o == cluster[n]
             c == Counted(p)
  <2>0. /\ p.type = "ACK" /\ n \in Up /\ n \in Nodes \ {Dead} /\ p.from # n /\ p.from # Dead
        /\ Bounded(winners, p.configEpoch) /\ scenario' = scenario
    BY <1>0, <1>6 DEF ReceiveAck, Routed, PacketClaims, ViewInv, PacketView
  <2>1. /\ c \in States /\ FromNode(p) /\ c.slaveof = o.slaveof /\ c.slots = o.slots /\ c.fail = o.fail
        /\ \A m \in Nodes \ {p.from} : c.configEpoch[m] = o.configEpoch[m]
        /\ c.configEpoch[p.from] \in {o.configEpoch[p.from], p.configEpoch}
        /\ c.auth_sent = o.auth_sent /\ c.auth_epoch = o.auth_epoch
    BY <2>0, CountedEffect
  <2>2. ViewOK(n, o) /\ Standing(winners, n, o) /\ Above(o)
    BY <1>0, <2>0 DEF AboveInv
  <2>3. PICK st \in States : /\ Elects(n, c, st) /\ Become(n, st) /\ Record(n, c, st)
                             /\ \A q \in net' : q \in net \/ Requested(n, c, st, q)
    BY <1>6, AckStep
  <2> HIDE DEF c, o, n
  <2>4. ViewOK(n, c)
    BY <2>0, <2>1, <2>2, DeadFacts DEF ViewOK
  <2>5. Standing(winners, n, c)
    <3>1. c.configEpoch[n] = o.configEpoch[n]
      BY <2>0, <2>1
    <3>2. EpochsKnown(winners, n, c)
      BY <2>0, <2>1, <2>2, <3>1 DEF Standing, EpochsKnown
    <3> QED
      BY <2>1, <2>2, <3>1, <3>2 DEF Standing, RoleOK, LostOwner, WinnerOK
  <2>6. c.auth_sent => c.auth_epoch > Top
    BY <2>1, <2>2 DEF Above
  <2>7. \A q \in net' : PacketClaims(winners, q) /\ Routed(q)
    BY <1>0, <2>0, <2>3, <2>5 DEF Requested, PacketClaims, Routed, Standing, EpochsKnown
  <2> QED
    BY <2>0, <2>1, <2>3, <2>4, <2>5, <2>6, <2>7, ElectsAgree
<1>7. ASSUME NEW n \in Up, NEW clock, Cron(n, clock) PROVE AgreeInv'
  <2> DEFINE c == cluster[n]
  <2>0. /\ n \in Nodes \ {Dead} /\ c \in States /\ ViewOK(n, c) /\ Standing(winners, n, c)
        /\ Above(c) /\ scenario' = scenario
    BY <1>0, <1>7 DEF AboveInv, Cron
  <2>1. PICK st \in States :
          /\ Elects(n, c, st) /\ Become(n, st) /\ Record(n, c, st)
          /\ \A q \in net' : q \in net \/ Requested(n, c, st, q)
    BY <1>7, <2>0, CronStep
  <2> HIDE DEF c
  <2>2. \A q \in net' : PacketClaims(winners, q) /\ Routed(q)
    BY <1>0, <2>0, <2>1 DEF Requested, PacketClaims, Routed, Standing, EpochsKnown
  <2> QED
    BY <2>0, <2>1, <2>2, ElectsAgree DEF Above
<1>8. ASSUME NEW m \in Suspects, MarkFailed(m) PROVE AgreeInv'
  <2>0. m \in Nodes
    BY DeadFacts
  <2>1. \A n \in Nodes : /\ cluster'[n].slaveof = cluster[n].slaveof
                         /\ cluster'[n].slots = cluster[n].slots
                         /\ cluster'[n].configEpoch = cluster[n].configEpoch
    BY <1>8, <2>0, MarkFailedEffect
  <2>2. ASSUME NEW n \in Nodes PROVE Standing(winners, n, cluster'[n])
    BY <1>0, <2>1 DEF Standing, EpochsKnown, RoleOK, LostOwner, WinnerOK
  <2>3. scenario' = scenario /\ net' = net /\ winners' = winners
    BY <1>8 DEF MarkFailed
  <2> QED
    BY <2>2, <2>3 DEF AgreeInv, Routed, Up
<1>9. ASSUME NEW n \in Up, Restart(n) PROVE AgreeInv'
  <2>1. /\ \A m \in Nodes \ {n} : cluster'[m] = cluster[m]
        /\ SameView(cluster[n], cluster'[n]) /\ net' \subseteq net
    BY <1>0, <1>9, RestartStep DEF Restarts
  <2>2. Standing(winners, n, cluster'[n])
    BY <1>0, <2>1, StandingView
  <2>3. \A m \in Nodes : Standing(winners, m, cluster'[m])
    BY <1>0, <2>1, <2>2
  <2>4. scenario' = scenario /\ winners' = winners
    BY <1>9 DEF Restart
  <2> QED
    BY <2>1, <2>3, <2>4 DEF AgreeInv, Routed, Up
<1>10. ASSUME NEW n \in Up, NEW m \in Up \ {n}, Ping(n, m) PROVE AgreeInv'
  BY <1>2, <1>10, PingIsHeartbeat
<1>11. ASSUME NEW p \in net, ReceivePing(p) PROVE AgreeInv'
  BY <1>2, <1>11, ReceivePingIsHeartbeat
<1> QED
  BY <1>1, <1>3, <1>4, <1>5, <1>6, <1>7, <1>8, <1>9, <1>10, <1>11 DEF Next

\* What it means that a heartbeat of n would not change m: m knows the role of n, and
\* follows its claims but for owners with an epoch at least as great.
LEMMA NothingToLearn ==
    ASSUME OneSuspect, DistinctEpochs, TypeOK, ViewInv, OneWinnerPerEpoch, AgreeInv, Settled,
           NEW n \in Up, NEW m \in Up \ {n}
    PROVE  /\ cluster[m].slaveof[n] = cluster[n].slaveof[n]
           /\ cluster[n].slaveof[n] = None =>
                \A s \in Slots :
                  /\ cluster[n].slots[s] = n
                  /\ cluster[m].slots[s] # n
                  => /\ cluster[m].slots[s] # None
                     /\ ~(cluster[m].configEpoch[cluster[m].slots[s]] < cluster[n].configEpoch[n])
<1> DEFINE p == clusterBuildMessageHdr(n, "PING", m)
           o == cluster[m]
           st == cluster[n]
           l == LearnEpochs(o, p)
<1> PICK longAgo : longAgo = FALSE
  OBVIOUS
<1> DEFINE w == Switched(l, p, longAgo)
           u == Updated(m, w, p)
<1>0. n \in Nodes \ {Dead} /\ m \in Nodes \ {n} /\ m # Dead
  BY DeadFacts DEF ViewInv, Crashed, Up
<1>1. /\ o \in States /\ st \in States /\ ViewOK(m, o) /\ Standing(winners, m, o)
      /\ WinnersOK(winners) /\ OneEach(winners)
  BY <1>0 DEF TypeOK, ViewInv, AgreeInv, OneWinnerPerEpoch, OneEach
<1>2. /\ HeartbeatOK(p) /\ FromNode(p) /\ p.from = n /\ p.to = m /\ p.slaveof = st.slaveof[n]
      /\ p.configEpoch = st.configEpoch[Curmaster(st, n)]
      /\ p.myslots = SlotsOf(st, Curmaster(st, n))
  BY <1>0, HeaderEffect
<1>3. HeartbeatView(p) /\ HeartbeatClaims(winners, p)
  BY <1>0, HeaderView, HeaderClaims
<1>4. Heartbeat(m, l, p, longAgo).st = o
  BY <1>0 DEF Settled
<1> HIDE DEF p, o, st
<1>5. /\ l \in States /\ w \in States /\ u \in States
      /\ Heartbeat(m, l, p, longAgo).st = clusterHandleConfigEpochCollision(m, u, p)
  BY <1>0, <1>1, <1>2, HeartbeatHeard
<1>6. clusterHandleConfigEpochCollision(m, u, p) = u /\ u.slaveof[p.from] = p.slaveof
  BY <1>1, <1>2, <1>3, HeartbeatStanding
<1>7. u = o
  BY <1>4, <1>5, <1>6
<1>8. /\ l.slots = o.slots
      /\ \A k \in Nodes \ {n} : l.configEpoch[k] = o.configEpoch[k]
  BY <1>1, <1>2, LearnEpochsEffect
<1> HIDE DEF l
<1>9. /\ w.configEpoch = l.configEpoch /\ w.slaveof[n] = p.slaveof
      /\ p.slaveof = None => \A s \in Slots : w.slots[s] = l.slots[s]
  BY <1>2, <1>5, SwitchedEffect
<1> HIDE DEF w
<1>10. ASSUME st.slaveof[n] = None, NEW s \in Slots, st.slots[s] = n, o.slots[s] # n
       PROVE  o.slots[s] # None /\ ~(o.configEpoch[o.slots[s]] < st.configEpoch[n])
  <2>1. Curmaster(st, n) = n /\ s \in p.myslots /\ p.configEpoch = st.configEpoch[n]
    BY <1>2, <1>10 DEF Curmaster, IsMaster, SlotsOf
  <2>2. w.slots[s] = o.slots[s] /\ IsMaster(w, n)
    BY <1>2, <1>8, <1>9, <1>10 DEF IsMaster
  <2>3. Dirty(w, p)
    <3>1. s \notin SlotsOf(w, n)
      BY <1>10, <2>2 DEF SlotsOf
    <3> QED
      BY <1>2, <2>1, <2>2, <3>1 DEF Dirty
  <2>4. u = clusterUpdateSlotsConfigWith(m, w, n, p.configEpoch, p.myslots)
    BY <1>2, <2>2, <2>3 DEF Updated
  <2>5. p.configEpoch \in Nat /\ p.myslots \in SUBSET Slots
    BY <1>2 DEF HeartbeatOK, FromNode
  <2> HIDE DEF u
  <2>6. u.slots[s] = IF s \in p.myslots /\ Believes(w, s, n, p.configEpoch) THEN n ELSE w.slots[s]
    BY <1>0, <1>5, <2>4, <2>5, UpdateSlotsEffect
  <2>7. ~Believes(w, s, n, p.configEpoch)
    BY <1>7, <1>10, <2>1, <2>6
  <2>8. /\ o.slots[s] # None /\ ~(w.configEpoch[o.slots[s]] < p.configEpoch)
    BY <1>10, <2>2, <2>7 DEF Believes
  <2>9. o.slots[s] \in Nodes \ {n}
    BY <1>1, <1>10, <2>8 DEF States, Maybe
  <2>10. w.configEpoch[o.slots[s]] = o.configEpoch[o.slots[s]]
    BY <1>8, <1>9, <2>9
  <2> QED
    BY <2>1, <2>8, <2>10
<1>11. o.slaveof[n] = st.slaveof[n]
  BY <1>2, <1>6, <1>7
<1> QED
  BY <1>10, <1>11 DEF o, st

LEMMA LatestWinner ==
    ASSUME NEW W, WinnersOK(W), W # {}
    PROVE  \E w \in W : \A v \in W : v[1] <= w[1]
<1> DEFINE f == [w \in W |-> w[1]]
           T == {w[1] : w \in W}
<1>1. T \in SUBSET Nat /\ T # {}
  BY DEF WinnersOK
<1>2. IsFiniteSet(T)
  <2>1. IsFiniteSet(W) /\ f \in Surjection(W, T)
    BY DEF WinnersOK, Surjection
  <2> QED
    BY <2>1, FS_Surjection
<1>3. \A v \in W : v[1] \in T
  OBVIOUS
<1>4. \A t \in T : \E w \in W : t = w[1]
  OBVIOUS
<1> HIDE DEF T
<1>5. MaxOf(T) \in T /\ \A t \in T : t <= MaxOf(T)
  BY <1>1, <1>2, GreatestNumber
<1>6. PICK w \in W : MaxOf(T) = w[1]
  BY <1>4, <1>5
<1> QED
  BY <1>3, <1>5, <1>6

LEMMA SettledOwner ==
    ASSUME OneSuspect, DistinctEpochs, TypeOK, ViewInv, OneWinnerPerEpoch, AgreeInv, Settled,
           NEW x \in winners, \A v \in winners : v[1] <= x[1]
    PROVE  /\ x[2] \in Up /\ cluster[x[2]].slaveof[x[2]] = None
           /\ \A m \in Up, s \in Lost : cluster[m].slots[s] = x[2]
<1> DEFINE k == x[2]
           e == x[1]
<1>0. /\ k \in Up /\ k \in Nodes /\ e \in Nat /\ e > Top /\ Lost \subseteq Slots
      /\ WinnersOK(winners) /\ Won(winners, k) /\ x = <<e, k>>
      /\ \A w \in winners : w \in Nat \X Nodes /\ w[2] \in Up
  BY DEF AgreeInv, WinnersOK, Won, Lost
<1>1. /\ \A n \in Up : n \in Nodes \ {Dead}
      /\ \A n \in Nodes : /\ cluster[n] \in States /\ ViewOK(n, cluster[n])
                          /\ Standing(winners, n, cluster[n])
  BY DeadFacts DEF ViewInv, Crashed, Up, TypeOK, AgreeInv
<1>2. cluster[k].configEpoch[k] = e
  BY <1>0, <1>1 DEF Standing, EpochsKnown, OwnEpoch
<1>3. cluster[k].slaveof[k] = None /\ \A s \in Lost : cluster[k].slots[s] = k
  <2>1. ~ \E w \in winners : w[1] > e
    BY <1>0
  <2> QED
    BY <1>0, <1>1, <1>2, <2>1 DEF Standing, WinnerOK
<1> HIDE DEF k, e
<1>4. ASSUME NEW m \in Up \ {k}, NEW s \in Lost, cluster[m].slots[s] # k
      PROVE  /\ cluster[m].slots[s] \in Up \ {m, k}
             /\ Won(winners, cluster[m].slots[s])
             /\ cluster[m].slaveof[cluster[m].slots[s]] = None
  <2> DEFINE y == cluster[m].slots[s]
  <2>0. s \in Slots /\ m \in Nodes /\ y \in Maybe
    BY <1>0, <1>1 DEF States
  <2>1. y # None /\ ~(cluster[m].configEpoch[y] < e)
    BY <1>0, <1>2, <1>3, <1>4, <2>0, NothingToLearn
  <2>2. /\ y = Dead \/ Won(winners, y)
        /\ cluster[m].slaveof[y] = None /\ y \in Nodes
    BY <1>1, <2>0, <2>1 DEF Standing, LostOwner, Maybe
  <2>3. y # Dead
    <3>1. ASSUME y = Dead PROVE cluster[m].configEpoch[y] < e
      BY <1>0, <1>1, <2>0, <3>1, TopFacts, DeadFacts DEF ViewOK
    <3> QED
      BY <2>1, <3>1
  <2>4. Won(winners, y) /\ y \in Up
    BY <1>0, <2>2, <2>3 DEF Won
  <2>5. y # m
    <3>1. ASSUME y = m PROVE cluster[m].configEpoch[m] < e
      <4>1. PICK d \in Nat : d = cluster[m].configEpoch[m] /\ <<d, m>> \in winners
        BY <1>0, <1>1, <2>0, <2>4, <3>1, WinnerFacts DEF Standing, EpochsKnown
      <4>2. d <= e
        BY <4>1 DEF e
      <4>3. d # e
        BY <1>0, <1>4, <4>1 DEF OneWinnerPerEpoch
      <4> QED
        BY <1>0, <4>1, <4>2, <4>3
    <3> QED
      BY <2>1, <3>1
  <2> QED
    BY <1>4, <2>2, <2>4, <2>5
<1>5. ASSUME NEW m \in Up \ {k}, NEW s \in Lost, cluster[m].slots[s] # k PROVE FALSE
  <2> DEFINE y == cluster[m].slots[s]
  <2>1. /\ y \in Up \ {m, k} /\ Won(winners, y) /\ cluster[m].slaveof[y] = None
    BY <1>4, <1>5
  <2> HIDE DEF y
  <2>2. cluster[y].slaveof[y] = None
    BY <2>1, NothingToLearn
  <2>3. cluster[y].slots[s] = y
    BY <1>1, <2>1, <2>2 DEF Standing, WinnerOK
  <2> QED
    BY <1>4, <2>1, <2>3
<1>6. \A m \in Up, s \in Lost : cluster[m].slots[s] = k
  BY <1>3, <1>5
<1> QED
  BY <1>0, <1>3, <1>6 DEF k

LEMMA SettledIsAgreed ==
    ASSUME OneSuspect, DistinctEpochs, TypeOK, ViewInv, OneWinnerPerEpoch, AgreeInv, Settled
    PROVE  Agreed
<1>0. /\ \A n \in Up : n \in Nodes \ {Dead}
      /\ \A n \in Nodes : /\ cluster[n] \in States /\ ViewOK(n, cluster[n])
                          /\ Standing(winners, n, cluster[n])
      /\ WinnersOK(winners) /\ Lost \subseteq Slots
  BY DeadFacts DEF ViewInv, Crashed, Up, TypeOK, AgreeInv, Lost
<1>1. PICK o : /\ \A m \in Up, s \in Lost : cluster[m].slots[s] = o
               /\ o # None /\ (o \in Up => IsMaster(cluster[o], o))
               /\ \A w \in winners : (\A v \in winners : v[1] <= w[1]) => w[2] = o /\ Lost # {}
  <2>1. CASE winners = {}
    <3>1. \A m \in Up, s \in Lost : cluster[m].slots[s] = Dead
      BY <1>0, <2>1 DEF Standing, LostOwner, Won
    <3>2. Dead # None /\ Dead \notin Up
      BY <1>0, DeadFacts
    <3> QED
      BY <2>1, <3>1, <3>2
  <2>2. CASE winners # {}
    <3>1. PICK x \in winners : \A v \in winners : v[1] <= x[1]
      BY <1>0, <2>2, LatestWinner
    <3>2. /\ x[2] \in Up /\ cluster[x[2]].slaveof[x[2]] = None
          /\ \A m \in Up, s \in Lost : cluster[m].slots[s] = x[2]
      BY <3>1, SettledOwner
    <3>3. x[2] # None
      BY <1>0, <3>2, DeadFacts
    <3>4. ASSUME NEW w \in winners, \A v \in winners : v[1] <= w[1] PROVE w[2] = x[2] /\ Lost # {}
      <4>1. w[1] \in Nat /\ x[1] \in Nat
        BY <1>0 DEF WinnersOK
      <4>2. w[1] = x[1]
        BY <3>1, <3>4, <4>1
      <4> QED
        BY <1>0, <4>2 DEF OneWinnerPerEpoch, WinnersOK
    <3> QED
      BY <3>2, <3>3, <3>4 DEF IsMaster
  <2> QED
    BY <2>1, <2>2
<1>2. \A m \in Up, s \in Slots \ Lost : cluster[m].slots[s] = InitOwner[s]
  BY <1>0 DEF ViewOK
<1>3. \A n, m \in Up : cluster[n].slots = cluster[m].slots
  <2> SUFFICES ASSUME NEW n \in Up, NEW m \in Up PROVE cluster[n].slots = cluster[m].slots
    OBVIOUS
  <2>1. cluster[n].slots \in [Slots -> Maybe] /\ cluster[m].slots \in [Slots -> Maybe]
    BY <1>0 DEF States
  <2>2. \A s \in Slots : cluster[n].slots[s] = cluster[m].slots[s]
    BY <1>1, <1>2
  <2> QED
    BY <2>1, <2>2
<1>4. ASSUME NEW n \in Up, NEW s \in Slots
      PROVE  LET q == cluster[n].slots[s]
             IN  q # None /\ (q \in Up => IsMaster(cluster[q], q))
  <2>1. CASE s \in Lost
    BY <1>1, <2>1
  <2>2. CASE s \notin Lost
    <3> DEFINE q == InitOwner[s]
    <3>1. q \in Nodes /\ q # None /\ q # Dead
      BY <2>2, ClusterAssumption DEF Lost
    <3>2. q \in Voters
      BY <3>1 DEF Voters
    <3>3. IsMaster(cluster[q], q)
      BY <1>0, <3>1, <3>2 DEF ViewOK, IsMaster
    <3> QED
      BY <1>2, <2>2, <3>1, <3>3
  <2> QED
    BY <2>1, <2>2
<1>5. ASSUME winners # {}
      PROVE  \E w \in winners : /\ \A v \in winners : v[1] <= w[1]
                                /\ \A n \in Up : SlotsOf(cluster[n], w[2]) # {}
  <2>1. PICK w \in winners : \A v \in winners : v[1] <= w[1]
    BY <1>0, <1>5, LatestWinner
  <2>2. ASSUME NEW n \in Up PROVE SlotsOf(cluster[n], w[2]) # {}
    BY <1>0, <1>1, <2>1 DEF SlotsOf
  <2> QED
    BY <2>1, <2>2
<1> QED
  BY <1>3, <1>4, <1>5 DEF Agreed

LEMMA WinnersGrow == TypeOK /\ [Next]_vars => winners \subseteq winners'
<1> SUFFICES ASSUME TypeOK, [Next]_vars PROVE winners \subseteq winners'
  OBVIOUS
<1>1. \A n, c, st : Record(n, c, st) => winners \subseteq winners'
  BY DEF Record
<1>2. ASSUME NEW p \in net, NEW clock, ReceiveAck(p, clock) PROVE winners \subseteq winners'
  BY <1>1, <1>2, AckStep
<1>3. ASSUME NEW n \in Nodes, NEW clock, Cron(n, clock) PROVE winners \subseteq winners'
  BY <1>1, <1>3, CronStep
<1>4. ASSUME NEW p \in net, NEW n \in Nodes, ReceiveRequest(p, n) PROVE winners' = winners
  BY <1>4 DEF ReceiveRequest
<1>5. ASSUME NEW n \in Nodes, Restart(n) PROVE winners' = winners
  BY <1>5 DEF Restart
<1> QED
  BY <1>2, <1>3, <1>4, <1>5, Kinds DEF QuietStep

\* However the packets and the restarts fall, a crashed master leaves no lasting
\* disagreement as long as no epoch had two winners: whenever no heartbeat would change
\* anything, all nodes that are up have the same owner for every slot, and the lost ones
\* belong to the winner of the latest election.  The older winners have stepped down, or
\* a heartbeat or an UPDATE would still make them (clusterUpdateSlotsConfigWith(),
\* clusterProcessPacket()).
THEOREM FailoverSettles ==
    ASSUME OneSuspect, DistinctEpochs
    PROVE  Spec /\ Crashed => [](OneWinnerPerEpoch => SettledAgree)
<1> DEFINE Inv == /\ TypeOK /\ ViewInv /\ EpochInv /\ AboveInv
                  /\ OneWinnerPerEpoch => AgreeInv
<1>1. Init /\ Crashed => Inv
  BY InitTypeOK, InitView, InitEpochs, InitAbove, InitAgree
<1>2. Inv /\ [Next]_vars => Inv'
  <2> SUFFICES ASSUME Inv, [Next]_vars PROVE Inv'
    OBVIOUS
  <2>1. TypeOK' /\ ViewInv' /\ EpochInv' /\ AboveInv'
    BY NextTypeOK, NextView, NextEpochs, NextAbove DEF ViewStep
  <2>2. OneWinnerPerEpoch' => OneWinnerPerEpoch
    BY WinnersGrow DEF OneWinnerPerEpoch
  <2>3. OneWinnerPerEpoch => AgreeInv'
    BY NextAgree
  <2> QED
    BY <2>1, <2>2, <2>3
<1>3. Inv => (OneWinnerPerEpoch => SettledAgree)
  BY SettledIsAgreed DEF SettledAgree
<1> QED
  BY <1>1, <1>2, <1>3, PTL DEF Spec
==============================================================================
