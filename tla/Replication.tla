----------------------------- MODULE Replication -----------------------------
(***************************************************************************)
(* redis-5.0.10/src/replication.c: servers that copy the writes of a       *)
(* master, or of another replica, and go on where they left off after a    *)
(* lost link, a failover or a restart when the replication ID, the offset  *)
(* and the backlog allow it (PSYNC), and take the whole data set           *)
(* otherwise.                                                              *)
(*                                                                         *)
(* A server's data set is the sequence of the writes it holds.  Each write *)
(* is one unit of the replication stream; PINGs, SELECT and the database   *)
(* numbers are left out, as are the steps of the handshake before PSYNC    *)
(* and transfers without a disk.  Both ends of a link learn that it is     *)
(* lost at the same time, unless the master's end closes it.               *)
(***************************************************************************)
EXTENDS Integers, Sequences, FiniteSets

CONSTANTS
    Servers,
    None,
    repl_backlog_size,
    Scenarios       \* bounds, of which a behaviour has one: the masterhost of each
                    \* server that is running, and how many writes, changes of a
                    \* role, faults and saves by command there are

Writes == Nat
Positions == [replid : Nat, reploff : Nat]
Replies == [type : {"continue", "full"}, replid : Nat, off : Nat]
Snapshots == [data : Seq(Writes), info : BOOLEAN, replid : Nat, off : Nat]

ASSUME ReplicationAssumption ==
    /\ IsFiniteSet(Servers) /\ None \notin Servers /\ None \notin Int
    /\ None \notin Positions /\ None \notin Replies /\ None \notin Snapshots
    /\ repl_backlog_size \in Nat \ {0}
    /\ \A sc \in Scenarios :
          /\ DOMAIN sc.hosts \subseteq Servers
          /\ sc.hosts \in [DOMAIN sc.hosts -> DOMAIN sc.hosts \cup {None}]
          /\ {sc.writes, sc.changes, sc.faults, sc.saves} \subseteq Nat

VARIABLES
    srv,        \* per server: its data set, disk and struct redisServer
    link,       \* per replica: its connection, with what is on its way: the reply to
                \* PSYNC, a snapshot and then writes
    used,       \* of the bounds, and the number of replication IDs made up
    scenario

vars == <<srv, link, used, scenario>>

Running == DOMAIN scenario.hosts

NoLink == [peer |-> None, reply |-> None, rdb |-> None, stream |-> <<>>]
NoSlaves == [r \in Servers |-> "none"]
NoBacklog == [on |-> FALSE, buf |-> [i \in 0..repl_backlog_size-1 |-> 0],
              idx |-> 0, histlen |-> 0, off |-> 0]

\* A server's ID is a number nobody has used: getRandomHexChars().
NewId == used.ids + 1
-----------------------------------------------------------------------------
(* The backlog: a circular buffer of the end of the stream. *)

createReplicationBacklog(s) ==
    [s EXCEPT !.backlog = [NoBacklog EXCEPT !.on = TRUE, !.off = s.off + 1]]

feedReplicationBacklog(s, w) ==
    LET b == s.backlog
        histlen == IF b.histlen < repl_backlog_size THEN b.histlen + 1 ELSE b.histlen
    IN  IF ~b.on THEN s
        ELSE [s EXCEPT
                !.off = @ + 1,
                !.backlog = [on |-> TRUE, buf |-> [b.buf EXCEPT ![b.idx] = w],
                             idx |-> (b.idx + 1) % repl_backlog_size,
                             histlen |-> histlen, off |-> s.off + 1 - histlen + 1]]

\* addReplyReplicationBacklog(): what the buffer has from offset on.
BacklogFrom(s, offset) ==
    LET b == s.backlog
        skip == offset - b.off
        first == (b.idx + (repl_backlog_size - b.histlen)) % repl_backlog_size
    IN  [i \in 1..(b.histlen - skip) |->
            b.buf[(first + skip + i - 1) % repl_backlog_size]]
-----------------------------------------------------------------------------
(* Replication IDs. *)

changeReplicationId(s, id) == [s EXCEPT !.replid = id]
clearReplicationId2(s) == [s EXCEPT !.replid2 = None, !.second_replid_offset = -1]

shiftReplicationId(s, id) ==
    [s EXCEPT !.replid2 = s.replid, !.second_replid_offset = s.off + 1, !.replid = id]

\* Mutant: the second ID is good for any offset.
KnownIdAnyOffset(s, id, offset) == id \in {s.replid, s.replid2}

\* The history asked for is this server's own, or was up to some offset.
KnownId(s, id, offset) ==
    \/ id = s.replid
    \/ id = s.replid2 /\ offset <= s.second_replid_offset

\* masterTryPartialResynchronization().
Continues(s, id, offset) ==
    /\ id # None
    /\ KnownId(s, id, offset)
    /\ s.backlog.on
    /\ s.backlog.off <= offset /\ offset <= s.backlog.off + s.backlog.histlen
-----------------------------------------------------------------------------
(* Saving.  A snapshot carries the replication ID and offset if it can.     *)

\* rdbPopulateSaveInfo().
HasSaveInfo(s) ==
    (s.masterhost = None /\ s.backlog.on) \/ s.master # None \/ s.cached_master # None

Snapshot(s) ==
    [data |-> s.data, info |-> HasSaveInfo(s), replid |-> s.replid, off |-> s.off]

Slaves(s) == {r \in Servers : s.slaves[r] # "none"}
Waiting(s, state) == {r \in Servers : s.slaves[r] = state}

FullReply(l, s, snap) ==
    [l EXCEPT !.reply = [type |-> "full", replid |-> s.replid, off |-> snap.off],
              !.rdb = snap, !.stream = <<>>]

\* startBgsaveForReplication(): everybody who waits for it gets the same snapshot.
startBgsaveForReplication(s) ==
    IF Waiting(s, "wait_start") = {} THEN s
    ELSE [s EXCEPT !.bgsave = Snapshot(s),
                   !.slaves = [r \in Servers |-> IF @[r] = "wait_start" THEN "wait_end"
                                                 ELSE @[r]]]

\* The links of the replicas that the save was started for.
BgsaveReplies(links, old, new) ==
    [r \in Running |->
        IF r \in Waiting(old, "wait_start") \ Waiting(new, "wait_start")
        THEN FullReply(links[r], new, new.bgsave) ELSE links[r]]

\* A client that is closed before its snapshot is complete never gets it.
CloseSlaves(links, s, gone) ==
    [r \in Running |->
        IF r \in gone /\ r \in Waiting(s, "wait_end")
        THEN [links[r] EXCEPT !.rdb = None, !.stream = <<>>] ELSE links[r]]

Without(s, gone) ==
    [s EXCEPT !.slaves = [r \in Servers |-> IF r \in gone THEN "none" ELSE @[r]]]

disconnectSlaves(s) == Without(s, Slaves(s))
-----------------------------------------------------------------------------
(* The master's side. *)

\* The replicas that have their snapshot, or for which it has been started.
FeedLinks(links, s, w) ==
    [r \in Running |->
        IF s.slaves[r] \in {"wait_end", "online"}
        THEN [links[r] EXCEPT !.stream = Append(@, w)] ELSE links[r]]

\* A client's write and replicationFeedSlaves().
Write(m) ==
    /\ srv[m].masterhost = None /\ used.writes < scenario.writes
    /\ used' = [used EXCEPT !.writes = @ + 1]
    /\ LET w == used.writes + 1
           s == [srv[m] EXCEPT !.data = Append(@, w)]
       IN  /\ srv' = [srv EXCEPT ![m] = feedReplicationBacklog(s, w)]
           /\ link' = FeedLinks(link, s, w)

\* What another replica of the same snapshot has been queued: copyClientOutputBuffer().
Queued(s) == link[CHOOSE r \in Waiting(s, "wait_end") : TRUE].stream

\* Mutant: the second replica of a snapshot is told the offset of now.
AttachAtCurrentOffset(l, s) ==
    [FullReply(l, s, [s.bgsave EXCEPT !.off = s.off]) EXCEPT !.stream = Queued(s)]

\* The reply to a replica that shares a snapshot under way.
Attach(l, s) == [FullReply(l, s, s.bgsave) EXCEPT !.stream = Queued(s)]

\* The first replica: the history that the backlog will hold begins here.
Fresh(s) == Slaves(s) = {} /\ ~s.backlog.on
Ready(s, id) ==
    IF Fresh(s) THEN createReplicationBacklog(clearReplicationId2(changeReplicationId(s, id)))
    ELSE s

Joined(s, r, state) == [s EXCEPT !.slaves[r] = state]

\* What PSYNC of r makes of its master, and of its own link.
Answer(r, x, l) ==
    LET m == srv[r].masterhost
    IN  /\ srv' = [srv EXCEPT ![m] = x, ![r].repl_state = "psync"]
        /\ link' = [BgsaveReplies(link, srv[m], x) EXCEPT ![r] = l]

\* syncCommand() for PSYNC of r.  -NOMASTERLINK changes nothing.
Psync(r) ==
    LET m == srv[r].masterhost
        s == srv[m]
        cached == srv[r].cached_master
        new == [NoLink EXCEPT !.peer = m]
        ready == Ready(s, NewId)
        saved == startBgsaveForReplication(Joined(ready, r, "wait_start"))
    IN  /\ srv[r].repl_state = "connect"
        /\ s.masterhost = None \/ s.repl_state = "connected"
        /\ IF cached # None /\ Continues(s, cached.replid, cached.reploff + 1)
           THEN /\ Answer(r, Joined(s, r, "online"),
                      [new EXCEPT !.reply = [type |-> "continue", replid |-> s.replid, off |-> 0],
                                  !.stream = BacklogFrom(s, cached.reploff + 1)])
                /\ UNCHANGED used
           ELSE /\ used' = [used EXCEPT !.ids = IF Fresh(s) THEN @ + 1 ELSE @]
                /\ IF s.bgsave = None
                   THEN Answer(r, saved, FullReply(new, saved, saved.bgsave))
                   ELSE IF Waiting(s, "wait_end") # {}
                   THEN Answer(r, Joined(ready, r, "wait_end"), Attach(new, ready))
                   ELSE Answer(r, Joined(ready, r, "wait_start"), new)

\* updateSlavesWaitingBgsave(): who waited for a save that failed is closed.
Failed(s, ok) == IF ok THEN {} ELSE Waiting(s, "wait_end")
Over(s, ok) ==
    Without([s EXCEPT !.bgsave = None,
                      !.disk = IF ok THEN s.bgsave ELSE @,
                      !.slaves = [r \in Servers |-> IF @[r] = "wait_end" THEN "online"
                                                    ELSE @[r]]], Failed(s, ok))

\* backgroundSaveDoneHandler(): a save that succeeds replaces dump.rdb, and the
\* next one begins if somebody waits for it.
BgsaveDone(m, ok) ==
    LET s == srv[m]
        x == startBgsaveForReplication(Over(s, ok))
    IN  /\ s.bgsave # None
        /\ ok \/ used.faults < scenario.faults
        /\ used' = [used EXCEPT !.faults = IF ok THEN @ ELSE @ + 1]
        /\ srv' = [srv EXCEPT ![m] = x]
        /\ link' = BgsaveReplies(CloseSlaves(link, s, Failed(s, ok)), Over(s, ok), x)

\* BGSAVE.
Save(m) ==
    /\ srv[m].bgsave = None /\ used.saves < scenario.saves
    /\ used' = [used EXCEPT !.saves = @ + 1]
    /\ srv' = [srv EXCEPT ![m].bgsave = Snapshot(srv[m])]
    /\ UNCHANGED link

freeReplicationBacklog(s, id) ==
    [clearReplicationId2(changeReplicationId(s, id)) EXCEPT !.backlog = NoBacklog]

\* replicationCron(): a master that has been without replicas for long enough.
FreeBacklog(m) ==
    /\ srv[m].masterhost = None /\ srv[m].backlog.on /\ Slaves(srv[m]) = {}
    /\ used' = [used EXCEPT !.ids = @ + 1]
    /\ srv' = [srv EXCEPT ![m] = freeReplicationBacklog(@, NewId)]
    /\ UNCHANGED link
-----------------------------------------------------------------------------
(* The replica's side. *)

\* slaveTryPartialResynchronization() on +CONTINUE.
Continue(s, msg) ==
    LET new == msg.replid # s.cached_master.replid
        t == IF new THEN disconnectSlaves([s EXCEPT !.replid2 = s.cached_master.replid,
                                                    !.second_replid_offset = s.off + 1,
                                                    !.replid = msg.replid])
             ELSE s
        u == [t EXCEPT !.master = [replid |-> msg.replid, reploff |-> s.cached_master.reploff],
                       !.cached_master = None, !.repl_state = "connected"]
    IN  IF u.backlog.on THEN u ELSE createReplicationBacklog(u)

\* Mutant: the replicas of the replica keep their links.
FullResyncKeepSlaves(s, msg) ==
    [s EXCEPT !.master_initial = [replid |-> msg.replid, reploff |-> msg.off],
              !.cached_master = None, !.repl_state = "transfer", !.backlog = NoBacklog]

\* Mutant: the backlog survives the change of the data set.
FullResyncKeepBacklog(s, msg) ==
    [disconnectSlaves(s) EXCEPT !.master_initial = [replid |-> msg.replid, reploff |-> msg.off],
                                !.cached_master = None, !.repl_state = "transfer"]

\* On +FULLRESYNC, with the end of syncWithMaster().
FullResync(s, msg) ==
    [disconnectSlaves(s) EXCEPT !.master_initial = [replid |-> msg.replid, reploff |-> msg.off],
                                !.cached_master = None, !.repl_state = "transfer",
                                !.backlog = NoBacklog]

\* The end of readSyncBulkPayload().
LoadSnapshot(s, snap) ==
    LET u == clearReplicationId2(
                [s EXCEPT !.data = snap.data, !.disk = snap,
                          !.master = s.master_initial, !.master_initial = None,
                          !.repl_state = "connected",
                          !.replid = s.master_initial.replid, !.off = s.master_initial.reploff])
    IN  IF u.backlog.on THEN u ELSE createReplicationBacklog(u)

\* processInputBufferAndReplicate(): applied, then passed on as it came.
Apply(s, w) ==
    feedReplicationBacklog(
        [s EXCEPT !.data = Append(@, w),
                  !.master = [s.master EXCEPT !.reploff = s.master.reploff + 1]], w)

ReceiveContinue(r) ==
    LET s == srv[r]
        msg == link[r].reply
        rest == [link EXCEPT ![r].reply = None]
    IN  /\ msg # None /\ msg.type = "continue"
        /\ srv' = [srv EXCEPT ![r] = Continue(s, msg)]
        /\ link' = IF msg.replid # s.cached_master.replid
                   THEN CloseSlaves(rest, s, Slaves(s)) ELSE rest

ReceiveFull(r) ==
    LET s == srv[r]
        msg == link[r].reply
    IN  /\ msg # None /\ msg.type = "full"
        /\ srv' = [srv EXCEPT ![r] = FullResync(s, msg)]
        /\ link' = CloseSlaves([link EXCEPT ![r].reply = None], s, Slaves(s))

\* The snapshot comes when the master has saved it: sendBulkToSlave().
SnapshotArrives(r) ==
    /\ link[r].reply = None /\ link[r].rdb # None
    /\ r \notin Waiting(srv[link[r].peer], "wait_end")

ReceiveSnapshot(r) ==
    /\ SnapshotArrives(r)
    /\ srv' = [srv EXCEPT ![r] = LoadSnapshot(@, link[r].rdb)]
    /\ link' = [link EXCEPT ![r].rdb = None]

ReceiveWrite(r) ==
    LET w == Head(link[r].stream)
    IN  /\ link[r].reply = None /\ link[r].rdb = None /\ link[r].stream # <<>>
        /\ srv' = [srv EXCEPT ![r] = Apply(@, w)]
        /\ link' = FeedLinks([link EXCEPT ![r].stream = Tail(@)], srv[r], w)

Receive(r) ==
    /\ ReceiveContinue(r) \/ ReceiveFull(r) \/ ReceiveSnapshot(r) \/ ReceiveWrite(r)
    /\ UNCHANGED used

\* Mutant: a handshake that is cut short is not begun again.
UnlinkInHandshake(s) ==
    IF s.master = None THEN s
    ELSE [s EXCEPT !.cached_master = s.master, !.master = None, !.repl_state = "connect"]

\* freeClient() of the master: replicationCacheMaster(); cancelReplicationHandshake()
\* when there is no master yet.
Unlink(s) ==
    [s EXCEPT !.cached_master = IF s.master = None THEN @ ELSE s.master,
              !.master = None,
              !.repl_state = IF s.masterhost = None THEN @ ELSE "connect"]

Detached(servers, r) ==
    IF link[r].peer = None THEN servers
    ELSE [servers EXCEPT ![link[r].peer] = Without(@, {r})]

Disconnect(r) ==
    /\ srv' = [Detached(srv, r) EXCEPT ![r] = Unlink(@)]
    /\ link' = [link EXCEPT ![r] = NoLink]

\* A link breaks or times out.
LinkLost(r) ==
    /\ link[r].peer # None /\ r \in Slaves(srv[link[r].peer])
    /\ used.faults < scenario.faults
    /\ used' = [used EXCEPT !.faults = @ + 1]
    /\ Disconnect(r)

\* The replica finds that the master has closed the link; what was on its way
\* may be lost.
LinkClosed(r) ==
    /\ link[r].peer # None /\ r \notin Slaves(srv[link[r].peer])
    /\ Disconnect(r)
    /\ UNCHANGED used

LoadedNothing(s, snap) == [Unlink(s) EXCEPT !.data = <<>>, !.disk = snap]

\* rdbLoad() fails: the old data are gone, the snapshot is already dump.rdb.
LoadFails(r) ==
    /\ SnapshotArrives(r)
    /\ used.faults < scenario.faults
    /\ used' = [used EXCEPT !.faults = @ + 1]
    /\ srv' = [Detached(srv, r) EXCEPT ![r] = LoadedNothing(@, link[r].rdb)]
    /\ link' = [link EXCEPT ![r] = NoLink]

\* m is r or copies from r, directly or not.
CopiesFrom(m, r) ==
    LET up[n \in 0..Cardinality(Servers)] ==
          IF n = 0 THEN m ELSE IF up[n-1] = None THEN None ELSE srv[up[n-1]].masterhost
    IN  \E n \in DOMAIN up : up[n] = r

\* A master remembers itself, to go on with its former replica.
BecomesReplica(s, m) ==
    [disconnectSlaves(Unlink(s)) EXCEPT
        !.masterhost = m, !.repl_state = "connect",
        !.cached_master = IF s.masterhost = None
                          THEN [replid |-> s.replid, reploff |-> s.off] ELSE @]

\* REPLICAOF m.  Assumed of the operator: no server copies from itself in a circle.
replicationSetMaster(r, m) ==
    /\ srv[r].masterhost # m /\ ~CopiesFrom(m, r) /\ used.changes < scenario.changes
    /\ used' = [used EXCEPT !.changes = @ + 1]
    /\ srv' = [Detached(srv, r) EXCEPT ![r] = BecomesReplica(@, m)]
    /\ link' = CloseSlaves([link EXCEPT ![r] = NoLink], srv[r], Slaves(srv[r]))

BecomesMaster(s, id) ==
    [disconnectSlaves(shiftReplicationId(s, id)) EXCEPT
        !.masterhost = None, !.master = None, !.cached_master = None, !.repl_state = "none"]

\* REPLICAOF NO ONE.
replicationUnsetMaster(r) ==
    /\ srv[r].masterhost # None /\ used.changes < scenario.changes
    /\ used' = [used EXCEPT !.changes = @ + 1, !.ids = @ + 1]
    /\ srv' = [Detached(srv, r) EXCEPT ![r] = BecomesMaster(@, NewId)]
    /\ link' = CloseSlaves([link EXCEPT ![r] = NoLink], srv[r], Slaves(srv[r]))

\* loadDataFromDisk(): a replica goes on from the ID and offset in dump.rdb.
Started(s, id) ==
    LET resumes == s.masterhost # None /\ s.disk.info
    IN  [data |-> s.disk.data, disk |-> s.disk, masterhost |-> s.masterhost,
         replid |-> IF resumes THEN s.disk.replid ELSE id,
         off |-> IF resumes THEN s.disk.off ELSE 0,
         replid2 |-> None, second_replid_offset |-> -1, backlog |-> NoBacklog,
         master |-> None, master_initial |-> None, slaves |-> NoSlaves, bgsave |-> None,
         cached_master |-> IF resumes THEN [replid |-> s.disk.replid, reploff |-> s.disk.off]
                           ELSE None,
         repl_state |-> IF s.masterhost = None THEN "none" ELSE "connect"]

\* A crash and a new start with the same configuration.
Restart(r) ==
    /\ used.faults < scenario.faults
    /\ used' = [used EXCEPT !.faults = @ + 1, !.ids = @ + 1]
    /\ srv' = [Detached(srv, r) EXCEPT ![r] = Started(@, NewId)]
    /\ link' = CloseSlaves([link EXCEPT ![r] = NoLink], srv[r], Slaves(srv[r]))
-----------------------------------------------------------------------------
EmptyDisk == [data |-> <<>>, info |-> FALSE, replid |-> 0, off |-> 0]

Init ==
    /\ scenario \in Scenarios
    /\ LET id == CHOOSE f \in [Servers -> 1..Cardinality(Servers)] :
                    \A a, b \in Servers : f[a] = f[b] => a = b
       IN  srv = [s \in Running |->
                    Started([disk |-> EmptyDisk, masterhost |-> scenario.hosts[s]], id[s])]
    /\ link = [s \in Running |-> NoLink]
    /\ used = [ids |-> Cardinality(Servers), writes |-> 0, changes |-> 0, faults |-> 0,
               saves |-> 0]

Next ==
    /\ \E s \in Running :
        \/ Write(s) \/ Psync(s) \/ Receive(s) \/ LinkLost(s) \/ LinkClosed(s)
        \/ Save(s) \/ (\E ok \in BOOLEAN : BgsaveDone(s, ok))
        \/ FreeBacklog(s) \/ LoadFails(s) \/ Restart(s)
        \/ replicationUnsetMaster(s)
        \/ \E m \in Running \ {s} : replicationSetMaster(s, m)
    /\ UNCHANGED scenario

Spec == Init /\ [][Next]_vars

\* Every server goes on with what it has begun: replicationCron() and the event
\* loop try again and again.  Nothing is assumed of clients, operators, faults or
\* the backlog's time limit.
FairSpec ==
    /\ Spec
    /\ \A s \in Servers :
          /\ WF_vars(s \in Running /\ Psync(s) /\ UNCHANGED scenario)
          /\ WF_vars(s \in Running /\ Receive(s) /\ UNCHANGED scenario)
          /\ WF_vars(s \in Running /\ LinkClosed(s) /\ UNCHANGED scenario)
          /\ WF_vars(s \in Running /\ BgsaveDone(s, TRUE) /\ UNCHANGED scenario)
-----------------------------------------------------------------------------
(* Properties. *)

Attached(r) == /\ link[r].peer # None
               /\ srv[link[r].peer].slaves[r] \in {"wait_end", "online"}

\* The data set a replica will have when it has read what is on its way.
Ahead(r) ==
    (IF link[r].rdb = None THEN srv[r].data ELSE link[r].rdb.data) \o link[r].stream

\* A replica never diverges unnoticed: whatever links, servers, roles and
\* snapshots went through, what an attached replica holds together with what is on
\* its way to it is what its master holds (replication.c:448-544, 1052-1064,
\* 1562-1608, 2708-2736).
ReplicaFollows == \A r \in Running : Attached(r) => Ahead(r) = srv[link[r].peer].data

\* Offsets count the same writes at both ends, so that an offset one server
\* names means the same to another (replication.c:127-150, networking.c:1499-1512).
OffsetsAgree ==
    \A r \in Running : Attached(r) /\ srv[r].repl_state = "connected" =>
        /\ srv[r].master.reploff = srv[r].off
        /\ srv[r].off + Len(link[r].stream) = srv[link[r].peer].off

\* The backlog holds the last writes of the data set the server has, never those
\* of one it had before (replication.c:78-88, 1351, 1860-1861).
BacklogIsTail ==
    \A s \in Running : srv[s].backlog.on =>
        LET b == srv[s].backlog
            n == Len(srv[s].data)
        IN  /\ b.off + b.histlen = srv[s].off + 1
            /\ b.histlen <= n
            /\ BacklogFrom(srv[s], b.off) = SubSeq(srv[s].data, n - b.histlen + 1, n)

\* "We can't have slaves attached and no backlog" (replication.c:191-192, 1860-1861).
SlavesHaveBacklog == \A s \in Running : Slaves(srv[s]) # {} => srv[s].backlog.on

\* Once nobody interferes any more, every replica is connected and holds what its
\* master holds: no handshake, snapshot or closed link is waited for forever
\* (replication.c:629-764, 946-1027, 2578-2788).
Converges ==
    <>[](\A r \in Running : srv[r].masterhost # None =>
            /\ srv[r].repl_state = "connected"
            /\ srv[r].data = srv[srv[r].masterhost].data)
==============================================================================
