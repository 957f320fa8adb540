# A TLA+ verification of the web server and of three parts of Redis

The program is a small reactor-style web server in C++ (`src/code/webserver`):
a main thread that waits in `epoll_wait`, accepts clients and reads their
requests, and a thread pool whose workers parse them. The rest of the
repository is course material: lesson exercises, and a copy of Redis 5.0.10
(`src/code/lesson1.10/redis-5.0.10`) kept to be built. This project models the
server and, of Redis, the three parts whose interleavings are the hardest to
test: the failover of a cluster, replication, and the hash table that is
rehashed while it is in use.

## 1. Inventory

| part | state | operations | talks to |
|---|---|---|---|
| `locker`, `sem` (locker.h) | a mutex, a semaphore | lock, unlock, wait, post | pthreads; used by the pool |
| `threadpool<T>` (threadpool.h) | `m_workqueue`, `m_queuelocker`, `m_queuestat`, `m_stop`, `m_threads` | constructor, destructor, `append`, `worker`/`run` | `append` is called by the main thread, `run` calls `T::process()` |
| `http_conn` (http_conn.cpp) | the read buffer and its three indices, parser state, `m_linger`, `m_content_length`, `m_sockfd`; static `m_user_count` | `init`, `read`, `close_conn` (main thread), `process` (a worker), `write` (never reached) | sockets, epoll |
| epoll helpers (http_conn.cpp) | the kernel's interest list | `addfd`, `modfd`, `removefd` | kernel |
| main loop (main.cpp) | `users[MAX_FD]`, the event batch | epoll_wait, accept, hang-up and read handlers | all of the above |
| `cond`, `threadpool_merge/`, `threadpool_bug/` | | unused wrapper, copies of the pool | nobody |
| Redis cluster bus (cluster.c) | per node a `clusterState`: epochs, who serves which slot, who copies whom, the state of an election | packet handlers, `clusterCron`, `clusterBeforeSleep`, loading nodes.conf | the other nodes, by packets |
| Redis replication (replication.c, with networking.c and rdb.c) | per server: replication IDs and offset, circular backlog, state of each replica and of its own master, dump.rdb | write, PSYNC, +CONTINUE, +FULLRESYNC, loading, BGSAVE, REPLICAOF, cron | master and replicas, by TCP |
| Redis dict (dict.c) | two tables, `rehashidx`, `iterators` | add, delete, find, random key, scan, safe iterator, resize, rehash | every key space; server.c's cron |
| lessons, the rest of Redis | | | nobody |

What is hard here. `http_conn` has no lock: the main thread and the workers
share it, and only `EPOLLONESHOT` keeps them apart. `modfd` hands a connection
back while the worker is still inside `process`. Closed descriptors are handed
out again. `append` posts its semaphore after it unlocks, `run` waits before
it locks, and ignores a wait that was interrupted. The listening socket is edge
triggered. A request arrives in arbitrary segments. The queue, the buffer, the
descriptors and the user count all have limits. PROJECT.json lists each hazard
at its line.

In Redis a vote, a heartbeat or a correction may be late, lost or overtaken, and a
node may restart between a vote and the next request. A replica must know from an
ID and an offset alone whether it may go on where it left off, after any sequence
of failovers. A cursor handed to a client must stay good while the table is
resized under it.

What makes each part correct:

* pool: the list is only touched under the lock; no request is lost, duplicated
  or left in the queue with all workers asleep; front() is never called on an
  empty list; a backlog is worked off; the destructor stops the threads;
* connection: indices stay inside the buffer; how bytes are cut into segments
  and what a slot was used for before does not matter; the parsers accept the
  language they are meant to accept; a complete request is recognised; a client is
  disconnected only when it has gone;
* server: a connection is always in exactly one pair of hands; the user count
  never falls below the truth; data and hang-ups are always attended to; no
  client is left waiting;
* cluster: one winner per epoch; a replica serves nothing; when packets have
  settled all nodes agree on the owners;
* replication: an attached replica holds what its master holds, up to what is on its
  way; offsets and backlog describe the data; in the end everybody has the same;
* dict: a set of keys to its callers at every stage of a rehashing; scan and iterator
  miss no key that was there all the time; every key can be drawn.

## 2. Modules

| module | models | variables and actions |
|---|---|---|
| `WorkQueue` | what the pool promises: a bounded FIFO whose requests each go to one worker | `queue`, `running`; Submit, Start, Finish |
| `ThreadPool` | threadpool.h over locker.h, one step per lock, semaphore or list operation | the members under their own names, `pc` and `request` per thread; constructor (CreateThread, ConstructorThrows, ConstructorReturns), destructor (DestructorBody, MembersDestroyed), `append` (AppendCall ... AppendPost), `run` (RunTest ... RunProcess, RunInterrupted for EINTR) |
| `ThreadPoolProofs` | theorems about ThreadPool | |
| `HttpConn` | `http_conn` as operators on a record: `init`, `read`, `parse_line`, `parse_request_line`, `parse_headers`, `parse_content`, `process_read`, `process` | no variables |
| `ConnSlot` | one element of `users` over successive connections | `conn`, `sent`, `at`; Open, Receive, HangUp, Work |
| `HttpConnProofs`, `ConnSlotProofs` | what read() and process() do to a connection; theorems about ConnSlot | |
| `RequestText` | `parse_request_line` and `parse_headers` called line by line, over successive connections of one slot | `conn`, `left` (the `m_content_length` that `init` found), `text`, `headers`, `code`; Token, RequestLine, HeaderLine, Reuse |
| `RequestTextProofs` | theorems about RequestText | |
| `WebServer` | main.cpp composed with HttpConn (EXTENDS) and the pool (INSTANCE WorkQueue) | kernel side (`backlog`, `listenEdge`, `rx`, `peerGone`, `armed`), main thread (`batch`), connections (`users`, `open`, `m_user_count`), pool (`m_workqueue`, `running`, `stage`) |
| `WebServerProofs` | theorems about WebServer | |
| `ClusterFailover` | cluster.c: elections and the spreading of slot ownership | `cluster` (the views), `net`, `winners` and `carried` (history); Ping, SlowPing, ReceivePing, ReceiveUpdate, ReceiveRequest, ReceiveAck, Cron, MarkFailed, Restart |
| `ClusterFailoverProofs` | theorems about ClusterFailover | |
| `KeySet` | what a dict promises: a set of keys | `keys`, `reply`; Add, Delete, Find, Random, Empty |
| `Dict` | dict.c and what server.c's cron does to it | `d`, `child`, `reply`, `scan`, `iter`; one action per call of dict.c, databasesCron, updateDictResizePolicy |
| `DictProofs` | theorems about Dict | |
| `Replication` | replication.c: PSYNC, full resynchronization, failover, restart | `srv` (the fields of redisServer), `link`, `used` (bounds); Write, Psync, Receive, BgsaveDone, Save, FreeBacklog, LinkLost, LinkClosed, LoadFails, replicationSetMaster, replicationUnsetMaster, Restart |
| `ReplicationProofs` | theorems about Replication: offsets and backlogs; histories and data | |
| `MC*` | instances for TLC | |

`WebServer` uses the abstract `WorkQueue` instead of `ThreadPool`: that
`ThreadPool` implements it is model-checked and proved (section 5).

**ThreadPool.** A thread's `pc` is where it stands in `append` or `run`; a
producer's `request` is its argument, a worker's is the local of `run`. Workers
run as soon as `pthread_create` returns, before the constructor does. Once the
members are destroyed (`life` is "thrown" or "destroyed") every further step of
a worker would be undefined, and the model stops. The destructor runs only when
no caller is inside `append`: in main.cpp the same thread calls both.
`m_threads`, `printf` and the thread handles are left out.

**HttpConn.** The buffer is a sequence of tokens, each standing for bytes the
parser tells apart (the module header lists them), so `m_read_idx` is its
length. `m_version`, `m_method`, `m_host` and `m_address` are written and never
read. Reading past a buffer that is full to its last byte with no NUL is not
modelled: a string ends with the buffer. `read()` answers a set of outcomes, as
`recv` with length 0 may answer 0 or EAGAIN. `process_read` is the function
`loop`, one `Turn` per iteration of its loop; "FAULT" is the write through the null
pointer of `strpbrk`, "SPIN" a loop that never ends, "UNDEFINED" the missing
return of `do_request`. With the source's `parse_line` the machine never leaves
CHECK_STATE_REQUESTLINE, so the header and body code, though translated, is
only exercised at function level by `RequestText`. `init()` is the code's: it leaves
`m_content_length` alone. In `ConnSlot` a new slot holds any of `Garbage` there, and
`SegmentationIndependence` compares with a new slot that holds the same value, so it says
nothing about that field; in `RequestText` a slot begins with any of `Leftover` and `Reuse`
hands on what the last request left, which is what `HeaderFields` then counts with.

**WebServer.** A handler of the main thread is one action: `read()` and
`append()` of one event touch nothing another thread may hold, apart from the
queue, and the queue is atomic at this level. An element of `batch` is an event
epoll has reported; epoll fixes its kind at epoll_wait time and the order in
which the loop meets the events is left open. `armed` is the set of descriptors
whose one-shot event is live: `addfd` and `modfd` add to it, a report or
`close_conn` removes from it. The listening socket's edge is
`listenEdge`: set by each new client, cleared by the report. accept() gives the
lowest free descriptor; without one it fails, and the code's use of -1 as an
index either goes unnoticed or kills the process (`AfterStore`). A worker stands in
`stage` "parse" (process_read), "modfd" or "return"; from "return" on it no longer
touches the connection. EINTR of epoll_wait repeats the call and is not a step.
EPOLLOUT is never requested, so its branch and `write()` have no action.

**ClusterFailover.** Every node has its own `clusterState`; a handler is an operator
from that record and a packet to a new record and the packets it sends. Node IDs are
numbers, as cluster.c compares names. A heartbeat usually arrives at once (`Ping`); a
scenario names the nodes whose heartbeat, one at a time, may be delayed
(`SlowPing`, `ReceivePing`). Packets that are never received are lost. Requests are
broadcast and stay in `net`, so that each master reads one at any time, also twice.
Clocks are choices: whether a retry is due, an election has expired, a vote about
the same master is too recent or FAIL is old enough to be cleared. `saved` is the
current epoch in nodes.conf; the rest of what the file holds is saved in the same
turn of the event loop that changes it, before anything is sent. Votes may arrive at any
time and are counted as cluster.c counts them: by their epoch alone (2081-2084). The count
is reset when an election is planned (3053) and `failover_auth_epoch` changes when it is
announced (3115), so a late vote of the last election counts for one that is planned;
`carried` remembers the elections announced with such votes, and nothing but the
properties reads it. A node that restarts loses the packets on their way to it, as
its links are closed. Not modelled: handshakes, gossip and the agreement
that leads to FAIL (any suspect may be marked), manual failover, resharding and
replica migration.

**Dict.** The two tables with their buckets as sets of keys: within a chain only
membership matters, since additions go to the head and what an iterator has left to
return changes only by deletion of the entry it holds. `rev` and the cursor arithmetic
are those of dict.c on words of `Word` values. A command that holds an iterator runs
to its end without other clients or the cron, as Redis has one thread; it may add,
find, and delete the entry it was given. `databasesCron` moves any number of buckets,
as far as its millisecond goes. Values, unsafe iterators (which assert that nothing
changed) and dictGetSomeKeys are left out. `Emptied`, `Filled`, `With` and `Without` are
what the code does to one table: a rehashing step empties a run of buckets of the old
one and fills the new one with their keys, an addition and a deletion change one chain.

**Replication.** A data set is the sequence of the writes in it, and one write is one
unit of the stream and of the offsets. `link[r]` is the connection of replica r to
its master `peer`, with what is on its way: the `reply` to PSYNC, then the snapshot
`rdb`, then the writes of `stream`, always read in that order. The snapshot of a
replica that is still "wait_end" cannot be read yet: its BGSAVE is not done. Left out: diskless transfers, the handshake before
PSYNC, PING and SELECT in the stream, expiry, the append-only file. Assumed: both
ends of a link learn of its loss together (unless the master closes it); a server
keeps its configuration over a restart; operators build no circle of replicas;
getRandomHexChars() never repeats an ID. The extra BGSAVE start of replicationCron()
is not an action: in this model a replica waits for a start only while a save is
running, and the end of that save starts the next. Three further differences lose
no behaviour that matters to the properties. A replica that loads a snapshot does not kill
a save of its own that is running (replication.c:1284-1293): the model has behaviours
more, in which that save ends well or badly afterwards. A fork() that fails in
startBgsaveForReplication() is not a step of its own: a save that starts and fails has the
same effect on the replicas that wait for it. And a master's link is always cached when it is
lost, where freeClient() (networking.c:864) does not cache one that is marked to be closed
or is blocked: what follows there is the full resynchronization that an unknown ID leads
to as well.

## 3. Runs

| run | question | result |
|---|---|---|
| pool_safety | lock, list, wake-ups and refinement with 2 callers, 2 workers, limit 1; does a backlog drain once callers stop | holds |
| pool_stop | threads are stopped by the destructor (threadpool.h:85) | violated: it neither wakes nor joins them |
| conn_segments | indices, segmentation, no endless loop, over re-used slots; whom read() drops | holds: a client that is there is dropped only over a full buffer |
| conn_request | NO_REQUEST means an incomplete request (http_conn.h:47) | violated: `return LINE_OPEN` inside the loop of `parse_line` |
| request_text | what the two text parsers accept, against a declarative reading, on new and re-used slots | holds |
| server_safety | exclusive hand-over, nobody forgotten, count never too low; data is read and a hang-up closes in the end | holds |
| server_backlog | nobody waits unseen (main.cpp:78) | violated: one accept() per edge |
| server_overflow | nobody forgotten when the queue overflows (http_conn.cpp:36) | violated: the refused connection is never re-armed |
| cluster_failover | elections of two rival replicas of one of three masters: one winner per epoch of those decided by their own votes, replicas serve nothing, no split brain lasts | holds |
| cluster_late_votes | one winner per epoch (cluster.c:1052) | violated: a late vote counts for an election that is planned and not yet announced |
| dict | set of keys, cursor, iterator and random key over resizes | holds |
| replication | data, offsets and backlog of replicas; convergence | holds |

Bounds. pool: queue limit 1 reaches the off-by-one (two waiting) and the refusal;
two callers and two workers give every pairwise race; a null request is among
the requests; SEM_VALUE_MAX 3 lets the semaphore reach its maximum through
interrupted waits. connections: buffer of 4 tokens and segments of one or two
tokens fill the buffer exactly and overfill it. request_text: 6 tokens hold
every shape of `GET SP url SP HTTP/1.1` with an absolute or a two-token URL; lengths 0 and
1 in `Leftover` and in the headers give every way to inherit or replace one.
server: 2 client descriptors, `MAX_FD` 3, 2 workers: a descriptor limit below `MAX_FD`,
as in practice, so failed accepts push the count to `MAX_FD` and the full branch is
taken; three descriptors may be ready and `MAX_EVENT_NUMBER` is 2, which leaves events
for the next batch; two clients may wait in the backlog while the server is full. The read
buffer is one token, which keeps the liveness check of two workers affordable: a connection
is read, queued, parsed and re-armed once before it is full (a buffer of two holds as
well, in five times the time, and the theorems are for any size). No
symmetry is used, as liveness is checked. Deadlock is checked
everywhere but in `request_text`, where the null pointer is the end, in
`cluster_failover`, where packets that change nothing are no steps and a settled cluster
rests, and in `replication`, where everything may be said and done once the bounds are
used up.

cluster: three masters with a slot each, the first with two replicas: the smallest
cluster in which two of three votes elect and two replicas compete. The scenarios are
a master that is down for good with two rounds of elections, one election with a
restart of any node at any point, and a master that is only slow, whose old
heartbeat arrives after the failover. In the first, late votes let both replicas win the
same epoch, and `clusterHandleConfigEpochCollision` has to separate them (without it
`SettledAgree` fails, which is its mutant); the epoch it takes may lie above the last one
for elections, which bounds announcements only. There one vote or correction is on
its way at a time and no votes beyond the two that elect are counted (`Bounded`), which
leaves each packet free to be overtaken by heartbeats, requests and further elections;
without the bound the run holds as well, on half a million
states, but takes too long to be run often. dict: three keys and tables of 2, 4 and 8
buckets; tables grow from 2 to 4 and (after a save has kept them from growing) to
8, and shrink from 8 to 4 and 2 and from 4 to 2, so that a cursor survives both and
also a jump over one size; two keys collide in the smaller tables; a word of 3 bits
is what the largest table needs. A rehashing step looks at 2 empty buckets instead
of 10, so that it stops short. replication: a backlog of 2 writes wraps and loses
history with 3 writes; the scenarios are a pair, a star and a chain of three servers,
each with its own numbers of writes, changes of role, faults and saves (MCReplication
lists them).

Fairness. Weak fairness of every thread's own steps: the pthread scheduler runs
what can run. In WebServer also strong fairness of each descriptor's report (`Reports`):
the kernel's ready list is first-in first-out, so that a descriptor that is ready again and
again is not passed over for ever by batches that are too small.
Nothing is assumed of callers, clients, signals, failing calls or of who gets a contended mutex. In Replication: weak fairness of connecting, of reading
the link, of noticing that it is closed and of the end of a BGSAVE, which the event
loop and replicationCron() (once a second) try again for ever; writes, operators,
faults and the backlog's time limit are not fair.

## 4. What the violations mean

They are in PROJECT.json under findings, each with the line of the source it
contradicts. The one with the widest effect is conn_request: the server as
committed never gets past the first line of any request.

cluster_late_votes is two elections. In the first the two voting masters divide their votes,
and both votes are late: each reaches its replica after that has planned the next election
and before it announces it, and counts for the next one. There the masters divide
their votes again, each replica has the two it needs, and both win the same epoch. The cluster
recovers, as `SettledAgree` shows: the collision handler, whose comment calls the case impossible for elections, is what resolves it.

Four smaller ones show in the properties that hold: `ListCallsAreDefined` allows
one request more than the `m_max_requests` that threadpool.h:29 calls the most, because
append() tests with `>`; `NeverUndercounts` is an inequality, because an accept()
that fails is counted by init() as a user (http_conn.h:25) and never taken back;
`DroppedOnlyWhenFull` has to except the full buffer, because read() there asks recv() for 0 bytes and takes
the 0 for a client that has closed the connection (http_conn.cpp:85, 94, 103),
so a client that sends as much as the buffer holds may be disconnected before its bytes are looked at; and `HeaderFields` counts from
what the slot held before, because `init()` does not reset `m_content_length`: on a re-used
slot a request that announces no body waits for the one that the request before it announced
(http_conn.cpp:213, 219). As the header code is out of reach in the committed server, the
last shows once `parse_line` is repaired.

## 5. Proofs

`ThreadPoolProofs` proves, for any finite sets of callers and workers, any limit and
any larger semaphore maximum (`PoolAssumption`):

* `TypeCorrect`, `MutualExclusion`, `ListCallsDefined`, `WakeupsNotLost`: the four
  invariants of pool_safety;
* `Refinement`: the pool implements `WorkQueue`.

The inductive invariant is `IInv`: the four properties and `SizeWasChecked`, that a caller
about to push saw at most `m_max_requests` requests. The last is needed because the size
test and the push are two steps; it stays true because the lock keeps other callers
out and workers only shorten the list. `NoLostWakeup` needs the cardinality facts of
`CountFacts`: each step moves one thread in or out of Woken or Posting, or changes
the semaphore or the list by one. EINTR adds a worker to Woken without taking a
count, so the inequality is not an equality; a semaphore stuck at SEM_VALUE_MAX is
harmless since the list is never that long. The refinement maps each pool step to
Submit (push), Start (take), Finish (null request or process) or a stutter.

`WebServerProofs` proves, for any set of descriptors, any workers, limits and batch
size (`ServerAssumption`):

* `TypeCorrect`;
* `CountIsSafe`: `m_user_count` is between the open connections and `MAX_FD`;
* `Exclusive`: `OneHolder`, that one-shot events alone keep two threads off a connection;
* `NoConnectionForgotten`: `NotForgotten`, if the queue has room for every descriptor
  (`Cardinality(Fds) <= m_max_requests + 1`). The hypothesis is needed: run server_overflow
  is the counterexample without it. In the program `MAX_FD` is
  65535 and the queue limit 10000, so it holds only where the process may have at most
  10001 client descriptors, as under the usual limit of 1024.

The first three hold whatever read() and process() do inside a connection. Their
inductive invariant adds `Hands` to the type invariant and `NeverUndercounts`:
`BatchHands`, `QueueHands` and `WorkerHands` say of each place that may touch a
connection that it excludes the others, which `OneHolder` then sums up. It needs that
events of a batch are of different descriptors, that the queue has no repetition, and
that a worker past modfd() is no longer a holder: it may be, with its connection already
queued again. The type invariant needs the count, as close_conn() may only decrement a
positive one. `NotForgotten` needs `Cared` as well: while the server runs, no object in
`users` has got past its first line (`Unparsed`), so that process() re-arms it, and every
open connection is in some hand. That append() never refuses follows from `Hands`: a
queue without repetition that lacks a descriptor is shorter than the set of descriptors.

`HttpConnProofs` says what the operators of HttpConn compute on an `Unparsed` connection,
for any buffer size and any tokens: read() appends and keeps the bound; parse_line() finds
a line break at the front, or leaves the index where it was; process_read() ends with
its first turn, so that process() re-arms the connection as it is or faults; and init()
makes any object such a connection. `ConnSlotProofs` derives for a slot over any sequence of connections
(`ConnAssumption`, `SlotAssumption`: a buffer of at least one byte, arbitrary segments):

* `AlwaysRearms`, `IndicesInBuffer`: `ProcessRearms` and `ParserIndices`;
* `SegmentsDoNotMatter`: `SegmentationIndependence`, because after each process() that
  re-arms the connection is what one read() of everything sent would have made of it
  (`ReadAtOnce`);
* `OnlyFullBuffersDrop`: `DroppedOnlyWhenFull`, because without a hang-up read() answers
  false only when it has or finds no room left (`ReadFailsWhenFull`), and a buffer without
  room never answers true to more bytes.

These are theorems about the program as committed, in which `parse_line` never accepts a
line that does not stand at the front of the buffer (run conn_request): `Unparsed` would
not be invariant of a server without that fault, and the proof would have to be redone.

`RequestTextProofs` proves the two invariants of request_text with no assumption on the tokens,
the lines, their number, what a slot holds at first or how often it is used again:

* `LinesByGrammar`: `RequestLineGrammar`; the two searches for a blank and the comparisons that
  parse_request_line() makes in turn (`Accepted`) are together the grammar (`AcceptedLines`),
  because the first blank is where the search stops (`FirstIsLeast`, `OnlyFirst`), and UrlOf()
  cuts a url down to its path (`UrlIsPath`);
* `HeadersAddUp`: `HeaderFields`; each parse_headers() adds to the two fields what its line says
  (`HeaderParsed`), as the declarative reading does (`LengthOfAppend`). Without a Content-Length
  the length is what `init()` found in the slot (`left`), not 0: `InitIsNew` says what `init()`
  sets, and `m_content_length` is not in it.

These two do not depend on the fault in `parse_line`: they are about the parsers called on
lines, as a repaired `parse_line` would call them.

`DictProofs` proves, for any finite set of keys, any hash function and any initial size,
thresholds and word size (`DictAssumption`), all properties of Dict, and for `ScanComplete` also
assumes what the cursor is made for (`CursorAssumption`: the initial size and the word
are powers of two, as `DICT_HT_INITIAL_SIZE` and an unsigned long are, and no more keys are
there than half the values of a cursor, so that no table has more buckets than a cursor counts):

* `TypeCorrect`: each key is in one bucket of one table, the bucket its hash asks for;
* `EveryKeyDrawn`: dictGetRandomKey() can return each key, also half-way through a
  rehashing, where it draws a bucket of both tables beyond `rehashidx`;
* `WalkIsComplete`, `WalkReturnsOnce`: a safe iterator returns what was there all the
  time, and nothing twice;
* `DictIsKeySet`: Dict implements `KeySet`;
* `ScanMissesNothing`: a SCAN that is over has returned every key that was there from its
  first call to its last, over any sequence of resizes.

The invariant is `DictOK` (the two tables are disjoint, placed and counted; while
rehashing the old one is empty up to `rehashidx`; otherwise the second is the empty
table) and, while an iterator is open, `WalkOK`: a key that stayed is returned, left in
the current chain, or in a bucket to come (`Later`), and what was returned is in neither of the
other two. It rests on one fact about each operator that changes a table: `dictRehash`,
`dictExpand`, `dictAdd` and `dictGenericDelete` keep `DictOK`, and what they do to the set
of keys. `WalkOK` survives additions and deletions because the iterator pauses the
rehashing: no bucket behind it is moved in front of it. A key finds its bucket by the remainder of
its hash, so that part of the argument never looks at bits.

The invariant of `ScanMissesNothing` is `ScanInv`: with the above, every size is 0 or a power of
two that the word holds (`SizesOK`), and a key that the SCAN still owes has a hash whose reversed
bits are not below those of the cursor (`ScanOK`). Nothing in it speaks of the size of a table, which
is why it survives every resize. The keys of one bucket of a table of 2^a buckets are
a block of consecutive numbers among the reversed hashes (`RevBlocks`), and adding 1 to the
reversed cursor above the mask goes to the end of the block (`CursorStep`); with two
tables the call goes on over the blocks of the larger one that make up the block of the
smaller (`ExpansionCovers`). That loop is a recursive function over cursors: that it is well
defined (`GoExists`) and what it covers (`GoCovers`) are proved by induction along the reversed
cursors, from the last one back, and what reversing does to the bits of a number by induction on
their number (`LowBits`, `HighBits`, `ReverseExists`). No step but Scan itself moves the
cursor, and the others only take keys away from what it owes.

`ReplicationProofs` proves the four invariants of Replication for
any finite set of servers, any backlog size and any scenario, thus any numbers of writes,
changes of role, faults and saves (`ReplicationAssumption`):

* `BacklogIsTheTail`, `SlavesNeedBacklog`, `OffsetsMeanTheSame`: `BacklogIsTail`,
  `SlavesHaveBacklog`, `OffsetsAgree`;
* `ReplicasNeverDiverge`: `ReplicaFollows`, the promise of the whole protocol.

The first three follow from `IInv`, in three layers: `ServerOK` relates the fields of one
server (role, state of the connection, offsets of master and cached master, backlog, which
is `BacklogOK`, the circular buffer as the end of the data set); `LinkOK` says what may be
on its way in each state of the replica; `Follows` relates what a master has noted of a
replica to the replica's end, with the offsets that add up. Each action has a lemma that
gives the fields it changes, so that the case analysis is about fields and not records.

`ReplicaFollows` does not follow from these: that a replica may go on after `+CONTINUE` is
decided by an ID and an offset, so the proof must know what an ID means everywhere. `HInv`
says: there is a history for each replication ID (`H`, a witness of the proof, no variable
of the model), namely the writes made under it and the offset before the first, such that whatever
a server, a snapshot, dump.rdb, a second ID or a link holds under an ID and an offset is
the beginning of that history that the offset measures (`Known`). A write by a master
extends its history by one (no two masters write the same history, `PairKnows`); a change
of ID begins a history that contains the old one up to the offset at that time, which is
the reason for `second_replid_offset`. The `owner` of a history is for a case that TLC
reaches and a first attempt misses: a server without a backlog that was promoted and then
demoted keeps itself as its cached master under an ID that no other server has ever
heard, so nobody can go on from it. From `HInv` two holders of an ID with equal offsets
hold the same data, and with `Follows` this is `ReplicaFollows`.

`ClusterFailoverProofs` proves the three invariants of ClusterFailover for any finite set of
nodes, any slots and any bounds on epochs, delayed heartbeats and restarts
(`ClusterAssumption`: slots begin with masters):

* `ReplicasAreEmpty`: `ReplicasServeNothing`, of every behaviour of the specification;
* `OneWinner`: `OneWinnerOfOwnVotes`, when one master has crashed: a single node is ever
  reported as failing (`OneSuspect`) and it is down (`Crashed`). Votes may be as late as
  they like; elections announced with late votes already counted (`carried`) are not spoken of,
  since for them it is false (run cluster_late_votes);
* `FailoverSettles`: `SettledAgree` in every state in which `OneWinnerPerEpoch` holds, when
  one master has crashed and the masters began with different config epochs
  (`DistinctEpochs`).

The first two scenarios of cluster_failover satisfy the three hypotheses. `ReplicasAreEmpty`
rests on `NothingServed`, which each packet handler keeps: a node becomes a replica in
`clusterSetMaster` only, after its last slot is gone.

For `OneWinner` the invariant has four parts. `TypeOK`. `ViewInv`: only the lost slots change
hands, all of them together; the other masters with slots (`Voters`) remain masters in every
view; a node that is still a replica of the crashed master has not seen the lost slots move,
so every candidate counts the same electorate. `EpochInv`: a vote and the epoch of an
election are never newer than what nodes.conf holds, hence a restart forgets neither, and
no request or vote on its way is newer than the election its candidate has announced.
`BallotInv`: there is a set of votes `<<voter, epoch, candidate>>` (a witness, no variable of
the model) with at most one for each voter and epoch, in which every acknowledgement on its
way has its vote, every election that is not in `carried` has counted as many votes of its own
epoch as its count says, and every winner that is not in `carried` has a majority of `Voters`.
A late vote that is read after the announcement is older than `failover_auth_epoch` and
is not counted; one that is read before it makes the count differ from 0 at the announcement,
which puts the election into `carried`. Two majorities share a voter
(`MajoritiesMeet`), who voted once.

For `FailoverSettles` two parts are added. `AboveInv`: elections are held for epochs greater
than any config epoch at the start. `AgreeInv`: a node has the config epoch it began with or
the epoch of its one election; every view of the lost slots names the crashed master or
a winner; a winner that is still master has all of them and steps down only for a later
winner; the claims in packets are of the same kind. As long as no epoch has two winners
(`winners` only grows, `WinnersGrow`, so this held in every earlier state too) two masters never
have the same config epoch, and `clusterHandleConfigEpochCollision` changes nothing. That
no heartbeat would change anything then means that every node has heard of the latest winner
(`NothingToLearn`, `SettledOwner`), which is agreement. TLC checked `AgreeInv` on the first two
scenarios before it was proved.

The hypotheses are not for convenience. When the suspect is alive and slow (the third scenario),
it is still a master with a view of its own and comes back with old claims; with two masters
suspected at the same time, views differ in who the masters are, and so does the majority
that each candidate needs. Neither is claimed; the third scenario is model-checked.

Induction over data cannot be done with an operator as parameter. What stands in for it is
that a set of numbers with an element has a least one (`LeastNumber` in `DictProofs` and
`HttpConnProofs`), used for the first bucket that is not empty, the size that
_dictNextPower() stops at and the turns of process_read(), and what follows from it for a set of
numbers that has 0 and with each number the next one (`AllNumbers`): an induction whose
hypothesis is written as that set. That 2^(a+b) is 2^a * 2^b comes from counting subsets
(`PowersOfTwo`, `PowerSum`).

Only model-checked:

* liveness (`BacklogDrains`, `ClientsAttended`, `Converges`): fairness is outside the
  prover's reach;
* `OneWinnerOfOwnVotes` and `SettledAgree` when the suspected master is alive;
* `SettledAgree` after two replicas have won the same epoch.

## 6. Not modelled, and the plan

Not modelled: `cond` and the two copies of the pool (unused), the lessons (unrelated
exercises), argument parsing and socket set-up, wording of logs, the last moments of the
process after epoll_wait fails. Of Redis, everything but the three parts above: it is
third-party code of some 95,000 lines, most of it sequential commands on data types,
encodings, scripting, tools and allocators, whose tests reach what a model would.

Plan, in order:

1. done: WorkQueue, ThreadPool, HttpConn, ConnSlot, RequestText, WebServer, ClusterFailover,
   KeySet, Dict, Replication; proofs about all of them.
2. `OneWinner` and `FailoverSettles` for a suspected master that is alive, which needs an
   account of the claims it still makes; `FailoverSettles` after two replicas have won one
   epoch, which needs an account of the epochs that the collision handler takes.
3. Further parts of Redis: Sentinel's election of a leader and its failover, the rewrite
   of the append-only file with its pipe to the child, blocked clients.
4. WebServer over the fine-grained ThreadPool on a small instance, in place of WorkQueue.
