------------------------------ MODULE WebServer ------------------------------
(***************************************************************************)
(* main.cpp: the epoll loop of the main thread, the connections it hands   *)
(* to the pool's workers, and the workers that parse them and re-arm their *)
(* descriptors.  The pool is WorkQueue, which ThreadPool implements; the   *)
(* connection is HttpConn.  Clients and the kernel's side of epoll (edge   *)
(* triggered listening socket, one-shot connections) are the environment.  *)
(***************************************************************************)
EXTENDS HttpConn, FiniteSets

CONSTANTS
    listenfd,
    Fds,                \* descriptors the process may get for its clients
    MAX_FD,
    MAX_EVENT_NUMBER,
    Workers,
    Idle,               \* a worker with no request
    m_max_requests,
    Tokens,             \* what clients send
    MaxBacklog,         \* bound: the 5 of listen()
    MaxRx               \* bound: tokens waiting in a socket

ASSUME ServerAssumption ==
    /\ Fds \subseteq Nat /\ IsFiniteSet(Fds)
    /\ listenfd \in Nat \ Fds
    /\ Idle \notin Fds
    /\ MAX_FD \in Nat \ {0} /\ MAX_EVENT_NUMBER \in Nat \ {0}
    /\ m_max_requests \in Nat \ {0}
    /\ MaxBacklog \in Nat /\ MaxRx \in Nat

VARIABLES
    mode,           \* "serving", "exited" (after the loop) or "crashed"
    backlog,        \* clients that wait to be accepted
    listenEdge,     \* the listening socket has an edge epoll has not reported
    rx,             \* per descriptor: data in the socket
    peerGone,       \* descriptors whose peer has closed
    armed,          \* descriptors whose one-shot event epoll may report
    batch,          \* events of the last epoll_wait() still to be handled
    users,          \* the http_conn objects
    open,           \* descriptors whose object has m_sockfd # -1
    m_user_count,
    m_workqueue, running,   \* the pool
    stage           \* where a worker stands in process()

kernel == <<backlog, listenEdge, rx, peerGone, armed>>
conns == <<users, open, m_user_count>>
pool == <<m_workqueue, running, stage>>
vars == <<mode, kernel, batch, conns, pool>>

Pool == INSTANCE WorkQueue WITH
            Requests <- Fds, Capacity <- m_max_requests + 1, queue <- m_workqueue

Init ==
    /\ mode = "serving"
    /\ backlog = 0 /\ listenEdge = FALSE
    /\ rx = [fd \in Fds |-> <<>>]
    /\ peerGone = {} /\ armed = {} /\ batch = {}
    /\ users = [fd \in Fds |-> RawConn(0)]
    /\ open = {} /\ m_user_count = 0
    /\ Pool!Init
    /\ stage = [w \in Workers |-> "wait"]
-----------------------------------------------------------------------------
(* Clients. *)

Connect ==
    /\ mode = "serving" /\ backlog < MaxBacklog
    /\ backlog' = backlog + 1
    /\ listenEdge' = TRUE
    /\ UNCHANGED <<mode, rx, peerGone, armed, batch, conns, pool>>

Send(fd, t) ==
    /\ mode = "serving" /\ fd \in open \ peerGone /\ Len(rx[fd]) < MaxRx
    /\ rx' = [rx EXCEPT ![fd] = Append(@, t)]
    /\ UNCHANGED <<mode, backlog, listenEdge, peerGone, armed, batch, conns, pool>>

Hangup(fd) ==
    /\ mode = "serving" /\ fd \in open \ peerGone
    /\ peerGone' = peerGone \cup {fd}
    /\ UNCHANGED <<mode, backlog, listenEdge, rx, armed, batch, conns, pool>>
-----------------------------------------------------------------------------
(* epoll_wait(). *)

Event(fd, kind) == [fd |-> fd, kind |-> kind]
ListenEvent == Event(listenfd, "IN")

\* What epoll has to report; a hang-up is reported with or without data.
Ready ==
    {ListenEvent : x \in {y \in {listenfd} : listenEdge /\ backlog > 0}}
    \cup {Event(fd, IF fd \in peerGone THEN "HUP" ELSE "IN") :
             fd \in {f \in armed : rx[f] # <<>> \/ f \in peerGone}}

\* Mutant: addfd() and modfd() without EPOLLONESHOT.
StillArmed(events) == armed

\* A reported one-shot descriptor is silent until modfd().
ArmedAfter(events) == {fd \in armed : \A e \in events : e.fd # fd}

\* An EINTR only makes the loop call again.
EpollWait ==
    /\ mode = "serving" /\ batch = {} /\ Ready # {}
    /\ batch' \in SUBSET Ready
    /\ Cardinality(batch') = IF Cardinality(Ready) <= MAX_EVENT_NUMBER
                             THEN Cardinality(Ready) ELSE MAX_EVENT_NUMBER
    /\ armed' = ArmedAfter(batch')
    /\ listenEdge' = (listenEdge /\ ListenEvent \notin batch')
    /\ UNCHANGED <<mode, backlog, rx, peerGone, conns, pool>>

\* Any other error ends the loop and the program.
EpollFailure ==
    /\ mode = "serving" /\ batch = {}
    /\ mode' = "exited"
    /\ UNCHANGED <<kernel, batch, conns, pool>>
-----------------------------------------------------------------------------
(* A listening event: one accept(), whatever the backlog. *)

Free == Fds \ open

\* addfd() with one_shot and modfd() make epoll report fd once more, at once if
\* it is ready; removefd() makes it forget fd.
addfd(fd) == armed' = armed \cup {fd}
modfd(fd) == armed' = armed \cup {fd}
removefd(fd) == armed' = armed \ {fd}

\* A store to users[i] outside the array either goes unnoticed or is fatal.
AfterStore(i) == IF 0 <= i /\ i < MAX_FD THEN {"serving"} ELSE {"serving", "crashed"}

Take(e) ==
    /\ mode = "serving" /\ e \in batch
    /\ batch' = batch \ {e}

\* Mutants: init() that does not count, a full server that is not noticed.
NotCounted == UNCHANGED m_user_count
FullNever == FALSE

Counted == m_user_count' = m_user_count + 1
Full == m_user_count >= MAX_FD

\* accept() gives the lowest free descriptor.
AcceptClient ==
    /\ Take(ListenEvent) /\ ~Full
    /\ backlog > 0
    /\ \E connfd \in Free :
         /\ \A fd \in Free : connfd <= fd
         /\ mode' \in AfterStore(connfd)
         /\ open' = open \cup {connfd}
         /\ addfd(connfd)
         /\ users' = [users EXCEPT ![connfd] = init(@)]
    /\ Counted
    /\ backlog' = backlog - 1
    /\ UNCHANGED <<listenEdge, rx, peerGone, pool>>

\* accept() fails, which is not looked at: users[-1].init() counts a client.
AcceptFails ==
    /\ Take(ListenEvent) /\ ~Full
    /\ backlog = 0 \/ Free = {}
    /\ mode' \in AfterStore(-1)
    /\ Counted
    /\ UNCHANGED <<kernel, users, open, pool>>

\* The client is closed at once, if accept() got one.
AcceptFull ==
    /\ Take(ListenEvent) /\ Full
    /\ backlog' = IF Free = {} \/ backlog = 0 THEN backlog ELSE backlog - 1
    /\ UNCHANGED <<mode, listenEdge, rx, peerGone, armed, conns, pool>>
-----------------------------------------------------------------------------
(* The events of a connection. *)

\* close_conn(): EPOLL_CTL_DEL, close(), m_sockfd = -1, one user less.
CloseConn(fd) ==
    IF fd \in open
    THEN /\ open' = open \ {fd}
         /\ removefd(fd)
         /\ m_user_count' = m_user_count - 1
         /\ rx' = [rx EXCEPT ![fd] = <<>>]
         /\ peerGone' = peerGone \ {fd}
    ELSE UNCHANGED <<open, armed, m_user_count, rx, peerGone>>

\* Mutant: a hang-up is logged and the descriptor kept.
HandleHupLog(fd) ==
    /\ Take(Event(fd, "HUP"))
    /\ UNCHANGED <<mode, kernel, conns, pool>>

HandleHup(fd) ==
    /\ Take(Event(fd, "HUP"))
    /\ CloseConn(fd)
    /\ UNCHANGED <<mode, backlog, listenEdge, users, pool>>

\* read() fails: end of the stream, error or full buffer.
HandleInCloses(fd) ==
    /\ Take(Event(fd, "IN"))
    /\ \E o \in read(users[fd], rx[fd], fd \in peerGone) :
         ~o.ok /\ users' = [users EXCEPT ![fd] = o.conn]
    /\ CloseConn(fd)
    /\ UNCHANGED <<mode, backlog, listenEdge, pool>>

\* append(): its result is not looked at.
AppendConn(fd) ==
    IF Len(m_workqueue) > m_max_requests THEN UNCHANGED <<m_workqueue, running>>
    ELSE Pool!Submit(fd)

\* read() has drained the socket.
HandleInReads(fd) ==
    /\ Take(Event(fd, "IN"))
    /\ \E o \in read(users[fd], rx[fd], fd \in peerGone) :
         o.ok /\ users' = [users EXCEPT ![fd] = o.conn]
    /\ rx' = [rx EXCEPT ![fd] = <<>>]
    /\ AppendConn(fd)
    /\ UNCHANGED <<mode, backlog, listenEdge, peerGone, armed, open, m_user_count, stage>>

MainStep ==
    \/ EpollWait \/ AcceptClient \/ AcceptFails \/ AcceptFull
    \/ \E fd \in Fds : HandleHup(fd) \/ HandleInCloses(fd) \/ HandleInReads(fd)
-----------------------------------------------------------------------------
(* A worker: run() takes a connection and calls its process(). *)

WorkerTakes(w) ==
    /\ mode = "serving"
    /\ Pool!Start(w)
    /\ stage' = [stage EXCEPT ![w] = "parse"]
    /\ UNCHANGED <<mode, kernel, batch, conns>>

WorkerParses(w) ==
    /\ mode = "serving" /\ stage[w] = "parse"
    /\ \E o \in process(users[running[w]]) :
         /\ users' = [users EXCEPT ![running[w]] = o.conn]
         /\ stage' = [stage EXCEPT ![w] = CASE o.ret = "rearm" -> "modfd"
                                            [] o.ret = "SPIN" -> "parse"
                                            [] OTHER -> "return"]
         /\ mode' = IF o.ret = "FAULT" THEN "crashed" ELSE mode
    /\ UNCHANGED <<kernel, batch, open, m_user_count, m_workqueue, running>>

\* Mutant: process() returns without modfd().
WorkerForgets(w) ==
    /\ mode = "serving" /\ stage[w] = "modfd"
    /\ stage' = [stage EXCEPT ![w] = "return"]
    /\ UNCHANGED <<mode, kernel, batch, conns, m_workqueue, running>>

\* modfd(): from here on the main thread may handle the connection again, and
\* another worker get it, before this worker is back in run().
WorkerRearms(w) ==
    /\ mode = "serving" /\ stage[w] = "modfd"
    /\ modfd(running[w])
    /\ stage' = [stage EXCEPT ![w] = "return"]
    /\ UNCHANGED <<mode, backlog, listenEdge, rx, peerGone, batch, conns, m_workqueue, running>>

WorkerReturns(w) ==
    /\ mode = "serving" /\ stage[w] = "return"
    /\ Pool!Finish(w)
    /\ stage' = [stage EXCEPT ![w] = "wait"]
    /\ UNCHANGED <<mode, kernel, batch, conns>>

WorkerStep(w) ==
    WorkerTakes(w) \/ WorkerParses(w) \/ WorkerRearms(w) \/ WorkerReturns(w)
-----------------------------------------------------------------------------
Ended == mode # "serving" /\ UNCHANGED vars

Next ==
    \/ Connect \/ EpollFailure \/ Ended
    \/ \E fd \in Fds : Hangup(fd) \/ \E t \in Tokens : Send(fd, t)
    \/ MainStep
    \/ \E w \in Workers : WorkerStep(w)

Spec == Init /\ [][Next]_vars

\* epoll_wait() reports fd.
Reports(fd) == EpollWait /\ \E e \in batch' : e.fd = fd

\* The main thread and every worker keep running, and the kernel reports ready
\* descriptors in turn, so that none that is ready again and again is passed over for
\* ever.  Nothing is assumed of clients or of epoll_wait() failing.
FairSpec ==
    /\ Spec /\ WF_vars(MainStep)
    /\ \A w \in Workers : WF_vars(WorkerStep(w))
    /\ \A fd \in Fds : SF_vars(Reports(fd))
-----------------------------------------------------------------------------
(* Properties. *)

\* Every variable has its type.
TypeOK ==
    /\ mode \in {"serving", "exited", "crashed"}
    /\ backlog \in 0..MaxBacklog /\ listenEdge \in BOOLEAN
    /\ rx \in [Fds -> Seq(Tokens)] /\ peerGone \subseteq open
    /\ armed \subseteq open /\ open \subseteq Fds
    /\ batch \subseteq [fd : Fds \cup {listenfd}, kind : {"IN", "HUP"}]
    /\ DOMAIN users = Fds
    /\ m_user_count \in 0..MAX_FD
    /\ m_workqueue \in Seq(Fds)
    /\ running \in [Workers -> Fds \cup {Idle}]
    /\ stage \in [Workers -> {"wait", "parse", "modfd", "return"}]
    /\ \A w \in Workers : running[w] = Idle <=> stage[w] = "wait"

\* The places that may touch connection fd next: epoll, the main thread's
\* batch, a place in the queue, a worker inside process().
Holders(fd) ==
    {<<"epoll", 0>> : x \in {fd} \cap armed}
    \cup {<<"batch", e.kind>> : e \in {d \in batch : d.fd = fd}}
    \cup {<<"queue", i>> : i \in {j \in DOMAIN m_workqueue : m_workqueue[j] = fd}}
    \cup {<<"worker", w>> : w \in {v \in Workers :
                /\ running[v] = fd /\ stage[v] \in {"parse", "modfd"}}}

\* An http_conn has no lock: one-shot events alone keep the main thread and the
\* workers off each other.  A connection is in at most one of the places that
\* may touch it, and a closed one (whose descriptor accept() may hand out
\* again) in none (main.cpp:112-128, http_conn.cpp:54, 312).
OneHolder ==
    \A fd \in Fds :
        /\ fd \notin open => Holders(fd) = {}
        /\ \A g, h \in Holders(fd) : g = h

\* While append() accepts, no open connection is forgotten: somebody is always
\* going to read it, parse it or close it.  modfd() is there to make sure that
\* the next data is seen (http_conn.cpp:36).
NotForgotten ==
    mode = "serving" => \A fd \in open : Holders(fd) # {}

\* m_user_count never falls below the number of open connections, so a server
\* that is full refuses clients (main.cpp:104, http_conn.cpp:55, 80).
NeverUndercounts ==
    Cardinality(open) <= m_user_count /\ m_user_count <= MAX_FD

\* A client that has sent data or hung up is attended to, whatever the server
\* is busy with: its data is read, and once it has hung up its connection is
\* closed (main.cpp:114-127, http_conn.cpp:93-107, 312).
ClientsAttended ==
    \A fd \in Fds :
        (rx[fd] # <<>> \/ fd \in peerGone)
            ~> (fd \notin open \/ (rx[fd] = <<>> /\ fd \notin peerGone) \/ mode # "serving")

\* main.cpp:78 says that epoll watches several clients at once: when nothing is
\* left to report, no client is left waiting to be accepted.
NobodyLeftWaiting ==
    mode = "serving" /\ batch = {} /\ Ready = {} => backlog = 0
==============================================================================
