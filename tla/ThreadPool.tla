------------------------------ MODULE ThreadPool -----------------------------
(***************************************************************************)
(* threadpool<T> of threadpool.h over the locker and sem wrappers of       *)
(* locker.h, at the grain of one lock, semaphore or list operation per     *)
(* step.  Producers call append(); Workers are the detached threads that   *)
(* execute run().  threadpool_merge/ and threadpool_bug/ hold the same     *)
(* class.                                                                  *)
(***************************************************************************)
EXTENDS Integers, Sequences, FiniteSets

CONSTANTS
    Producers,       \* threads that call append(); main.cpp has one
    Workers,         \* the thread_number threads of m_threads
    Requests,        \* the T* values passed to append()
    NULL,            \* the null T*
    Idle,            \* "no request": the local of a thread between calls
    NoThread,        \* the mutex is free
    m_max_requests,
    SEM_VALUE_MAX    \* where sem_post stops counting (EOVERFLOW)

Threads == Producers \cup Workers

\* The constructor throws unless both numbers are positive; SEM_VALUE_MAX is
\* 2^31 - 1 on Linux and m_max_requests 10000 in main.cpp.
ASSUME PoolAssumption ==
    /\ IsFiniteSet(Producers) /\ IsFiniteSet(Workers)
    /\ Workers # {}
    /\ Producers \cap Workers = {}
    /\ NoThread \notin Threads
    /\ Idle \notin Requests
    /\ m_max_requests \in Nat \ {0}
    /\ SEM_VALUE_MAX \in Nat /\ SEM_VALUE_MAX > m_max_requests

VARIABLES
    life,            \* of the pool object: see Lives
    m_workqueue,     \* std::list<T*>
    m_queuelocker,   \* the thread that holds the mutex, or NoThread
    m_queuestat,     \* value of the semaphore
    m_stop,
    pc,              \* where each thread stands in append() or run()
    request          \* each thread's argument (append) or local (run)

vars == <<life, m_workqueue, m_queuelocker, m_queuestat, m_stop, pc, request>>

Lives == {"constructing", "ready", "stopping", "thrown", "destroyed"}
ProducerPCs == {"idle", "lock", "check", "push", "unlock", "refuse", "post"}
WorkerPCs == {"unborn", "test", "wait", "lock", "check", "take", "unlock",
              "skip", "process", "exited"}

\* The members exist: past this every step of a worker is undefined in C++.
Alive == life \in {"constructing", "ready", "stopping"}

Goto(t, label) == pc' = [pc EXCEPT ![t] = label]

\* Members are built by their constructors (sem() starts at 0), no thread yet.
Init ==
    /\ life = "constructing"
    /\ m_workqueue = <<>>
    /\ m_queuelocker = NoThread
    /\ m_queuestat = 0
    /\ m_stop = FALSE
    /\ pc = [t \in Threads |-> IF t \in Workers THEN "unborn" ELSE "idle"]
    /\ request = [t \in Threads |-> Idle]
-----------------------------------------------------------------------------
(* Constructor and destructor. *)

\* pthread_create succeeds: the thread runs at once, before the object is ready.
CreateThread(w) ==
    /\ life = "constructing" /\ pc[w] = "unborn"
    /\ Goto(w, "test")
    /\ UNCHANGED <<life, m_workqueue, m_queuelocker, m_queuestat, m_stop, request>>

\* pthread_create or pthread_detach fails: m_threads is deleted and the
\* exception ends the object with the threads made so far still running.
ConstructorThrows ==
    /\ life = "constructing"
    /\ life' = "thrown"
    /\ UNCHANGED <<m_workqueue, m_queuelocker, m_queuestat, m_stop, pc, request>>

ConstructorReturns ==
    /\ life = "constructing"
    /\ \A w \in Workers : pc[w] # "unborn"
    /\ life' = "ready"
    /\ UNCHANGED <<m_workqueue, m_queuelocker, m_queuestat, m_stop, pc, request>>

\* The body of ~threadpool(); no caller is inside append() when it runs.
DestructorBody ==
    /\ life = "ready"
    /\ \A p \in Producers : pc[p] = "idle"
    /\ life' = "stopping"
    /\ m_stop' = TRUE
    /\ UNCHANGED <<m_workqueue, m_queuelocker, m_queuestat, pc, request>>

\* The member destructors; nothing waits for the workers.
MembersDestroyed ==
    /\ life = "stopping"
    /\ life' = "destroyed"
    /\ UNCHANGED <<m_workqueue, m_queuelocker, m_queuestat, m_stop, pc, request>>
-----------------------------------------------------------------------------
(* locker and sem, as append() and run() call them. *)

\* Mutant: lock() that does not wait for the holder.
AcquireAnyway(t) == m_queuelocker' = t

Acquire(t) == m_queuelocker = NoThread /\ m_queuelocker' = t

Release == m_queuelocker' = NoThread

\* Mutant: a binary semaphore.
PostBinary == m_queuestat' = 1

\* sem::post(): at SEM_VALUE_MAX sem_post fails and the caller ignores it.
Post == m_queuestat' = IF m_queuestat < SEM_VALUE_MAX
                       THEN m_queuestat + 1 ELSE m_queuestat

\* Mutant: wait() that does not block at zero.
DecrementAnyway == m_queuestat' = m_queuestat - 1

\* sem::wait() returning true.
Decrement == m_queuestat > 0 /\ m_queuestat' = m_queuestat - 1
-----------------------------------------------------------------------------
(* append(). *)

AppendCall(p, r) ==
    /\ life = "ready" /\ pc[p] = "idle"
    /\ request' = [request EXCEPT ![p] = r]
    /\ Goto(p, "lock")
    /\ UNCHANGED <<life, m_workqueue, m_queuelocker, m_queuestat, m_stop>>

AppendLock(p) ==
    /\ pc[p] = "lock"
    /\ Acquire(p)
    /\ Goto(p, "check")
    /\ UNCHANGED <<life, m_workqueue, m_queuestat, m_stop, request>>

\* size() > m_max_requests, so a queue of exactly m_max_requests still grows.
AppendCheck(p) ==
    /\ pc[p] = "check"
    /\ Goto(p, IF Len(m_workqueue) > m_max_requests THEN "refuse" ELSE "push")
    /\ UNCHANGED <<life, m_workqueue, m_queuelocker, m_queuestat, m_stop, request>>

AppendPush(p) ==
    /\ pc[p] = "push"
    /\ m_workqueue' = Append(m_workqueue, request[p])
    /\ Goto(p, "unlock")
    /\ UNCHANGED <<life, m_queuelocker, m_queuestat, m_stop, request>>

\* Unlock after push_back: the semaphore is posted outside the lock.
AppendUnlock(p) ==
    /\ pc[p] = "unlock"
    /\ Release
    /\ Goto(p, "post")
    /\ UNCHANGED <<life, m_workqueue, m_queuestat, m_stop, request>>

\* Unlock and return false.
AppendRefuse(p) ==
    /\ pc[p] = "refuse"
    /\ Release
    /\ Goto(p, "idle")
    /\ request' = [request EXCEPT ![p] = Idle]
    /\ UNCHANGED <<life, m_workqueue, m_queuestat, m_stop>>

\* post() and return true.
AppendPost(p) ==
    /\ pc[p] = "post"
    /\ Post
    /\ Goto(p, "idle")
    /\ request' = [request EXCEPT ![p] = Idle]
    /\ UNCHANGED <<life, m_workqueue, m_queuelocker, m_stop>>

AppendStep(p) ==
    \/ AppendLock(p) \/ AppendCheck(p) \/ AppendPush(p)
    \/ AppendUnlock(p) \/ AppendRefuse(p) \/ AppendPost(p)
-----------------------------------------------------------------------------
(* worker() and run(). *)

\* while(!m_stop): read without the lock.
RunTest(w) ==
    /\ Alive /\ pc[w] = "test"
    /\ Goto(w, IF m_stop THEN "exited" ELSE "wait")
    /\ UNCHANGED <<life, m_workqueue, m_queuelocker, m_queuestat, m_stop, request>>

RunWait(w) ==
    /\ Alive /\ pc[w] = "wait"
    /\ Decrement
    /\ Goto(w, "lock")
    /\ UNCHANGED <<life, m_workqueue, m_queuelocker, m_stop, request>>

\* sem_wait fails with EINTR: run() ignores the result of wait() and goes on
\* without having consumed a count.
RunInterrupted(w) ==
    /\ Alive /\ pc[w] = "wait"
    /\ Goto(w, "lock")
    /\ UNCHANGED <<life, m_workqueue, m_queuelocker, m_queuestat, m_stop, request>>

RunLock(w) ==
    /\ Alive /\ pc[w] = "lock"
    /\ Acquire(w)
    /\ Goto(w, "check")
    /\ UNCHANGED <<life, m_workqueue, m_queuestat, m_stop, request>>

\* Mutant: the empty() test is dropped.
RunCheckNothing(w) ==
    /\ Alive /\ pc[w] = "check"
    /\ Goto(w, "take")
    /\ UNCHANGED <<life, m_workqueue, m_queuelocker, m_queuestat, m_stop, request>>

RunCheck(w) ==
    /\ Alive /\ pc[w] = "check"
    /\ Goto(w, IF m_workqueue = <<>> THEN "skip" ELSE "take")
    /\ UNCHANGED <<life, m_workqueue, m_queuelocker, m_queuestat, m_stop, request>>

\* Mutant: front() without pop_front().
RunTakeNoPop(w) ==
    /\ Alive /\ pc[w] = "take"
    /\ m_workqueue # <<>>
    /\ request' = [request EXCEPT ![w] = Head(m_workqueue)]
    /\ Goto(w, "unlock")
    /\ UNCHANGED <<life, m_workqueue, m_queuelocker, m_queuestat, m_stop>>

\* front() and pop_front(), which are undefined on an empty list.
RunTake(w) ==
    /\ Alive /\ pc[w] = "take"
    /\ m_workqueue # <<>>
    /\ request' = [request EXCEPT ![w] = Head(m_workqueue)]
    /\ m_workqueue' = Tail(m_workqueue)
    /\ Goto(w, "unlock")
    /\ UNCHANGED <<life, m_queuelocker, m_queuestat, m_stop>>

\* Unlock and continue: the queue was empty.
RunSkip(w) ==
    /\ Alive /\ pc[w] = "skip"
    /\ Release
    /\ Goto(w, "test")
    /\ UNCHANGED <<life, m_workqueue, m_queuestat, m_stop, request>>

\* Mutant: a null request ends the loop of the worker.
RunUnlockBreak(w) ==
    /\ Alive /\ pc[w] = "unlock"
    /\ Release
    /\ IF request[w] = NULL
       THEN Goto(w, "exited") /\ request' = [request EXCEPT ![w] = Idle]
       ELSE Goto(w, "process") /\ UNCHANGED request
    /\ UNCHANGED <<life, m_workqueue, m_queuestat, m_stop>>

\* Unlock, then skip a null request.
RunUnlock(w) ==
    /\ Alive /\ pc[w] = "unlock"
    /\ Release
    /\ IF request[w] = NULL
       THEN Goto(w, "test") /\ request' = [request EXCEPT ![w] = Idle]
       ELSE Goto(w, "process") /\ UNCHANGED request
    /\ UNCHANGED <<life, m_workqueue, m_queuestat, m_stop>>

\* request->process() returns; it does not touch the pool.
RunProcess(w) ==
    /\ Alive /\ pc[w] = "process"
    /\ request' = [request EXCEPT ![w] = Idle]
    /\ Goto(w, "test")
    /\ UNCHANGED <<life, m_workqueue, m_queuelocker, m_queuestat, m_stop>>

RunStep(w) ==
    \/ RunTest(w) \/ RunWait(w) \/ RunLock(w) \/ RunCheck(w) \/ RunTake(w)
    \/ RunSkip(w) \/ RunUnlock(w) \/ RunProcess(w)
-----------------------------------------------------------------------------
\* The object is gone; in main.cpp the process ends right after.
Gone == ~Alive /\ UNCHANGED vars

Next ==
    \/ \E w \in Workers : CreateThread(w) \/ RunStep(w) \/ RunInterrupted(w)
    \/ \E p \in Producers : AppendStep(p) \/ \E r \in Requests : AppendCall(p, r)
    \/ ConstructorThrows \/ ConstructorReturns
    \/ DestructorBody \/ MembersDestroyed
    \/ Gone

Spec == Init /\ [][Next]_vars

\* Every thread that can run does: nothing is assumed of callers (AppendCall),
\* of signals (RunInterrupted) or of which thread wins a contended mutex.
Fairness ==
    /\ \A w \in Workers : WF_vars(RunStep(w))
    /\ \A p \in Producers : WF_vars(AppendStep(p))

FairSpec == Spec /\ Fairness
-----------------------------------------------------------------------------
(* Properties. *)

\* Every variable has its type, and no thread holds a request it should not.
TypeOK ==
    /\ life \in Lives
    /\ m_workqueue \in Seq(Requests)
    /\ m_queuelocker \in Threads \cup {NoThread}
    /\ m_queuestat \in 0..SEM_VALUE_MAX
    /\ m_stop \in BOOLEAN
    /\ pc \in [Threads -> ProducerPCs \cup WorkerPCs]
    /\ \A p \in Producers : pc[p] \in ProducerPCs
    /\ \A w \in Workers : pc[w] \in WorkerPCs
    /\ request \in [Threads -> Requests \cup {Idle}]
    /\ \A p \in Producers : (request[p] = Idle) <=> (pc[p] = "idle")
    /\ \A w \in Workers : (request[w] = Idle) <=> pc[w] \notin {"unlock", "process"}

\* The threads between m_queuelocker.lock() and the unlock() that follows.
CriticalPCs == {"check", "push", "take", "unlock", "refuse", "skip"}

\* Whoever reads or writes m_workqueue holds m_queuelocker, so append() and
\* run() never work on the list at once (threadpool.h:91-97, 115-122).
LockProtectsQueue ==
    \A t \in Threads : pc[t] \in CriticalPCs <=> m_queuelocker = t

\* run() never calls front() and pop_front() on an empty list, not even after
\* an interrupted or a surplus wake-up (threadpool.h:116-121), and append()
\* never grows the list past one more than m_max_requests (threadpool.h:92).
ListCallsAreDefined ==
    /\ \A w \in Workers : pc[w] = "take" => m_workqueue # <<>>
    /\ Len(m_workqueue) <= m_max_requests + 1

\* Workers that are past wait() and have not yet looked at the list.
Woken == {w \in Workers : pc[w] \in {"lock", "check", "take"}}

\* Producers that have pushed and have not yet posted.
Posting == {p \in Producers : pc[p] \in {"unlock", "post"}}

\* Every waiting request is matched by a count of m_queuestat, by a worker on
\* its way to the list or by a producer about to post: a request is never left
\* in the queue with all workers asleep (threadpool.h:96-98, 114-116).
NoLostWakeup ==
    Len(m_workqueue) <= m_queuestat + Cardinality(Woken) + Cardinality(Posting)

\* append() and run() implement the bounded FIFO that hands every request to
\* exactly one worker (threadpool.h:88-130).
WQ == INSTANCE WorkQueue WITH
        Capacity <- m_max_requests + 1,
        queue <- m_workqueue,
        running <- [w \in Workers |-> request[w]]

ImplementsWorkQueue == WQ!Spec

\* Once callers stay out of append() and the pool lives on, the workers empty
\* the queue and go back to waiting (threadpool.h:112-130).
BacklogDrains ==
    <>[](life = "ready" /\ \A p \in Producers : pc[p] = "idle")
        => <>[](m_workqueue = <<>> /\ \A w \in Workers : request[w] = Idle)

\* threadpool.h:85 says that m_stop = true stops the threads: none is left in
\* run() when the destructor is done.
DestructorStopsThreads ==
    life = "destroyed" => \A w \in Workers : pc[w] = "exited"
==============================================================================
