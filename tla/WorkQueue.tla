------------------------------ MODULE WorkQueue ------------------------------
(***************************************************************************)
(* What threadpool<T> promises whoever uses it (threadpool.h:13-21): a     *)
(* bounded FIFO of requests, each taken by exactly one worker, with no     *)
(* mutex and no semaphore in sight.  ThreadPool is shown to implement this *)
(* module; WebServer is composed with it.                                  *)
(***************************************************************************)
EXTENDS Naturals, Sequences

CONSTANTS
    Workers,    \* the pool's threads
    Requests,   \* the T* values that callers append
    Idle,       \* marks a worker that holds no request
    Capacity    \* the most requests that ever wait

VARIABLES
    queue,      \* requests accepted and not yet taken, oldest first
    running     \* running[w]: the request worker w holds, or Idle

wqvars == <<queue, running>>

Init ==
    /\ queue = <<>>
    /\ running = [w \in Workers |-> Idle]

\* append() returns true.
Submit(r) ==
    /\ Len(queue) < Capacity
    /\ queue' = Append(queue, r)
    /\ UNCHANGED running

\* run() takes the oldest request.
Start(w) ==
    /\ running[w] = Idle
    /\ queue # <<>>
    /\ running' = [running EXCEPT ![w] = Head(queue)]
    /\ queue' = Tail(queue)

\* run() has dropped a null request or returned from process().
Finish(w) ==
    /\ running[w] # Idle
    /\ running' = [running EXCEPT ![w] = Idle]
    /\ UNCHANGED queue

Next ==
    \/ \E r \in Requests : Submit(r)
    \/ \E w \in Workers : Start(w) \/ Finish(w)

Spec == Init /\ [][Next]_wqvars
==============================================================================
