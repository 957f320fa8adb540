--------------------------- MODULE ThreadPoolProofs --------------------------
(***************************************************************************)
(* Theorems about ThreadPool for any finite set of callers and of workers, *)
(* any queue limit and any semaphore maximum above it.                     *)
(***************************************************************************)
EXTENDS ThreadPool, FiniteSetTheorems, TLAPS

\* The inductive invariant: SizeWasChecked is what makes the bound on the
\* list inductive, the rest is stated in ThreadPool.
SizeWasChecked ==
    \A p \in Producers : pc[p] = "push" => Len(m_workqueue) <= m_max_requests

SafeInv == TypeOK /\ LockProtectsQueue /\ ListCallsAreDefined /\ SizeWasChecked

IInv == SafeInv /\ NoLostWakeup
-----------------------------------------------------------------------------
\* Appending or taking a request keeps the list a list of requests and moves
\* its length by one.
LEMMA ListFacts ==
    ASSUME NEW q \in Seq(Requests), NEW r \in Requests
    PROVE  /\ Append(q, r) \in Seq(Requests)
           /\ Len(Append(q, r)) = Len(q) + 1
           /\ Len(q) \in Nat
           /\ q # <<>> => /\ Head(q) \in Requests
                          /\ Tail(q) \in Seq(Requests)
                          /\ Len(Tail(q)) = Len(q) - 1
           /\ (q = <<>>) <=> (Len(q) = 0)
  OBVIOUS

\* Initially nothing waits and nobody holds the lock (constructor).
LEMMA InitSafe == Init => SafeInv
<1> SUFFICES ASSUME Init PROVE SafeInv
  OBVIOUS
<1> USE DEF Init
<1>1. TypeOK
  <2>1. \A t \in Threads : pc[t] \in ProducerPCs \cup WorkerPCs
    BY DEF ProducerPCs, WorkerPCs
  <2>2. pc \in [Threads -> ProducerPCs \cup WorkerPCs]
    BY <2>1
  <2>3. /\ \A p \in Producers : pc[p] = "idle"
        /\ \A w \in Workers : pc[w] = "unborn"
    BY PoolAssumption DEF Threads
  <2>4. /\ m_workqueue \in Seq(Requests)
        /\ m_queuestat \in 0..SEM_VALUE_MAX
        /\ request \in [Threads -> Requests \cup {Idle}]
        /\ \A t \in Threads : request[t] = Idle
    BY PoolAssumption
  <2> QED
    BY <2>2, <2>3, <2>4 DEF TypeOK, Lives, ProducerPCs, WorkerPCs, Threads
<1>2. LockProtectsQueue
  BY PoolAssumption DEF LockProtectsQueue, Threads, CriticalPCs
<1>3. ListCallsAreDefined
  BY PoolAssumption DEF ListCallsAreDefined, Threads
<1>4. SizeWasChecked
  BY PoolAssumption DEF SizeWasChecked, Threads
<1> QED
  BY <1>1, <1>2, <1>3, <1>4 DEF SafeInv

\* Every step keeps the safety part of the invariant.
LEMMA NextSafe == SafeInv /\ [Next]_vars => SafeInv'
<1> SUFFICES ASSUME SafeInv, [Next]_vars PROVE SafeInv'
  OBVIOUS
<1> USE PoolAssumption DEF SafeInv, TypeOK, LockProtectsQueue,
      ListCallsAreDefined, SizeWasChecked, Threads, ProducerPCs, WorkerPCs,
      CriticalPCs, Goto
<1>1. ASSUME NEW w \in Workers, CreateThread(w) PROVE SafeInv'
  BY <1>1 DEF CreateThread
<1>2. ASSUME NEW w \in Workers, RunTest(w) PROVE SafeInv'
  BY <1>2 DEF RunTest
<1>3. ASSUME NEW w \in Workers, RunWait(w) PROVE SafeInv'
  BY <1>3 DEF RunWait, Decrement
<1>4. ASSUME NEW w \in Workers, RunLock(w) PROVE SafeInv'
  BY <1>4 DEF RunLock, Acquire
<1>5. ASSUME NEW w \in Workers, RunCheck(w) PROVE SafeInv'
  BY <1>5 DEF RunCheck
<1>6. ASSUME NEW w \in Workers, RunTake(w) PROVE SafeInv'
  BY <1>6 DEF RunTake
<1>7. ASSUME NEW w \in Workers, RunSkip(w) PROVE SafeInv'
  BY <1>7 DEF RunSkip, Release
<1>8. ASSUME NEW w \in Workers, RunUnlock(w) PROVE SafeInv'
  BY <1>8 DEF RunUnlock, Release
<1>9. ASSUME NEW w \in Workers, RunProcess(w) PROVE SafeInv'
  BY <1>9 DEF RunProcess
<1>10. ASSUME NEW w \in Workers, RunInterrupted(w) PROVE SafeInv'
  BY <1>10 DEF RunInterrupted
<1>11. ASSUME NEW p \in Producers, AppendLock(p) PROVE SafeInv'
  BY <1>11 DEF AppendLock, Acquire
<1>12. ASSUME NEW p \in Producers, AppendCheck(p) PROVE SafeInv'
  BY <1>12 DEF AppendCheck
<1>13. ASSUME NEW p \in Producers, AppendPush(p) PROVE SafeInv'
  BY <1>13 DEF AppendPush
<1>14. ASSUME NEW p \in Producers, AppendUnlock(p) PROVE SafeInv'
  BY <1>14 DEF AppendUnlock, Release
<1>15. ASSUME NEW p \in Producers, AppendRefuse(p) PROVE SafeInv'
  BY <1>15 DEF AppendRefuse, Release
<1>16. ASSUME NEW p \in Producers, AppendPost(p) PROVE SafeInv'
  BY <1>16 DEF AppendPost, Post
<1>17. ASSUME NEW p \in Producers, NEW r \in Requests, AppendCall(p, r) PROVE SafeInv'
  BY <1>17 DEF AppendCall
<1>18. CASE \/ ConstructorThrows \/ ConstructorReturns \/ DestructorBody
              \/ MembersDestroyed \/ Gone \/ UNCHANGED vars
  BY <1>18 DEF ConstructorThrows, ConstructorReturns, DestructorBody,
     MembersDestroyed, Gone, vars, Lives
<1> QED
  BY <1>1, <1>2, <1>3, <1>4, <1>5, <1>6, <1>7, <1>8, <1>9, <1>10, <1>11, <1>12, <1>13, <1>14, <1>15, <1>16, <1>17, <1>18 DEF Next, RunStep, AppendStep
-----------------------------------------------------------------------------
\* The counts in NoLostWakeup are numbers, and moving one thread in or out of
\* a set of threads moves its count by one.
LEMMA CountFacts ==
    ASSUME NEW S, IsFiniteSet(S), NEW T, T \subseteq S
    PROVE  /\ IsFiniteSet(T) /\ Cardinality(T) \in Nat
           /\ \A x \in S \ T : Cardinality(T \cup {x}) = Cardinality(T) + 1
           /\ \A x \in T : Cardinality(T \ {x}) = Cardinality(T) - 1
<1>1. IsFiniteSet(T)
  BY FS_Subset
<1> QED
  BY <1>1, FS_CardinalityType, FS_AddElement, FS_RemoveElement

\* Initially no request waits.
LEMMA InitNoLostWakeup == Init => NoLostWakeup
<1> SUFFICES ASSUME Init PROVE NoLostWakeup
  OBVIOUS
<1>1. Cardinality(Woken) \in Nat /\ Cardinality(Posting) \in Nat
  BY PoolAssumption, CountFacts DEF Woken, Posting
<1> QED
  BY <1>1 DEF Init, NoLostWakeup

\* Every step keeps each waiting request matched by a count, by a worker on
\* its way to the list or by a caller about to post.
LEMMA NextNoLostWakeup == IInv /\ [Next]_vars => NoLostWakeup'
<1> SUFFICES ASSUME IInv, [Next]_vars PROVE NoLostWakeup'
  OBVIOUS
<1> USE PoolAssumption DEF IInv, SafeInv, NoLostWakeup
<1>t. /\ m_workqueue \in Seq(Requests) /\ Len(m_workqueue) \in Nat
      /\ m_queuestat \in Nat /\ m_queuestat <= SEM_VALUE_MAX
      /\ pc \in [Threads -> ProducerPCs \cup WorkerPCs]
      /\ Producers \subseteq Threads /\ Workers \subseteq Threads
  BY DEF TypeOK, Threads
<1>c. /\ Cardinality(Woken) \in Nat /\ Cardinality(Posting) \in Nat
      /\ Cardinality(Woken') \in Nat /\ Cardinality(Posting') \in Nat
      /\ \A w \in Workers \ Woken : Cardinality(Woken \cup {w}) = Cardinality(Woken) + 1
      /\ \A w \in Woken : Cardinality(Woken \ {w}) = Cardinality(Woken) - 1
      /\ \A p \in Producers \ Posting : Cardinality(Posting \cup {p}) = Cardinality(Posting) + 1
      /\ \A p \in Posting : Cardinality(Posting \ {p}) = Cardinality(Posting) - 1
  <2>1. Woken \subseteq Workers /\ Posting \subseteq Producers
        /\ Woken' \subseteq Workers /\ Posting' \subseteq Producers
    BY DEF Woken, Posting
  <2> QED
    BY <2>1, CountFacts
<1> DEFINE Quiet == /\ Woken' = Woken /\ Posting' = Posting
                    /\ UNCHANGED <<m_workqueue, m_queuestat>>
<1>q. Quiet => NoLostWakeup'
  OBVIOUS
<1>1. ASSUME NEW w \in Workers, RunWait(w) PROVE NoLostWakeup'
  <2>1. w \notin Woken /\ Woken' = Woken \cup {w} /\ Posting' = Posting
    BY <1>1, <1>t DEF RunWait, Goto, Woken, Posting
  <2> QED
    BY <1>1, <2>1, <1>t, <1>c DEF RunWait, Decrement
<1>2. ASSUME NEW w \in Workers, RunInterrupted(w) PROVE NoLostWakeup'
  <2>1. w \notin Woken /\ Woken' = Woken \cup {w} /\ Posting' = Posting
    BY <1>2, <1>t DEF RunInterrupted, Goto, Woken, Posting
  <2> QED
    BY <1>2, <2>1, <1>t, <1>c DEF RunInterrupted
<1>3. ASSUME NEW w \in Workers, RunCheck(w) PROVE NoLostWakeup'
  <2>1. CASE m_workqueue = <<>>
    BY <1>3, <2>1, <1>t, <1>c DEF RunCheck
  <2>2. CASE m_workqueue # <<>>
    BY <1>3, <2>2, <1>t, <1>q DEF RunCheck, Goto, Woken, Posting
  <2> QED
    BY <2>1, <2>2
<1>4. ASSUME NEW w \in Workers, RunTake(w) PROVE NoLostWakeup'
  <2>1. w \in Woken /\ Woken' = Woken \ {w} /\ Posting' = Posting
    BY <1>4, <1>t DEF RunTake, Goto, Woken, Posting
  <2>2. Len(m_workqueue') = Len(m_workqueue) - 1 /\ UNCHANGED m_queuestat
    BY <1>4, <1>t, ListFacts DEF RunTake
  <2> QED
    BY <2>1, <2>2, <1>t, <1>c
<1>5. ASSUME NEW p \in Producers, AppendPush(p) PROVE NoLostWakeup'
  <2>1. p \notin Posting /\ Posting' = Posting \cup {p} /\ Woken' = Woken
    BY <1>5, <1>t DEF AppendPush, Goto, Woken, Posting
  <2>2. Len(m_workqueue') = Len(m_workqueue) + 1 /\ UNCHANGED m_queuestat
    BY <1>5, <1>t, ListFacts DEF AppendPush, TypeOK
  <2> QED
    BY <2>1, <2>2, <1>t, <1>c
<1>6. ASSUME NEW p \in Producers, AppendPost(p) PROVE NoLostWakeup'
  <2>1. p \in Posting /\ Posting' = Posting \ {p} /\ Woken' = Woken
    BY <1>6, <1>t DEF AppendPost, Goto, Woken, Posting
  <2>2. CASE m_queuestat < SEM_VALUE_MAX
    BY <1>6, <2>1, <2>2, <1>t, <1>c DEF AppendPost, Post
  <2>3. CASE m_queuestat = SEM_VALUE_MAX
    BY <1>6, <2>3, <1>t, <1>c DEF AppendPost, Post, ListCallsAreDefined
  <2> QED
    BY <2>2, <2>3, <1>t
<1>7. ASSUME NEW w \in Workers,
             \/ CreateThread(w) \/ RunTest(w) \/ RunLock(w)
             \/ RunSkip(w) \/ RunUnlock(w) \/ RunProcess(w)
      PROVE  NoLostWakeup'
  BY <1>7, <1>t, <1>q DEF CreateThread, RunTest, RunLock, RunSkip, RunUnlock,
     RunProcess, Goto, Woken, Posting
<1>8. ASSUME NEW p \in Producers,
             \/ AppendLock(p) \/ AppendCheck(p) \/ AppendUnlock(p)
             \/ AppendRefuse(p) \/ \E r \in Requests : AppendCall(p, r)
      PROVE  NoLostWakeup'
  BY <1>8, <1>t, <1>q DEF AppendLock, AppendCheck, AppendUnlock, AppendRefuse,
     AppendCall, Goto, Woken, Posting
<1>9. CASE \/ ConstructorThrows \/ ConstructorReturns \/ DestructorBody
           \/ MembersDestroyed \/ Gone \/ UNCHANGED vars
  BY <1>9, <1>q DEF ConstructorThrows, ConstructorReturns, DestructorBody,
     MembersDestroyed, Gone, vars, Woken, Posting
<1> QED
  BY <1>1, <1>2, <1>3, <1>4, <1>5, <1>6, <1>7, <1>8, <1>9
     DEF Next, RunStep, AppendStep
-----------------------------------------------------------------------------
\* The inductive invariant holds in every reachable state.
THEOREM Invariance == Spec => []IInv
<1>1. Init => IInv
  BY InitSafe, InitNoLostWakeup DEF IInv
<1>2. IInv /\ [Next]_vars => IInv'
  BY NextSafe, NextNoLostWakeup DEF IInv
<1> QED
  BY <1>1, <1>2, PTL DEF Spec

\* Type correctness of the pool's state.
THEOREM TypeCorrect == Spec => []TypeOK
<1>1. IInv => TypeOK
  BY DEF IInv, SafeInv
<1> QED
  BY <1>1, Invariance, PTL

\* append() and run() touch m_workqueue only under m_queuelocker.
THEOREM MutualExclusion == Spec => []LockProtectsQueue
<1>1. IInv => LockProtectsQueue
  BY DEF IInv, SafeInv
<1> QED
  BY <1>1, Invariance, PTL

\* run() never pops an empty list and append() never grows it past
\* m_max_requests + 1.
THEOREM ListCallsDefined == Spec => []ListCallsAreDefined
<1>1. IInv => ListCallsAreDefined
  BY DEF IInv, SafeInv
<1> QED
  BY <1>1, Invariance, PTL

\* No request waits with every worker asleep and nobody about to post.
THEOREM WakeupsNotLost == Spec => []NoLostWakeup
<1>1. IInv => NoLostWakeup
  BY DEF IInv
<1> QED
  BY <1>1, Invariance, PTL
-----------------------------------------------------------------------------
\* Every step of the pool is a step of the abstract queue or leaves it alone:
\* push_back is Submit, the pop is Start, and dropping a null request or
\* returning from process() is Finish.
LEMMA StepSimulation == SafeInv /\ [Next]_vars => [WQ!Next]_(WQ!wqvars)
<1> SUFFICES ASSUME SafeInv, [Next]_vars PROVE [WQ!Next]_(WQ!wqvars)
  OBVIOUS
<1> USE PoolAssumption DEF SafeInv, TypeOK
<1> DEFINE run == [w \in Workers |-> request[w]]
<1>t. Producers \subseteq Threads /\ Workers \subseteq Threads
  BY DEF Threads
<1>s. UNCHANGED <<m_workqueue, run>> => UNCHANGED WQ!wqvars
  BY DEF WQ!wqvars
<1>1. ASSUME NEW p \in Producers, AppendPush(p) PROVE WQ!Next
  <2>1. request[p] \in Requests
    BY <1>1, <1>t DEF AppendPush
  <2>2. Len(m_workqueue) < m_max_requests + 1
    BY <1>1 DEF AppendPush, SizeWasChecked
  <2>3. WQ!Submit(request[p])
    BY <1>1, <2>2 DEF AppendPush, WQ!Submit
  <2> QED
    BY <2>1, <2>3 DEF WQ!Next
<1>2. ASSUME NEW w \in Workers, RunTake(w) PROVE WQ!Next
  <2>1. run[w] = Idle /\ run' = [run EXCEPT ![w] = Head(m_workqueue)]
    BY <1>2, <1>t DEF RunTake
  <2>2. WQ!Start(w)
    BY <1>2, <2>1 DEF RunTake, WQ!Start
  <2> QED
    BY <2>2 DEF WQ!Next
<1>3. ASSUME NEW w \in Workers, RunUnlock(w) \/ RunProcess(w)
      PROVE  [WQ!Next]_(WQ!wqvars)
  <2>1. UNCHANGED m_workqueue
    BY <1>3 DEF RunUnlock, RunProcess
  <2>2. CASE UNCHANGED request
    BY <2>1, <2>2, <1>s
  <2>3. CASE request' = [request EXCEPT ![w] = Idle]
    <3>1. run[w] # Idle /\ run' = [run EXCEPT ![w] = Idle]
      BY <1>3, <2>3, <1>t DEF RunUnlock, RunProcess
    <3>2. WQ!Finish(w)
      BY <2>1, <3>1 DEF WQ!Finish
    <3> QED
      BY <3>2 DEF WQ!Next
  <2> QED
    BY <1>3, <2>2, <2>3 DEF RunUnlock, RunProcess
<1>4. ASSUME NEW w \in Workers,
             \/ CreateThread(w) \/ RunTest(w) \/ RunWait(w) \/ RunLock(w)
             \/ RunCheck(w) \/ RunSkip(w) \/ RunInterrupted(w)
      PROVE  UNCHANGED WQ!wqvars
  BY <1>4, <1>s DEF CreateThread, RunTest, RunWait, RunLock, RunCheck,
     RunSkip, RunInterrupted
<1>5. ASSUME NEW p \in Producers,
             \/ AppendLock(p) \/ AppendCheck(p) \/ AppendUnlock(p)
             \/ AppendRefuse(p) \/ AppendPost(p)
             \/ \E r \in Requests : AppendCall(p, r)
      PROVE  UNCHANGED WQ!wqvars
  <2>1. UNCHANGED m_workqueue /\ \A w \in Workers : request'[w] = request[w]
    BY <1>5, <1>t DEF AppendLock, AppendCheck, AppendUnlock, AppendRefuse,
       AppendPost, AppendCall
  <2> QED
    BY <2>1, <1>s
<1>6. CASE \/ ConstructorThrows \/ ConstructorReturns \/ DestructorBody
           \/ MembersDestroyed \/ Gone \/ UNCHANGED vars
  BY <1>6, <1>s DEF ConstructorThrows, ConstructorReturns, DestructorBody,
     MembersDestroyed, Gone, vars
<1> QED
  BY <1>1, <1>2, <1>3, <1>4, <1>5, <1>6 DEF Next, RunStep, AppendStep

\* The pool with its mutex and semaphore implements the bounded FIFO in which
\* each accepted request is taken once, in order, by one worker.
THEOREM Refinement == Spec => ImplementsWorkQueue
<1>1. Init => WQ!Init
  BY PoolAssumption DEF Init, WQ!Init, Threads
<1>2. IInv /\ [Next]_vars => [WQ!Next]_(WQ!wqvars)
  BY StepSimulation DEF IInv
<1> QED
  BY <1>1, <1>2, Invariance, PTL DEF Spec, ImplementsWorkQueue, WQ!Spec
==============================================================================
