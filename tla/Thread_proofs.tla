---------------------------- MODULE Thread_proofs ----------------------------
(***************************************************************************)
(* Theorems about Thread.  Both threads are bound to the latch: what the   *)
(* owner may do follows from its wait() having returned, that from the new *)
(* thread's countDown() being over, and that from how far the new thread   *)
(* is in startThread().                                                    *)
(***************************************************************************)
EXTENDS Thread, CountDownLatch_proofs

(* How far the owner is, and the Thread object with it.                    *)
Owned ==
  /\ parent = "new" => child = "none" /\ pthread = "none" /\ ~started_ /\ ~joined_
  /\ parent \in {"creating", "waiting", "started"} =>
       pthread = "joinable" /\ started_ /\ ~joined_
  /\ parent = "joining" => pthread = "joinable" /\ joined_
  /\ parent = "joined"  => pthread = "joined" /\ joined_
  /\ parent = "destroyed" => pthread # "joinable"
  /\ parent \in {"new", "creating"} => call[Waiter] = "none"
  /\ parent \in {"started", "joining", "joined"} => call[Waiter] = "returned"

(* How far the new thread is, and what it has done on the way.             *)
PastTheLatch == {"named", "func", "finished", "crashed", "ended"}

OnItsWay ==
  /\ child \in {"none", "entry", "cached", "latch"} \cup PastTheLatch
  /\ child \in {"none", "entry", "cached"} => call[Child] = "none"
  /\ child \in PastTheLatch => call[Child] = "returned"
  /\ child \in {"none", "entry"} => t_cachedTid = NoThread
  /\ child \notin {"none", "entry"} => t_cachedTid = Child
  /\ child \in {"latch"} \cup PastTheLatch => tid_ = Child
  /\ child \notin {"none", "ended"} => data = "live"
  /\ t_threadName = "data" => child \in {"named", "func"}

(* The object goes before it was started, or after wait() returned.        *)
Gone ==
  ~alive => /\ parent \in {"destroyed", "aborted"}
            /\ \/ call[Waiter] = "returned"
               \/ child = "none" /\ call[Waiter] = "none"

ForkKnowsItself == forked # Nobody => forked.t_cachedTid = Forked

ThreadInv == LatchCore /\ Owned /\ OnItsWay /\ Gone /\ ForkKnowsItself

-----------------------------------------------------------------------------
LEMMA Two == Threads = {Waiter, Child} /\ Child # Waiter /\ Child # NoThread
             /\ Waiter \in Threads /\ Child \in Counters
  BY ChildAssumption, ThreadsAssumption DEF Counters

(* A step of one thread in the latch leaves the other's call alone.        *)
LEMMA LatchStepIsLocal ==
  ASSUME LatchCore, NEW t \in Threads, LatchStep(t)
  PROVE  /\ LatchCore' /\ alive' = alive
         /\ \A u \in Threads : u # t => call'[u] = call[u]
<1>1. LatchNext
  BY DEF LatchNext
<1>2. LatchCore'
  BY <1>1, LatchCoreGoesOn
<1>3. alive' = alive /\ \A u \in Threads : u # t => call'[u] = call[u]
  BY DEF LatchCore, LatchTypeOK, LatchStep, Begin, Assign, Unassign, Return, Decrement,
         Sleep, WaitOver, InWait, Call, latch
<1> QED
  BY <1>2, <1>3

LEMMA CoreKept ==
  ASSUME LatchCore, UNCHANGED <<monitor, count_, call>>, alive' \in BOOLEAN
  PROVE  LatchCore'
BY DEF LatchCore, MonitorInv, MonitorTypeOK, MutualExclusion, HolderIsInside, Owners,
       isLockedByThisThread, LatchTypeOK, CallsInStep, OthersReturned, Counted, Counters,
       monitor

LEMMA ThreadStarts == ThreadInit => ThreadInv
<1> SUFFICES ASSUME ThreadInit PROVE ThreadInv
  OBVIOUS
<1>1. LatchCore
  BY LatchStarts DEF ThreadInit, LatchInv
<1> QED
  BY <1>1, Two
     DEF ThreadInit, LatchInit, ThreadInv, Owned, OnItsWay, PastTheLatch, Gone,
         ForkKnowsItself

LEMMA ParentKeeps ==
  ASSUME ThreadInv, Parent
  PROVE  ThreadInv'
<1> USE Two DEF ThreadInv, Owned, OnItsWay, PastTheLatch, Gone, ForkKnowsItself, object, its
<1>1. ASSUME Create \/ CreateFails \/ Created \/ StartReturns \/ Join \/ JoinReturns
      PROVE  ThreadInv'
  <2>1. UNCHANGED latchVars
    BY <1>1 DEF Create, CreateFails, Created, StartReturns, Join, JoinReturns
  <2>2. LatchCore'
    BY <2>1, CoreKept DEF latchVars, latch, LatchCore, LatchTypeOK
  <2>3. UNCHANGED <<call, alive, forked>>
    BY <1>1, <2>1
       DEF latchVars, latch, Create, CreateFails, Created, StartReturns, Join, JoinReturns
  <2>4. CASE Create
    BY <2>2, <2>3, <2>4 DEF Create
  <2>5. CASE CreateFails
    BY <2>2, <2>3, <2>5 DEF CreateFails
  <2>6. CASE Created
    BY <2>2, <2>3, <2>6 DEF Created
  <2>7. CASE StartReturns
    BY <2>2, <2>3, <2>7 DEF StartReturns, LatchWaitOver
  <2>8. CASE Join \/ JoinReturns
    BY <2>2, <2>3, <2>8 DEF Join, JoinReturns
  <2> QED
    BY <1>1, <2>4, <2>5, <2>6, <2>7, <2>8
<1>2. ASSUME ParentOnLatch PROVE ThreadInv'
  <2>1. LatchStep(Waiter) /\ UNCHANGED <<object, parent, child, its, pthread, forked>>
        /\ parent = "waiting"
    BY <1>2 DEF ParentOnLatch, OnLatch
  <2>2. LatchCore' /\ alive' = alive /\ call'[Child] = call[Child]
    BY <2>1, LatchStepIsLocal
  <2> QED
    BY <2>1, <2>2
<1>3. ASSUME Destructor PROVE ThreadInv'
  <2>1. LatchCore'
    BY <1>3, CoreKept DEF Destructor
  <2> QED
    BY <1>3, <2>1 DEF Destructor, MustDetach
<1> QED
  BY <1>1, <1>2, <1>3 DEF Parent

LEMMA NewThreadKeeps ==
  ASSUME ThreadInv, NewThread
  PROVE  ThreadInv'
<1> USE Two DEF ThreadInv, Owned, OnItsWay, PastTheLatch, Gone, ForkKnowsItself, object, its
<1>1. ASSUME ChildOnLatch PROVE ThreadInv'
  <2>1. LatchStep(Child) /\ UNCHANGED <<object, parent, child, its, pthread, forked>>
        /\ child = "latch" /\ Child \in Threads
    BY <1>1 DEF ChildOnLatch, OnLatch
  <2>2. LatchCore' /\ alive' = alive /\ call'[Waiter] = call[Waiter]
    BY <2>1, LatchStepIsLocal
  <2> QED
    BY <2>1, <2>2
<1>2. ASSUME \/ Tid \/ WriteTid \/ SetName \/ CallFunc \/ FuncReturns \/ FuncThrows
             \/ DeleteData
      PROVE  ThreadInv'
  <2>1. UNCHANGED latchVars
    BY <1>2 DEF Tid, WriteTid, SetName, CallFunc, FuncReturns, FuncThrows, DeleteData
  <2>2. LatchCore'
    BY <2>1, CoreKept DEF latchVars, latch, LatchCore, LatchTypeOK
  <2>3. UNCHANGED <<call, alive, forked>>
    BY <1>2, <2>1
       DEF latchVars, latch, Tid, WriteTid, SetName, CallFunc, FuncReturns, FuncThrows,
           DeleteData
  <2>4. CASE Tid
    BY <2>2, <2>3, <2>4 DEF Tid, CacheTid
  <2>5. CASE WriteTid
    BY <2>2, <2>3, <2>5 DEF WriteTid
  <2>6. CASE SetName
    BY <2>2, <2>3, <2>6 DEF SetName
  <2>7. CASE CallFunc
    BY <2>2, <2>3, <2>7 DEF CallFunc
  <2>8. CASE FuncReturns
    BY <2>2, <2>3, <2>8 DEF FuncReturns
  <2>9. CASE FuncThrows
    BY <2>2, <2>3, <2>9 DEF FuncThrows
  <2>10. CASE DeleteData
    BY <2>2, <2>3, <2>10 DEF DeleteData
  <2> QED
    BY <1>2, <2>4, <2>5, <2>6, <2>7, <2>8, <2>9, <2>10
<1> QED
  BY <1>1, <1>2 DEF NewThread

LEMMA ThreadGoesOn == ThreadInv /\ [ThreadNext]_threadVars => ThreadInv'
<1> SUFFICES ASSUME ThreadInv, [ThreadNext]_threadVars PROVE ThreadInv'
  OBVIOUS
<1>1. ASSUME NEW t \in Threads, Fork(t) PROVE ThreadInv'
  <2>1. LatchCore'
    BY <1>1, CoreKept DEF Fork, latchVars, latch, ThreadInv, LatchCore, LatchTypeOK
  <2>2. forked'.t_cachedTid = Forked
    BY <1>1 DEF Fork, AfterFork, CacheTid
  <2>3. UNCHANGED <<latchVars, object, parent, child, its, pthread>>
    BY <1>1 DEF Fork
  <2> QED
    BY <2>1, <2>2, <2>3
       DEF ThreadInv, Owned, OnItsWay, Gone, ForkKnowsItself, latchVars, latch, object, its
<1>2. ASSUME UNCHANGED threadVars PROVE ThreadInv'
  <2>1. LatchCore'
    BY <1>2, CoreKept DEF threadVars, latchVars, latch, ThreadInv, LatchCore, LatchTypeOK
  <2> QED
    BY <1>2, <2>1
       DEF threadVars, ThreadInv, Owned, OnItsWay, Gone, ForkKnowsItself, latchVars, latch,
           object, its
<1> QED
  BY <1>1, <1>2, ParentKeeps, NewThreadKeeps DEF ThreadNext, Over

LEMMA ThreadInvariance == ThreadSpec => []ThreadInv
  BY ThreadStarts, ThreadGoesOn, PTL DEF ThreadSpec

-----------------------------------------------------------------------------
(* Once start() returned the new thread is past the latch.                 *)
LEMMA WaitOverMeansPast ==
  ASSUME ThreadInv, call[Waiter] = "returned"
  PROVE  call[Child] = "returned" /\ child \in {"latch"} \cup PastTheLatch
BY Two DEF ThreadInv, LatchCore, OthersReturned, OnItsWay, PastTheLatch

(* Whatever the owner does after start() (Thread.cc:70-81, 105, 146-151,   *)
(* 175): the new thread touches neither a destroyed Thread object nor its  *)
(* latch, and t_threadName never points into a deleted ThreadData.         *)
THEOREM ObjectOutlives == ThreadSpec => []ObjectOutlivesItsUse
<1>1. ThreadInv => ObjectOutlivesItsUse
  <2> SUFFICES ASSUME ThreadInv PROVE ObjectOutlivesItsUse
    OBVIOUS
  <2>1. ASSUME ~alive
        PROVE  ~UsesObject /\ \A t \in Threads : call[t] \in {"none", "returned"}
    <3>1. CASE call[Waiter] = "returned"
      BY <3>1, Two, WaitOverMeansPast DEF UsesObject, PastTheLatch
    <3>2. CASE child = "none" /\ call[Waiter] = "none"
      BY <3>2, Two DEF ThreadInv, OnItsWay, UsesObject
    <3> QED
      BY <2>1, <3>1, <3>2 DEF ThreadInv, Gone
  <2>2. ASSUME ~alive PROVE (\A t \in Threads : at[t] = "out") /\ mutex_ = NoThread
    <3>1. \A t \in Threads : at[t] = "out"
      BY <2>1, <2>2 DEF ThreadInv, LatchCore, CallsInStep
    <3> QED
      BY <3>1
         DEF ThreadInv, LatchCore, MonitorInv, MonitorTypeOK, MutualExclusion, Owners
  <2>3. t_threadName = "data" => data = "live"
    BY DEF ThreadInv, OnItsWay
  <2> QED
    BY <2>1, <2>2, <2>3 DEF ObjectOutlivesItsUse
<1> QED
  BY <1>1, ThreadInvariance, PTL

(* tid() is the new thread's id once start() has returned, what is cached  *)
(* is a thread's own id, and a forked process knows itself (Thread.cc:     *)
(* 30-36, 113, 121, 176).                                                  *)
THEOREM TidIsOwn == ThreadSpec => []OwnTid
<1>1. ThreadInv => OwnTid
  <2> SUFFICES ASSUME ThreadInv PROVE OwnTid
    OBVIOUS
  <2>1. parent \in {"started", "joining", "joined"} => tid_ = Child
    BY WaitOverMeansPast DEF ThreadInv, Owned, OnItsWay
  <2>2. t_cachedTid \in {NoThread, Child}
    BY DEF ThreadInv, OnItsWay
  <2> QED
    BY <2>1, <2>2 DEF OwnTid, ThreadInv, ForkKnowsItself
<1> QED
  BY <1>1, ThreadInvariance, PTL

(* Whenever the destructor runs, before start(), after it or after join(): *)
(* the pthread is joined or detached exactly once (Thread.cc:146-151 and   *)
(* 180-186).                                                               *)
THEOREM PthreadIsReapedOnce == ThreadSpec => ReapedOnce
<1> DEFINE Reaps == /\ pthread \in {"joined", "detached"} => pthread' = pthread
                    /\ parent' = "destroyed" => pthread' # "joinable"
<1>1. ThreadInv /\ [ThreadNext]_threadVars => [Reaps]_threadVars
  <2> SUFFICES ASSUME ThreadInv, ThreadNext, ~UNCHANGED threadVars PROVE Reaps
    OBVIOUS
  <2> USE DEF ThreadInv, Owned
  <2>1. CASE Create
    BY <2>1 DEF Create
  <2>2. CASE JoinReturns
    BY <2>2 DEF JoinReturns
  <2>3. CASE Destructor
    BY <2>3 DEF Destructor, MustDetach
  <2>4. CASE NewThread \/ \E t \in Threads : Fork(t)
    BY <2>4
       DEF NewThread, Tid, WriteTid, ChildOnLatch, OnLatch, SetName, CallFunc, FuncReturns,
           FuncThrows, DeleteData, Fork
  <2>5. CASE CreateFails \/ Created \/ ParentOnLatch \/ StartReturns \/ Join
    BY <2>5 DEF CreateFails, Created, ParentOnLatch, OnLatch, StartReturns, Join
  <2> QED
    BY <2>1, <2>2, <2>3, <2>4, <2>5 DEF ThreadNext, Parent, Over
<1> QED
  BY <1>1, ThreadInvariance, PTL DEF ThreadSpec, ReapedOnce
(* start() waits no longer than the latch makes it: whatever the object    *)
(* and the new thread do, each step in the latch brings start() and        *)
(* countDown() nearer to their end (Thread.cc:167-176).                    *)
THEOREM StartSleepsOnce == ThreadSpec => EveryStepCounts
<1>1. AllStepsKnown /\ AllStepsKnown' /\ [ThreadNext]_threadVars
      => [\A t \in Threads : Nearer(t)]_latchVars
  <2> SUFFICES ASSUME AllStepsKnown, AllStepsKnown', [ThreadNext]_threadVars,
                      NEW t \in Threads
               PROVE  Nearer(t)
    OBVIOUS
  <2>1. (\E u \in Threads : LatchStep(u)) \/ UNCHANGED <<monitor, count_, call>>
    <3>1. CASE ParentOnLatch \/ ChildOnLatch
      BY <3>1, Two DEF ParentOnLatch, ChildOnLatch, OnLatch
    <3>2. CASE Destructor
      BY <3>2 DEF Destructor
    <3>3. CASE Create \/ CreateFails \/ Created \/ StartReturns \/ Join \/ JoinReturns
      BY <3>3
         DEF Create, CreateFails, Created, StartReturns, Join, JoinReturns, latchVars, latch
    <3>4. CASE Tid \/ WriteTid \/ SetName \/ CallFunc \/ FuncReturns \/ FuncThrows \/ DeleteData
      BY <3>4
         DEF Tid, WriteTid, SetName, CallFunc, FuncReturns, FuncThrows, DeleteData,
             latchVars, latch
    <3>5. CASE (\E u \in Threads : Fork(u)) \/ Over \/ UNCHANGED threadVars
      BY <3>5 DEF Fork, Over, threadVars, latchVars, latch
    <3> QED
      BY <3>1, <3>2, <3>3, <3>4, <3>5 DEF ThreadNext, Parent, NewThread
  <2> QED
    BY <2>1, StepsCount
<1>2. ThreadInv => AllStepsKnown
  BY StepsAreKnown DEF ThreadInv
<1>3. ThreadSpec => [][\A t \in Threads : Nearer(t)]_latchVars
  BY <1>1, <1>2, ThreadInvariance, PTL DEF ThreadSpec
<1> QED
  BY <1>3 DEF EveryStepCounts, Nearer
=============================================================================
