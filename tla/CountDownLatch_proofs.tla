------------------------ MODULE CountDownLatch_proofs ------------------------
(***************************************************************************)
(* Theorems about CountDownLatch, for any finite set of threads that count *)
(* down.  The waiter leaves wait() with the mutex in hand and count_ = 0:  *)
(* every countDown() is then over, and none can still be between its       *)
(* decrement and its unlock, because it would have the mutex too.          *)
(***************************************************************************)
EXTENDS CountDownLatch, Monitor_proofs, FiniteSetTheorems

(* How far a thread's call is goes with where it is in the monitor.        *)
CallsInStep ==
  \A t \in Threads :
    /\ call[t] \in {"none", "returned"} <=> at[t] = "out"
    /\ call[t] = "over" => at[t] \in {"in", "leaving"}
    /\ at[t] = "leaving" => call[t] = "over"
    /\ t # Waiter => at[t] \notin {"giving", "waiting", "relock"}

OthersReturned == \A t \in Counters : call[t] = "returned"

(* What holds of a latch whoever destroys it, and when.                    *)
LatchCore ==
  /\ MonitorInv /\ LatchTypeOK /\ CallsInStep
  /\ call[Waiter] \in {"over", "returned"} => OthersReturned

LatchInv == LatchCore /\ (~alive => call[Waiter] = "returned")

-----------------------------------------------------------------------------
LEMMA CountersFinite ==
  /\ IsFiniteSet(Counters \ Counted) /\ IsFiniteSet(Counters)
  /\ Cardinality(Counters \ Counted) \in Nat
<1>1. Counters \subseteq Threads /\ Counters \ Counted \subseteq Threads
  BY DEF Counters
<1> QED
  BY <1>1, ThreadsAssumption, FS_Subset, FS_CardinalityType

LEMMA LatchOnTheMonitor == [LatchNext]_latchVars => [MonitorNext]_monitor
  BY DEF LatchNext, LatchStep, LatchDone, Begin, Assign, Unassign, Return, Decrement, Sleep,
         WaitOver, InWait, Destroy, MonitorNext, latchVars

LEMMA LatchStarts == LatchInit => LatchInv
<1> SUFFICES ASSUME LatchInit PROVE LatchInv
  OBVIOUS
<1>1. MonitorInv
  BY MonitorStarts DEF LatchInit
<1>2. Counters \ Counted = Counters
  BY DEF LatchInit, Counted, Counters
<1> QED
  BY <1>1, <1>2, WaiterAssumption
     DEF LatchInit, MonitorInit, LatchInv, LatchCore, LatchTypeOK, CallsInStep, MonitorInv

(* The count follows the calls of countDown().                             *)
LEMMA CountKept ==
  ASSUME LatchCore, [LatchNext]_latchVars
  PROVE  count_' = Cardinality(Counters \ Counted)'
<1> USE DEF LatchCore, LatchTypeOK, MonitorTypeOK
<1>1. ASSUME NEW t \in Threads, Decrement(t) PROVE count_' = Cardinality(Counters \ Counted)'
  <2>1. t \in Counters /\ call[t] = "begun" /\ call' = [call EXCEPT ![t] = "over"]
    BY <1>1 DEF Decrement, Call
  <2>2. (Counters \ Counted)' = (Counters \ Counted) \ {t} /\ t \in Counters \ Counted
    BY <2>1 DEF Counted, Counters
  <2>3. Cardinality(Counters \ Counted)' = Cardinality(Counters \ Counted) - 1
    <3> DEFINE S == Counters \ Counted
    <3>1. IsFiniteSet(S)
      BY CountersFinite
    <3>2. t \in S /\ S' = S \ {t}
      BY <2>2
    <3> HIDE DEF S
    <3>3. Cardinality(S \ {t}) = Cardinality(S) - 1
      BY <3>1, <3>2, FS_RemoveElement
    <3>4. Cardinality(S)' = Cardinality(S) - 1
      BY <3>2, <3>3
    <3> QED
      BY <3>4 DEF S
  <2> QED
    BY <1>1, <2>3 DEF Decrement
<1>2. ASSUME NEW t \in Threads,
             Begin(t) \/ Assign(t) \/ Unassign(t) \/ Return(t) \/ Sleep(t) \/ InWait(t)
      PROVE count_' = Cardinality(Counters \ Counted)'
  <2>1. Counted' = Counted /\ count_' = count_
    BY <1>2 DEF Begin, Assign, Unassign, Return, Sleep, InWait, Call, latch, Counted,
                Counters
  <2> QED
    BY <2>1 DEF Counters
<1>3. ASSUME NEW t \in Threads, WaitOver(t) PROVE count_' = Cardinality(Counters \ Counted)'
  <2>1. Counted' = Counted /\ count_' = count_
    BY <1>3 DEF WaitOver, Call, Counted, Counters
  <2> QED
    BY <2>1 DEF Counters
<1>4. ASSUME Destroy \/ LatchDone \/ UNCHANGED latchVars
      PROVE count_' = Cardinality(Counters \ Counted)'
  <2>1. call' = call /\ count_' = count_
    BY <1>4 DEF Destroy, LatchDone, latchVars, latch
  <2> QED
    BY <2>1 DEF Counters, Counted
<1> QED
  BY <1>1, <1>2, <1>3, <1>4 DEF LatchNext, LatchStep

LEMMA CallsKept ==
  ASSUME LatchCore, [LatchNext]_latchVars
  PROVE  call' \in [Threads -> {"none", "begun", "over", "returned"}]
         /\ alive' \in BOOLEAN /\ CallsInStep'
<1> DEFINE P == call \in [Threads -> {"none", "begun", "over", "returned"}]
                /\ alive \in BOOLEAN /\ CallsInStep
<1> SUFFICES P'
  OBVIOUS
<1> USE DEF LatchCore, LatchTypeOK, MonitorTypeOK, CallsInStep, Places
<1>1. ASSUME NEW t \in Threads, Begin(t) PROVE P'
  BY <1>1 DEF Begin, Call, Lock, Move
<1>2. ASSUME NEW t \in Threads, Assign(t) PROVE P'
  BY <1>2 DEF Assign, AssignHolder, Move, latch
<1>3. ASSUME NEW t \in Threads, Unassign(t) PROVE P'
  BY <1>3 DEF Unassign, UnassignHolder, Move, latch
<1>4. ASSUME NEW t \in Threads, Return(t) PROVE P'
  BY <1>4 DEF Return, Unlock, Move, Call
<1>5. ASSUME NEW t \in Threads, Decrement(t) PROVE P'
  <2>1. call' = [call EXCEPT ![t] = "over"] /\ call[t] = "begun" /\ at[t] = "in" /\ alive' = alive
    BY <1>5 DEF Decrement, Call
  <2>2. \A u \in Threads :
          at'[u] = IF at[u] = "waiting" /\ IsLast(count_') THEN "relock" ELSE at[u]
    BY <1>5 DEF Decrement, NotifyAll, monitor
  <2> QED
    BY <2>1, <2>2
<1>6. ASSUME NEW t \in Threads, Sleep(t) PROVE P'
  BY <1>6 DEF Sleep, BeginWait, Move, latch
<1>7. ASSUME NEW t \in Threads, WaitOver(t) PROVE P'
  BY <1>7 DEF WaitOver, Call, monitor
<1>8. ASSUME NEW t \in Threads, InWait(t) PROVE P'
  BY <1>8 DEF InWait, CondWait, Wake, Relock, Move, latch
<1>9. ASSUME Destroy \/ LatchDone \/ UNCHANGED latchVars PROVE P'
  BY <1>9 DEF Destroy, LatchDone, latchVars, latch, monitor
<1> QED
  BY <1>1, <1>2, <1>3, <1>4, <1>5, <1>6, <1>7, <1>8, <1>9 DEF LatchNext, LatchStep

(* When the waiter finds count_ = 0 the others are out of the latch.       *)
LEMMA OutBeforeTheWaiter ==
  ASSUME LatchCore, WaitOver(Waiter)
  PROVE  OthersReturned
<1>1. at[Waiter] = "in" /\ count_ = 0
  BY CountersFinite DEF WaitOver, MustWait, LatchCore, LatchTypeOK
<1>2. Counters \ Counted = {}
  BY <1>1, CountersFinite, FS_EmptySet DEF LatchCore, LatchTypeOK
<1>3. ASSUME NEW t \in Counters PROVE call[t] = "returned"
  <2>1. call[t] \in {"over", "returned"} /\ t \in Threads /\ t # Waiter
    BY <1>2, <1>3 DEF Counted, Counters
  <2>2. t \notin Owners
    BY <1>1, <2>1, WaiterAssumption DEF LatchCore, MonitorInv, MutualExclusion, Owners
  <2> QED
    BY <2>1, <2>2 DEF LatchCore, CallsInStep, Owners
<1> QED
  BY <1>3 DEF OthersReturned

LEMMA LatchCoreGoesOn == LatchCore /\ [LatchNext]_latchVars => LatchCore'
<1> SUFFICES ASSUME LatchCore, [LatchNext]_latchVars PROVE LatchCore'
  OBVIOUS
<1>1. MonitorInv'
  BY LatchOnTheMonitor, MonitorGoesOn DEF LatchCore
<1>2. LatchTypeOK' /\ CallsInStep'
  BY <1>1, CountKept, CallsKept DEF LatchTypeOK, MonitorInv
<1>3. call'[Waiter] \in {"over", "returned"} => OthersReturned'
  <2> USE WaiterAssumption DEF LatchCore, LatchTypeOK, OthersReturned, Counters
  <2>1. ASSUME NEW t \in Threads, WaitOver(t) PROVE OthersReturned'
    <3>1. t = Waiter /\ call' = [call EXCEPT ![Waiter] = "over"]
      BY <2>1 DEF WaitOver, Call
    <3> QED
      BY <2>1, <3>1, OutBeforeTheWaiter
  <2>2. ASSUME NEW t \in Threads, Begin(t) \/ Return(t) \/ Decrement(t)
        PROVE call'[Waiter] \in {"over", "returned"} => OthersReturned'
    BY <2>2 DEF Begin, Return, Decrement, Call
  <2>3. ASSUME call' = call
        PROVE call'[Waiter] \in {"over", "returned"} => OthersReturned'
    BY <2>3
  <2> QED
    BY <2>1, <2>2, <2>3
       DEF LatchNext, LatchStep, Assign, Unassign, Sleep, InWait, Destroy, LatchDone,
           latchVars, latch
<1> QED
  BY <1>1, <1>2, <1>3 DEF LatchCore

LEMMA LatchGoesOn == LatchInv /\ [LatchNext]_latchVars => LatchInv'
<1> SUFFICES ASSUME LatchInv, [LatchNext]_latchVars PROVE LatchInv'
  OBVIOUS
<1>1. LatchCore'
  BY LatchCoreGoesOn DEF LatchInv
<1>2. ~alive' => call'[Waiter] = "returned"
  BY WaiterAssumption
     DEF LatchInv, LatchCore, LatchTypeOK, LatchNext, LatchStep, Begin, Assign, Unassign,
         Return, Decrement, Sleep, WaitOver, InWait, Destroy, LatchDone, latchVars, latch, Call
<1> QED
  BY <1>1, <1>2 DEF LatchInv

LEMMA LatchInvariance == LatchSpec => []LatchInv
  BY LatchStarts, LatchGoesOn, PTL DEF LatchSpec

(* For any finite set of threads that count down: a waiter whose wait()    *)
(* has returned may destroy the latch, nobody is in it nor will be         *)
(* (CountDownLatch.cc:16-31).                                              *)
THEOREM SafeToDestroy == LatchSpec => []NobodyInDestroyedLatch
<1>1. LatchInv => NobodyInDestroyedLatch
  BY WaiterAssumption
     DEF LatchInv, LatchCore, NobodyInDestroyedLatch, OthersReturned, Counters, CallsInStep
<1> QED
  BY <1>1, LatchInvariance, PTL

(* count_ is the number of threads that have not counted down.             *)
THEOREM CountCorrect == LatchSpec => []LatchTypeOK
<1>1. LatchInv => LatchTypeOK
  BY DEF LatchInv, LatchCore
<1> QED
  BY <1>1, LatchInvariance, PTL

(* A latch does with its monitor only what a monitor allows, so that       *)
(* holder_ names the thread inside the latch and no other (Mutex.h:136).   *)
THEOREM HolderInLatch == LatchSpec => []HolderIsInside
<1>1. LatchInit => MonitorInit
  BY DEF LatchInit
<1>2. LatchSpec => MonitorSpec
  BY <1>1, LatchOnTheMonitor, PTL DEF LatchSpec, MonitorSpec
<1> QED
  BY <1>2, HolderCorrect, PTL
-----------------------------------------------------------------------------
(* The steps a call has left, case by case.                                *)
StepsKnown(t) ==
  /\ OnceMore(t) \in 0..5 /\ StepsLeft(t) \in Nat
  /\ call[t] = "returned" => StepsLeft(t) = 0
  /\ call[t] = "over" => StepsLeft(t) = IF at[t] = "leaving" THEN 1 ELSE 2
  /\ call[t] \in {"none", "begun"} =>
       /\ at[t] \in {"out", "relock"} => StepsLeft(t) = 5 + OnceMore(t)
       /\ at[t] = "locked" => StepsLeft(t) = 4 + OnceMore(t)
       /\ at[t] = "in" => StepsLeft(t) = 3 + OnceMore(t)
       /\ at[t] = "giving" => StepsLeft(t) = 7
       /\ at[t] = "waiting" => StepsLeft(t) = 6

AllStepsKnown ==
  /\ call \in [Threads -> {"none", "begun", "over", "returned"}]
  /\ at \in [Threads -> Places] /\ count_ \in Nat /\ CallsInStep
  /\ \A t \in Threads : StepsKnown(t)

LEMMA StepsAreKnown == LatchCore => AllStepsKnown
<1> SUFFICES ASSUME LatchCore PROVE AllStepsKnown
  OBVIOUS
<1>1. ASSUME NEW t \in Threads PROVE StepsKnown(t)
  <2>1. call[t] \in {"none", "begun", "over", "returned"} /\ at[t] \in Places
    BY DEF LatchCore, LatchTypeOK, MonitorTypeOK
  <2>2. at[t] = "leaving" => call[t] = "over"
    BY DEF LatchCore, CallsInStep
  <2>3. OnceMore(t) \in 0..5
    BY DEF OnceMore
  <2> DEFINE left == CASE at[t] \in {"out", "relock"} -> 5 + OnceMore(t)
                       [] at[t] = "locked"  -> 4 + OnceMore(t)
                       [] at[t] = "in"      -> 3 + OnceMore(t)
                       [] at[t] = "giving"  -> 7
                       [] at[t] = "waiting" -> 6
  <2>4. /\ at[t] \in {"out", "relock"} => left = 5 + OnceMore(t)
        /\ at[t] = "locked" => left = 4 + OnceMore(t)
        /\ at[t] = "in" => left = 3 + OnceMore(t)
        /\ at[t] = "giving" => left = 7
        /\ at[t] = "waiting" => left = 6
    OBVIOUS
  <2>5. StepsLeft(t) = CASE call[t] = "returned" -> 0
                         [] call[t] = "over" -> IF at[t] = "leaving" THEN 1 ELSE 2
                         [] OTHER -> left
    BY DEF StepsLeft
  <2> HIDE DEF left
  <2>6. /\ call[t] = "returned" => StepsLeft(t) = 0
        /\ call[t] = "over" => StepsLeft(t) = IF at[t] = "leaving" THEN 1 ELSE 2
        /\ call[t] \in {"none", "begun"} => StepsLeft(t) = left
    BY <2>5
  <2> QED
    BY <2>1, <2>2, <2>3, <2>4, <2>6 DEF Places, StepsKnown
<1> QED
  BY <1>1, CountersFinite DEF AllStepsKnown, LatchCore, LatchTypeOK, MonitorTypeOK

(* A step changes the place of its thread, and what countDown() does.      *)
LEMMA OwnStepCounts ==
  ASSUME AllStepsKnown, AllStepsKnown', NEW t \in Threads, Goes(t)
  PROVE  StepsLeft(t)' < StepsLeft(t)
<1> DEFINE o == OnceMore(t)
           n == StepsLeft(t)
<1>1. /\ StepsKnown(t) /\ StepsKnown(t)'
      /\ call \in [Threads -> {"none", "begun", "over", "returned"}]
      /\ at \in [Threads -> Places] /\ count_ \in Nat
  BY DEF AllStepsKnown
<1>2. count_' = count_ => o' = o
  BY DEF OnceMore
<1>3. o \in 0..5 /\ o' \in 0..5
  BY <1>1 DEF StepsKnown
<1> HIDE DEF o, n
<1>4. CASE Begin(t)
  <2>1. call[t] = "none" /\ call'[t] = "begun" /\ at[t] = "out" /\ at'[t] = "locked" /\ o' = o
    BY <1>1, <1>2, <1>4 DEF Begin, Call, Lock, Move
  <2>2. n = 5 + o /\ n' = 4 + o'
    BY <1>1, <2>1 DEF StepsKnown, o, n
  <2> QED
    BY <1>3, <2>1, <2>2 DEF n
<1>5. CASE Assign(t)
  <2>1. call' = call /\ at[t] = "locked" /\ at'[t] = "in" /\ o' = o
    BY <1>1, <1>2, <1>5 DEF Assign, AssignHolder, Move, latch
  <2>2. call[t] \in {"none", "begun"}
    BY <2>1 DEF AllStepsKnown, CallsInStep
  <2>3. n = 4 + o /\ n' = 3 + o'
    BY <1>1, <2>1, <2>2 DEF StepsKnown, o, n
  <2> QED
    BY <1>3, <2>1, <2>3 DEF n
<1>6. CASE Unassign(t) \/ Return(t)
  <2>1. \/ call[t] = "over" /\ call'[t] = "over" /\ at[t] = "in" /\ at'[t] = "leaving"
        \/ call[t] = "over" /\ call'[t] = "returned" /\ at[t] = "leaving"
    BY <1>1, <1>6 DEF Unassign, Return, UnassignHolder, Unlock, Move, Call, latch
  <2> QED
    BY <1>1, <2>1 DEF StepsKnown
<1>7. CASE Decrement(t) \/ WaitOver(t)
  <2>1. call[t] = "begun" /\ call'[t] = "over" /\ at[t] = "in"
    BY <1>1, <1>7 DEF Decrement, WaitOver, Call
  <2>2. n = 3 + o /\ n' \in 1..2
    BY <1>1, <2>1 DEF StepsKnown, o, n
  <2> QED
    BY <1>3, <2>2 DEF n
<1>8. CASE Sleep(t)
  <2>1. /\ call[t] = "begun" /\ call'[t] = "begun" /\ at[t] = "in" /\ at'[t] = "giving"
        /\ t = Waiter /\ count_ > 0
    BY <1>1, <1>8 DEF Sleep, MustWait, BeginWait, Move, latch
  <2>2. n = 3 + o /\ n' = 7 /\ o = 5
    BY <1>1, <2>1 DEF StepsKnown, OnceMore, o, n
  <2> QED
    BY <2>2 DEF n
<1>9. CASE CondWait(t) /\ UNCHANGED latch
  <2>1. call' = call /\ at[t] = "giving" /\ at'[t] = "waiting"
    BY <1>1, <1>9 DEF CondWait, Move, latch
  <2>2. call[t] \in {"none", "begun"}
    BY <2>1 DEF AllStepsKnown, CallsInStep
  <2> QED
    BY <1>1, <2>1, <2>2 DEF StepsKnown
<1>10. CASE Relock(t) /\ UNCHANGED latch
  <2>1. call' = call /\ at[t] = "relock" /\ at'[t] = "locked" /\ o' = o
    BY <1>1, <1>2, <1>10 DEF Relock, Move, latch
  <2>2. call[t] \in {"none", "begun"}
    BY <2>1 DEF AllStepsKnown, CallsInStep
  <2>3. n = 5 + o /\ n' = 4 + o'
    BY <1>1, <2>1, <2>2 DEF StepsKnown, o, n
  <2> QED
    BY <1>3, <2>1, <2>3 DEF n
<1> QED
  BY <1>4, <1>5, <1>6, <1>7, <1>8, <1>9, <1>10 DEF Goes

(* A thread that stays where it is has no more steps left when the count   *)
(* goes down.                                                              *)
LEMMA OthersComeNearer ==
  ASSUME AllStepsKnown, AllStepsKnown', NEW t \in Threads, call'[t] = call[t],
         \/ at'[t] = at[t] /\ count_' <= count_
         \/ at[t] = "waiting" /\ at'[t] = "relock" /\ count_' = 0
  PROVE  StepsLeft(t)' <= StepsLeft(t)
<1>1. /\ StepsKnown(t) /\ StepsKnown(t)' /\ count_ \in Nat /\ count_' \in Nat
      /\ call[t] \in {"none", "begun", "over", "returned"} /\ at[t] \in Places
      /\ at[t] = "leaving" => call[t] = "over"
      /\ at[t] = "waiting" => call[t] \in {"none", "begun"}
  BY DEF AllStepsKnown, CallsInStep
<1> DEFINE o == OnceMore(t)
           n == StepsLeft(t)
<1>2. count_' <= count_ => o' <= o
  BY <1>1 DEF OnceMore
<1>3. count_' = 0 => o' = 0
  BY DEF OnceMore
<1>4. o \in 0..5 /\ o' \in 0..5 /\ n \in Nat /\ n' \in Nat
  BY <1>1 DEF StepsKnown
<1> HIDE DEF o, n
<1>5. CASE call[t] \in {"over", "returned"} /\ at'[t] = at[t]
  BY <1>1, <1>5 DEF StepsKnown
<1>6. CASE call[t] \in {"none", "begun"} /\ at'[t] = at[t] /\ count_' <= count_
  <2>1. /\ at[t] \in {"out", "relock"} => n = 5 + o /\ n' = 5 + o'
        /\ at[t] = "locked" => n = 4 + o /\ n' = 4 + o'
        /\ at[t] = "in" => n = 3 + o /\ n' = 3 + o'
        /\ at[t] \in {"giving", "waiting"} => n' = n
    BY <1>1, <1>6 DEF StepsKnown, o, n
  <2>2. at[t] \in {"out", "relock", "locked", "in", "giving", "waiting"}
    BY <1>1, <1>6 DEF Places
  <2> QED
    BY <1>2, <1>4, <1>6, <2>1, <2>2 DEF n
<1>7. CASE at[t] = "waiting" /\ at'[t] = "relock" /\ count_' = 0
  <2>1. n = 6 /\ n' = 5 + o'
    BY <1>1, <1>7 DEF StepsKnown, o, n
  <2> QED
    BY <1>3, <1>7, <2>1 DEF n
<1> QED
  BY <1>1, <1>5, <1>6, <1>7

(* What EveryStepCounts says of one thread.                                *)
Nearer(t) ==
  /\ Goes(t) => StepsLeft(t)' < StepsLeft(t)
  /\ ~WokenByNobody => StepsLeft(t)' <= StepsLeft(t)

LEMMA StepsCount ==
  ASSUME AllStepsKnown, AllStepsKnown', NEW t \in Threads,
         (\E u \in Threads : LatchStep(u)) \/ UNCHANGED <<monitor, count_, call>>
  PROVE  Nearer(t)
<1>1. Goes(t) => StepsLeft(t)' < StepsLeft(t)
  BY OwnStepCounts
<1>2. StepsLeft(t) \in Nat /\ StepsLeft(t)' \in Nat
  BY DEF AllStepsKnown, StepsKnown
<1>3. ASSUME NEW u \in Threads, LatchStep(u), ~WokenByNobody
      PROVE  StepsLeft(t)' <= StepsLeft(t)
  <2>1. CASE u = t /\ Goes(t)
    BY <1>1, <1>2, <2>1
  <2>2. CASE Wake(u) /\ UNCHANGED latch
    <3>1. u # Waiter
      BY <1>3, <2>2 DEF WokenByNobody
    <3>2. at[u] # "waiting"
      BY <3>1 DEF AllStepsKnown, CallsInStep
    <3> QED
      BY <2>2, <3>2 DEF Wake, Move
  <2>3. CASE u # t /\ Goes(u)
    <3>1. /\ at \in [Threads -> Places] /\ count_ \in Nat /\ count_' \in Nat
          /\ call \in [Threads -> {"none", "begun", "over", "returned"}]
      BY DEF AllStepsKnown
    <3>2. CASE Decrement(u)
      <4>1. call'[t] = call[t] /\ count_' <= count_
        BY <2>3, <3>1, <3>2 DEF Decrement, Call
      <4>2. \/ at'[t] = at[t]
            \/ at[t] = "waiting" /\ at'[t] = "relock" /\ count_' = 0
        BY <2>3, <3>1, <3>2 DEF Decrement, IsLast, NotifyAll, monitor
      <4> QED
        BY <4>1, <4>2, OthersComeNearer
    <3>3. CASE ~Decrement(u)
      <4>1. call'[t] = call[t] /\ at'[t] = at[t] /\ count_' = count_
        BY <2>3, <3>1, <3>3
           DEF Goes, Begin, Assign, Unassign, Return, Sleep, WaitOver, CondWait, Relock,
               Lock, AssignHolder, UnassignHolder, Unlock, BeginWait, Move, Call, latch,
               monitor
      <4> QED
        BY <3>1, <4>1, OthersComeNearer
    <3> QED
      BY <3>2, <3>3
  <2> QED
    BY <1>3, <2>1, <2>2, <2>3 DEF LatchStep, Goes, InWait
<1>4. ASSUME UNCHANGED <<monitor, count_, call>>
      PROVE  StepsLeft(t)' <= StepsLeft(t)
  <2>1. call'[t] = call[t] /\ at'[t] = at[t] /\ count_' = count_ /\ count_ \in Nat
    BY <1>4 DEF monitor, AllStepsKnown
  <2> QED
    BY <2>1, OthersComeNearer
<1> QED
  BY <1>1, <1>3, <1>4 DEF Nearer

(* For any finite set of threads: wait() and countDown() take at most ten  *)
(* steps, and five after the last countDown(); nothing that other threads  *)
(* do sets one back, since nobody is woken before count_ is 0              *)
(* (CountDownLatch.cc:16-31).                                              *)
THEOREM WaitSleepsOnce == LatchSpec => EveryStepCounts
<1>1. AllStepsKnown /\ AllStepsKnown' /\ [LatchNext]_latchVars
      => [\A t \in Threads : Nearer(t)]_latchVars
  BY StepsCount DEF LatchNext, Destroy, LatchDone
<1>2. LatchInv => AllStepsKnown
  BY StepsAreKnown DEF LatchInv
<1>3. LatchSpec => [][\A t \in Threads : Nearer(t)]_latchVars
  BY <1>1, <1>2, LatchInvariance, PTL DEF LatchSpec
<1> QED
  BY <1>3 DEF EveryStepCounts, Nearer
=============================================================================
