--------------------------- MODULE CountDownLatch ---------------------------
(***************************************************************************)
(* src/CountDownLatch.{h,cc}, used the way Thread and AsyncLogging use it: *)
(* one thread waits for the others to count down and then destroys the     *)
(* latch, while those it waited for may still be on their way out of it.   *)
(***************************************************************************)
EXTENDS Monitor

CONSTANT Waiter

ASSUME WaiterAssumption == Waiter \in Threads

Counters == Threads \ {Waiter}

VARIABLES
  count_,
  call,       \* of each thread: its one call on the latch
  alive       \* the latch has not been destroyed

latch == <<count_, call, alive>>
latchVars == <<monitor, latch>>

LatchInit ==
  /\ MonitorInit
  /\ count_ = Cardinality(Counters)
  /\ call = [t \in Threads |-> "none"] /\ alive = TRUE

Call(t, from, to) == call[t] = from /\ call' = [call EXCEPT ![t] = to]

(* MutexLockGuard lock(mutex_), and the end of its scope.                  *)
Begin(t)   == Lock(t) /\ Call(t, "none", "begun") /\ UNCHANGED <<count_, alive>>
Assign(t)  == AssignHolder(t) /\ UNCHANGED latch
Unassign(t) == UnassignHolder(t) /\ call[t] = "over" /\ UNCHANGED latch
Return(t)  == Unlock(t) /\ Call(t, "over", "returned") /\ UNCHANGED <<count_, alive>>

-----------------------------------------------------------------------------
(* countDown()                                                             *)

IsLast_OffByOne(n) == n = 1     \* mutation: the waiters are woken too early
IsLast(n) == n = 0

Decrement(t) ==
  /\ t \in Counters /\ at[t] = "in" /\ Call(t, "begun", "over")
  /\ count_' = count_ - 1
  /\ IF IsLast(count_') THEN NotifyAll ELSE UNCHANGED monitor
  /\ UNCHANGED alive

-----------------------------------------------------------------------------
(* wait(): the test is repeated after every wake-up.                       *)

MustWait_Once(t) == FALSE       \* mutation: wait() returns at once
MustWait(t) == count_ > 0

Sleep(t) ==
  /\ t = Waiter /\ call[t] = "begun" /\ MustWait(t)
  /\ BeginWait(t) /\ UNCHANGED latch

WaitOver(t) ==
  /\ t = Waiter /\ at[t] = "in" /\ ~MustWait(t)
  /\ Call(t, "begun", "over") /\ UNCHANGED <<monitor, count_, alive>>

InWait(t) == (CondWait(t) \/ Wake(t) \/ Relock(t)) /\ UNCHANGED latch

(* The destructor, run by the thread whose wait() has returned.            *)
Destroy ==
  /\ alive /\ call[Waiter] = "returned" /\ alive' = FALSE
  /\ UNCHANGED <<monitor, count_, call>>

-----------------------------------------------------------------------------
LatchStep(t) ==
  \/ Begin(t) \/ Assign(t) \/ Unassign(t) \/ Return(t)
  \/ Decrement(t) \/ Sleep(t) \/ WaitOver(t) \/ InWait(t)

LatchDone == ~alive /\ (\A t \in Threads : call[t] = "returned") /\ UNCHANGED latchVars

LatchNext == (\E t \in Threads : LatchStep(t)) \/ Destroy \/ LatchDone

LatchSpec == LatchInit /\ [][LatchNext]_latchVars

(* Every thread goes on, and one that wants the mutex gets it some time    *)
(* though others take it in between; no wait has to end by itself.         *)
Goes(t) ==
  \/ Begin(t) \/ Assign(t) \/ Unassign(t) \/ Return(t)
  \/ Decrement(t) \/ Sleep(t) \/ WaitOver(t)
  \/ (CondWait(t) \/ Relock(t)) /\ UNCHANGED latch

LatchFairSpec == LatchSpec /\ \A t \in Threads : SF_latchVars(Goes(t))

-----------------------------------------------------------------------------
Counted == {t \in Counters : call[t] \in {"over", "returned"}}

(* Types, the count, and the assertion of the mutex's destructor.          *)
LatchTypeOK ==
  /\ MonitorTypeOK
  /\ count_ = Cardinality(Counters \ Counted)
  /\ call \in [Threads -> {"none", "begun", "over", "returned"}]
  /\ alive \in BOOLEAN

(* Once the latch is destroyed no thread is in it or will come: the last   *)
(* countDown() has left the mutex before wait() can return, so the waiter  *)
(* may destroy the latch at once (CountDownLatch.cc:16-31, Thread.cc:173). *)
NobodyInDestroyedLatch ==
  ~alive => \A t \in Threads : at[t] = "out" /\ call[t] = "returned"

(* How many steps of its own a thread has left at most, when no wait ends  *)
(* by itself.  A waiter that has found count_ > 0, or would, goes through  *)
(* the wait set once.                                                      *)
OnceMore(t) == IF t = Waiter /\ count_ > 0 THEN 5 ELSE 0

StepsLeft(t) ==
  CASE call[t] = "returned" -> 0
    [] call[t] = "over"     -> IF at[t] = "leaving" THEN 1 ELSE 2
    [] OTHER -> CASE at[t] \in {"out", "relock"} -> 5 + OnceMore(t)
                  [] at[t] = "locked"  -> 4 + OnceMore(t)
                  [] at[t] = "in"      -> 3 + OnceMore(t)
                  [] at[t] = "giving"  -> 7
                  [] at[t] = "waiting" -> 6

WokenByNobody == Wake(Waiter) /\ UNCHANGED latch

(* Every step of a thread in the latch brings its call nearer to the end,  *)
(* and no step of another sets it back: the waiter is woken when it will   *)
(* find count_ = 0 and not before, so that wait() sleeps once, unless a    *)
(* wake-up comes that nobody caused (CountDownLatch.cc:16-31).             *)
EveryStepCounts ==
  [][\A t \in Threads : /\ Goes(t) => StepsLeft(t)' < StepsLeft(t)
                        /\ ~WokenByNobody => StepsLeft(t)' <= StepsLeft(t)]_latchVars

(* wait() returns once all have counted down, even when no wake-up comes   *)
(* by itself: the last countDown() cannot slip between the test of count_  *)
(* and the wait.                                                           *)
WaitReturns == <>(call[Waiter] = "returned")
=============================================================================
