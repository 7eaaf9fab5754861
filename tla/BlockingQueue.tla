--------------------------- MODULE BlockingQueue ---------------------------
(***************************************************************************)
(* src/BlockingQueue.h: an unbounded queue on a monitor, with any number   *)
(* of threads that put and take.  Items are numbered in the order of the   *)
(* calls of put().                                                         *)
(***************************************************************************)
EXTENDS Monitor, Sequences

CONSTANT MaxItems    \* bound of the model: calls of put()

ASSUME ItemsAssumption == MaxItems \in Nat

VARIABLES
  queue_,
  call,      \* where each thread is in its call: put; take (before or in
             \* the loop), front, pop (lines 56 and 57); over when only
             \* unlocking is left
  item,      \* its x or its front, the argument or the result; else 0
  puts       \* the puts that have begun, those still before the queue included

queueVars == <<queue_, call, item, puts>>
vars == <<monitor, queueVars>>

Init ==
  /\ MonitorInit
  /\ queue_ = << >> /\ call = [t \in Threads |-> "none"]
  /\ item = [t \in Threads |-> 0] /\ puts = 0

Call(t, from, to) == call[t] = from /\ call' = [call EXCEPT ![t] = to]

Holds(t, x) == item' = [item EXCEPT ![t] = x]

-----------------------------------------------------------------------------
(* MutexLockGuard lock(mutex_), at the beginning of put() and take(), and  *)
(* its destructor.                                                         *)

BeginPut(t) ==
  /\ puts < MaxItems /\ puts' = puts + 1
  /\ Lock(t) /\ Call(t, "none", "put") /\ Holds(t, puts + 1)
  /\ UNCHANGED queue_

BeginTake(t) == Lock(t) /\ Call(t, "none", "take") /\ UNCHANGED <<queue_, item, puts>>

Assign(t) == AssignHolder(t) /\ UNCHANGED queueVars

Unassign(t) == UnassignHolder(t) /\ call[t] = "over" /\ UNCHANGED queueVars

Return(t) ==
  Unlock(t) /\ Call(t, "over", "none") /\ Holds(t, 0) /\ UNCHANGED <<queue_, puts>>

-----------------------------------------------------------------------------
(* put() notifies one waiting taker, however many items there are already. *)

NotifyTaker_WhenEmpty == IF queue_ = << >> THEN Notify ELSE UNCHANGED monitor  \* mutation
NotifyTaker == Notify

PushBack(t) ==
  /\ at[t] = "in" /\ Call(t, "put", "over")
  /\ queue_' = Append(queue_, item[t])
  /\ NotifyTaker
  /\ UNCHANGED <<item, puts>>

(* take(): the loop of lines 52-54.  The queue is tested again after every *)
(* wake-up.                                                                *)
MustWait == queue_ = << >>

AfterWait_NoRetest == "front"       \* mutation: if for while
AfterWait == "take"

Sleep(t) == BeginWait(t) /\ call[t] = "take" /\ MustWait /\ UNCHANGED queueVars

InWait(t) == (CondWait(t) \/ Wake(t)) /\ UNCHANGED queueVars

Woken(t) == Relock(t) /\ Call(t, "take", AfterWait) /\ UNCHANGED <<queue_, item, puts>>

LeaveLoop(t) ==
  /\ at[t] = "in" /\ Call(t, "take", "front") /\ ~MustWait
  /\ UNCHANGED <<monitor, queue_, item, puts>>

(* Lines 56 and 57 read and remove the front as two steps, and are legal   *)
(* only while there is one: of an empty deque they read something and      *)
(* leave it empty here.                                                    *)
Oldest == IF queue_ = << >> THEN 0 ELSE Head(queue_)

Front(t) ==
  /\ at[t] = "in" /\ Call(t, "front", "pop") /\ Holds(t, Oldest)
  /\ UNCHANGED <<monitor, queue_, puts>>

PopFront(t) ==
  /\ at[t] = "in" /\ Call(t, "pop", "over")
  /\ queue_' = SubSeq(queue_, 2, Len(queue_))
  /\ UNCHANGED <<monitor, item, puts>>

-----------------------------------------------------------------------------
Step(t) ==
  \/ BeginPut(t) \/ BeginTake(t) \/ Assign(t) \/ Unassign(t) \/ Return(t)
  \/ PushBack(t) \/ Sleep(t) \/ InWait(t) \/ Woken(t)
  \/ LeaveLoop(t) \/ Front(t) \/ PopFront(t)

Next == \E t \in Threads : Step(t)

Spec == Init /\ [][Next]_vars

(* A thread in a call goes on, and one that wants the mutex gets it some   *)
(* time though others take it in between; no wait has to end by itself,    *)
(* and nobody has to call put() or take().                                 *)
Goes(t) ==
  \/ Assign(t) \/ Unassign(t) \/ Return(t)
  \/ PushBack(t) \/ Sleep(t) \/ Woken(t)
  \/ LeaveLoop(t) \/ Front(t) \/ PopFront(t)
  \/ CondWait(t) /\ UNCHANGED queueVars

FairSpec == Spec /\ \A t \in Threads : SF_vars(Goes(t))

-----------------------------------------------------------------------------
Taking == {"take", "front", "pop"}

Takers == {t \in Threads : call[t] \in Taking}
Awake  == {t \in Takers : at[t] \in {"locked", "in", "relock"}}

(* Types; only takers wait, and a thread has a call while it is inside.    *)
TypeOK ==
  /\ MonitorTypeOK
  /\ queue_ \in Seq(1..MaxItems) /\ puts \in 0..MaxItems /\ item \in [Threads -> 0..MaxItems]
  /\ call \in [Threads -> Taking \cup {"none", "put", "over"}]
  /\ \A t \in Threads :
       /\ call[t] = "none" <=> at[t] = "out"
       /\ at[t] \in {"giving", "waiting", "relock"} => call[t] = "take"
       /\ at[t] = "leaving" => call[t] = "over"
       /\ call[t] \in {"front", "pop"} => at[t] = "in"
       /\ call[t] = "put" => item[t] # 0

(* No wake-up is lost: while takers wait, there are at least as many       *)
(* takers awake as items in the queue.  One notify() for each put() is     *)
(* enough, even when the woken taker finds that another was faster         *)
(* (BlockingQueue.h:29-35, 48-59).                                         *)
NoLostWakeup == Waiting # {} => Len(queue_) <= Cardinality(Awake)

(* A waiting taker gets the item: the queue does not stay non-empty while  *)
(* somebody is in take().                                                  *)
QueueDrains ==
  (queue_ # << >> /\ Takers # {}) ~> (queue_ = << >> \/ Takers = {})

(* put() and take() are linearizable: a take() happens at pop_front(),     *)
(* although what it returns was read before, and what it tested before     *)
(* that, and a put() at push_back().  Nothing but the mutex and the second *)
(* test after a wait make the front read the front popped, and the queue   *)
(* not empty (BlockingQueue.h:29-59).                                      *)
Fifo == INSTANCE FifoQueue WITH
  Items <- 1..MaxItems,
  queue <- queue_,
  op    <- [t \in Threads |-> IF call[t] \in Taking THEN "take"
                              ELSE IF call[t] = "over" THEN "done" ELSE call[t]],
  item  <- [t \in Threads |-> IF call[t] \in Taking THEN 0 ELSE item[t]]
ImplementsFifoQueue == Fifo!Spec
=============================================================================
