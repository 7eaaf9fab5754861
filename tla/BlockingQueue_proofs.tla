------------------------ MODULE BlockingQueue_proofs ------------------------
(***************************************************************************)
(* Theorems about BlockingQueue, for any finite set of threads and any     *)
(* number of items.  What is inductive is the monitor's own invariant, the *)
(* types, "who is on the way into the wait set saw an empty queue and has  *)
(* the mutex", "who has left the loop still sees an item, and who has read *)
(* the front still sees it", and the balance of items and awake takers.    *)
(***************************************************************************)
EXTENDS BlockingQueue, Monitor_proofs, FiniteSetTheorems

(* The queue is still empty when a taker joins the wait set.               *)
GivesUpOnEmpty == \A t \in Threads : at[t] = "giving" => queue_ = << >>

(* What take() has tested and read is still so.                            *)
FrontStands ==
  \A t \in Threads :
    /\ call[t] \in {"front", "pop"} => queue_ # << >>
    /\ call[t] = "pop" => item[t] = Head(queue_)

QueueInv == MonitorInv /\ TypeOK /\ GivesUpOnEmpty /\ FrontStands /\ NoLostWakeup

-----------------------------------------------------------------------------
(* Every step of the queue is one of the monitor, or leaves it alone.      *)
LEMMA OnTheMonitor == [Next]_vars => [MonitorNext]_monitor
  BY DEF Next, Step, BeginPut, BeginTake, Assign, Unassign, Return, PushBack,
         NotifyTaker, Sleep, InWait, Woken, LeaveLoop, Front, PopFront, MonitorNext, vars

LEMMA Starts == Init => QueueInv
<1> SUFFICES ASSUME Init PROVE QueueInv
  OBVIOUS
<1>1. MonitorInv
  BY MonitorStarts DEF Init
<1>2. TypeOK
  BY <1>1, ItemsAssumption DEF Init, MonitorInit, TypeOK, Taking, MonitorInv, Places
<1>3. GivesUpOnEmpty /\ FrontStands
  BY DEF Init, GivesUpOnEmpty, FrontStands
<1>4. NoLostWakeup
  BY DEF Init, MonitorInit, NoLostWakeup, Waiting
<1> QED
  BY <1>1, <1>2, <1>3, <1>4 DEF QueueInv

-----------------------------------------------------------------------------
LEMMA TypesKept == QueueInv /\ [Next]_vars => TypeOK'
<1> SUFFICES ASSUME QueueInv, [Next]_vars PROVE TypeOK'
  OBVIOUS
<1>1. MonitorTypeOK'
  BY MonitorGoesOn, OnTheMonitor DEF QueueInv, MonitorInv
<1> USE <1>1, ItemsAssumption DEF QueueInv, TypeOK, Taking, Call, Holds
<1> USE DEF MonitorTypeOK, Places
<1>2. ASSUME NEW t \in Threads, BeginPut(t) PROVE TypeOK'
  BY <1>2 DEF BeginPut, Lock, Move
<1>3. ASSUME NEW t \in Threads, BeginTake(t) PROVE TypeOK'
  BY <1>3 DEF BeginTake, Lock, Move
<1>4. ASSUME NEW t \in Threads, Assign(t) PROVE TypeOK'
  BY <1>4 DEF Assign, AssignHolder, Move, queueVars
<1>5. ASSUME NEW t \in Threads, Unassign(t) PROVE TypeOK'
  BY <1>5 DEF Unassign, UnassignHolder, Move, queueVars
<1>6. ASSUME NEW t \in Threads, Return(t) PROVE TypeOK'
  BY <1>6 DEF Return, Unlock, Move
<1>7. ASSUME NEW t \in Threads, PushBack(t) PROVE TypeOK'
  BY <1>7 DEF PushBack, NotifyTaker, Notify, Waiting
<1>8. ASSUME NEW t \in Threads, Sleep(t) PROVE TypeOK'
  BY <1>8 DEF Sleep, BeginWait, Move, queueVars
<1>9. ASSUME NEW t \in Threads, InWait(t) PROVE TypeOK'
  BY <1>9 DEF InWait, CondWait, Wake, Move, queueVars
<1>10. ASSUME NEW t \in Threads, Woken(t) PROVE TypeOK'
  BY <1>10 DEF Woken, AfterWait, Relock, Move
<1>11. ASSUME NEW t \in Threads, LeaveLoop(t) PROVE TypeOK'
  BY <1>11 DEF LeaveLoop, monitor
<1>12. ASSUME NEW t \in Threads, Front(t) PROVE TypeOK'
  <2>1. Oldest \in 0..MaxItems
    BY DEF Oldest
  <2> QED
    BY <1>12, <2>1 DEF Front, monitor
<1>13. ASSUME NEW t \in Threads, PopFront(t) PROVE TypeOK'
  BY <1>13 DEF PopFront, monitor
<1>14. ASSUME UNCHANGED vars PROVE TypeOK'
  BY <1>14 DEF vars, monitor, queueVars
<1> QED
  BY <1>2, <1>3, <1>4, <1>5, <1>6, <1>7, <1>8, <1>9, <1>10, <1>11, <1>12, <1>13, <1>14
     DEF Next, Step

(* Nobody else is inside.                                                  *)
LEMMA OneInside ==
  ASSUME QueueInv, NEW t \in Threads, NEW u \in Threads,
         at[t] \in {"in", "giving"}, at[u] \in {"in", "giving"}
  PROVE  t = u
  BY DEF QueueInv, MonitorInv, MutualExclusion, Owners

LEMMA EmptyKept == QueueInv /\ [Next]_vars => GivesUpOnEmpty'
<1> SUFFICES ASSUME QueueInv, [Next]_vars PROVE GivesUpOnEmpty'
  OBVIOUS
<1> USE DEF QueueInv, TypeOK, MonitorTypeOK, GivesUpOnEmpty
<1>1. ASSUME NEW t \in Threads, PushBack(t) PROVE GivesUpOnEmpty'
  BY <1>1, OneInside DEF PushBack, NotifyTaker, Notify, Waiting
<1>2. ASSUME NEW t \in Threads, Sleep(t) PROVE GivesUpOnEmpty'
  BY <1>2 DEF Sleep, BeginWait, Move, MustWait, queueVars
<1>3. ASSUME NEW t \in Threads, PopFront(t) PROVE GivesUpOnEmpty'
  BY <1>3, OneInside DEF PopFront, monitor
<1>4. ASSUME NEW t \in Threads,
             \/ BeginPut(t) \/ BeginTake(t) \/ Assign(t) \/ Unassign(t) \/ Return(t)
             \/ InWait(t) \/ Woken(t) \/ LeaveLoop(t) \/ Front(t)
      PROVE GivesUpOnEmpty'
  BY <1>4 DEF BeginPut, BeginTake, Assign, Unassign, Return, InWait, Woken, LeaveLoop, Front,
              Lock, AssignHolder, UnassignHolder, Unlock, CondWait, Wake, Relock, Move,
              monitor, queueVars
<1>5. ASSUME UNCHANGED vars PROVE GivesUpOnEmpty'
  BY <1>5 DEF vars, monitor, queueVars
<1> QED
  BY <1>1, <1>2, <1>3, <1>4, <1>5 DEF Next, Step

LEMMA FrontKept == QueueInv /\ [Next]_vars => FrontStands'
<1> SUFFICES ASSUME QueueInv, [Next]_vars PROVE FrontStands'
  OBVIOUS
<1> USE DEF QueueInv, TypeOK, Taking, FrontStands, Call, Holds
<1>1. ASSUME NEW t \in Threads, at[t] = "in"
      PROVE \A u \in Threads : u # t => call[u] \notin {"front", "pop"}
  BY <1>1, OneInside
<1>2. ASSUME NEW t \in Threads, PushBack(t) PROVE FrontStands'
  BY <1>1, <1>2 DEF PushBack
<1>3. ASSUME NEW t \in Threads, LeaveLoop(t) PROVE FrontStands'
  BY <1>1, <1>3 DEF LeaveLoop, MustWait
<1>4. ASSUME NEW t \in Threads, Front(t) PROVE FrontStands'
  BY <1>1, <1>4 DEF Front, Oldest
<1>5. ASSUME NEW t \in Threads, PopFront(t) PROVE FrontStands'
  BY <1>1, <1>5 DEF PopFront
<1>6. ASSUME NEW t \in Threads,
             \/ BeginPut(t) \/ BeginTake(t) \/ Assign(t) \/ Unassign(t) \/ Return(t)
             \/ Sleep(t) \/ InWait(t) \/ Woken(t)
      PROVE FrontStands'
  BY <1>6 DEF BeginPut, BeginTake, Assign, Unassign, Return, Sleep, InWait, Woken, AfterWait,
              queueVars
<1>7. ASSUME UNCHANGED vars PROVE FrontStands'
  BY <1>7 DEF vars, queueVars
<1> QED
  BY <1>2, <1>3, <1>4, <1>5, <1>6, <1>7 DEF Next, Step

-----------------------------------------------------------------------------
(* The balance of items and awake takers.                                  *)

LEMMA AwakeFinite ==
  /\ IsFiniteSet(Awake) /\ Cardinality(Awake) \in Nat
  /\ IsFiniteSet(Awake') /\ Cardinality(Awake') \in Nat
<1>1. Awake \subseteq Threads /\ Awake' \subseteq Threads
  BY DEF Awake, Takers
<1> QED
  BY <1>1, ThreadsAssumption, FS_Subset, FS_CardinalityType

(* Steps that move no item, send nobody to sleep and leave the awake       *)
(* takers awake.                                                           *)
LEMMA BalanceByMore ==
  ASSUME QueueInv, queue_' = queue_,
         Waiting' \subseteq Waiting, Awake \subseteq Awake'
  PROVE  NoLostWakeup'
<1>1. Cardinality(Awake) <= Cardinality(Awake')
  BY AwakeFinite, FS_Subset
<1>2. Len(queue_) \in Nat
  BY DEF QueueInv, TypeOK
<1> QED
  BY <1>1, <1>2, AwakeFinite DEF QueueInv, NoLostWakeup

LEMMA BalanceOfPush ==
  ASSUME QueueInv, NEW t \in Threads, PushBack(t)
  PROVE  NoLostWakeup'
<1> USE DEF QueueInv, TypeOK, Taking, MonitorTypeOK
<1>1. CASE Waiting = {}
  <2>1. Waiting' = {}
    BY <1>1 DEF PushBack, NotifyTaker, Notify, Waiting
  <2> QED
    BY <2>1 DEF NoLostWakeup
<1>2. CASE Waiting # {}
  <2>1. PICK w \in Waiting : at' = [at EXCEPT ![w] = "relock"]
    BY <1>2 DEF PushBack, NotifyTaker, Notify
  <2>2. w \in Threads /\ at[w] = "waiting" /\ call[w] = "take"
    BY <2>1 DEF Waiting
  <2>3. call[t] = "put" /\ call' = [call EXCEPT ![t] = "over"]
    BY DEF PushBack, Call
  <2>4. Awake' = Awake \cup {w} /\ w \notin Awake
    BY <2>1, <2>2, <2>3 DEF Awake, Takers
  <2>5. Cardinality(Awake') = Cardinality(Awake) + 1
    BY <2>4, AwakeFinite, FS_AddElement
  <2>6. Len(queue_') = Len(queue_) + 1
    BY DEF PushBack
  <2>7. Len(queue_) <= Cardinality(Awake)
    BY <1>2 DEF NoLostWakeup
  <2> QED
    BY <2>5, <2>6, <2>7, AwakeFinite DEF NoLostWakeup
<1> QED
  BY <1>1, <1>2

LEMMA BalanceOfPop ==
  ASSUME QueueInv, NEW t \in Threads, PopFront(t)
  PROVE  NoLostWakeup'
<1> USE DEF QueueInv, TypeOK, Taking, MonitorTypeOK
<1>1. /\ at[t] = "in" /\ call[t] = "pop" /\ call' = [call EXCEPT ![t] = "over"]
      /\ UNCHANGED at
  BY DEF PopFront, Call, monitor
<1>2. Awake' = Awake \ {t} /\ t \in Awake
  BY <1>1 DEF Awake, Takers
<1>3. Cardinality(Awake') = Cardinality(Awake) - 1
  BY <1>2, AwakeFinite, FS_RemoveElement
<1>4. Len(queue_') = Len(queue_) - 1
  <2>1. queue_ # << >>
    BY <1>1 DEF FrontStands
  <2>2. queue_' = Tail(queue_)
    BY <2>1 DEF PopFront
  <2> QED
    BY <2>1, <2>2
<1>5. Waiting' = Waiting
  BY <1>1 DEF Waiting
<1> QED
  BY <1>3, <1>4, <1>5, AwakeFinite DEF NoLostWakeup

LEMMA BalanceKept == QueueInv /\ [Next]_vars => NoLostWakeup'
<1> SUFFICES ASSUME QueueInv, [Next]_vars PROVE NoLostWakeup'
  OBVIOUS
<1> USE DEF QueueInv, TypeOK, Taking, MonitorTypeOK
<1>1. ASSUME NEW t \in Threads,
             \/ BeginPut(t) \/ BeginTake(t) \/ Assign(t) \/ Unassign(t) \/ Return(t)
             \/ LeaveLoop(t) \/ Front(t)
      PROVE NoLostWakeup'
  <2>1. queue_' = queue_ /\ Waiting' \subseteq Waiting /\ Awake \subseteq Awake'
    BY <1>1 DEF BeginPut, BeginTake, Assign, Unassign, Return, LeaveLoop, Front, Lock,
                AssignHolder, UnassignHolder, Unlock, Move, Call, monitor, queueVars,
                Waiting, Awake, Takers
  <2> QED
    BY <2>1, BalanceByMore
<1>2. ASSUME NEW t \in Threads, PushBack(t) PROVE NoLostWakeup'
  BY <1>2, BalanceOfPush
<1>3. ASSUME NEW t \in Threads, PopFront(t) PROVE NoLostWakeup'
  BY <1>3, BalanceOfPop
<1>4. ASSUME NEW t \in Threads, Sleep(t) \/ (CondWait(t) /\ UNCHANGED queueVars)
      PROVE NoLostWakeup'
  <2>1. queue_' = << >>
    BY <1>4 DEF Sleep, MustWait, CondWait, Move, GivesUpOnEmpty, queueVars
  <2> QED
    BY <2>1, AwakeFinite DEF NoLostWakeup
<1>5. ASSUME NEW t \in Threads, (Wake(t) /\ UNCHANGED queueVars) \/ Woken(t)
      PROVE NoLostWakeup'
  <2>1. queue_' = queue_ /\ Waiting' \subseteq Waiting /\ Awake \subseteq Awake'
    BY <1>5 DEF Wake, Woken, AfterWait, Relock, Move, Call, queueVars, Waiting, Awake, Takers
  <2> QED
    BY <2>1, BalanceByMore
<1>6. ASSUME UNCHANGED vars PROVE NoLostWakeup'
  <2>1. queue_' = queue_ /\ Waiting' \subseteq Waiting /\ Awake \subseteq Awake'
    BY <1>6 DEF vars, monitor, queueVars, Waiting, Awake, Takers
  <2> QED
    BY <2>1, BalanceByMore
<1> QED
  BY <1>1, <1>2, <1>3, <1>4, <1>5, <1>6 DEF Next, Step, InWait

-----------------------------------------------------------------------------
LEMMA Invariance == Spec => []QueueInv
<1>1. QueueInv /\ [Next]_vars => QueueInv'
  <2>1. QueueInv /\ [Next]_vars => MonitorInv'
    BY OnTheMonitor, MonitorGoesOn DEF QueueInv
  <2> QED
    BY <2>1, TypesKept, EmptyKept, FrontKept, BalanceKept DEF QueueInv
<1> QED
  BY <1>1, Starts, PTL DEF Spec

(* For every finite set of threads and every number of items: no wake-up   *)
(* is lost (BlockingQueue.h:29-35, 48-59).                                 *)
THEOREM NoWakeupIsLost == Spec => []NoLostWakeup
<1>1. QueueInv => NoLostWakeup
  BY DEF QueueInv
<1> QED
  BY <1>1, Invariance, PTL

(* For every finite set of threads and every number of items: put() and    *)
(* take() are linearizable as the operations of a first-in first-out       *)
(* queue, because who has left the loop sees an item (FrontStands), and    *)
(* the same one twice (BlockingQueue.h:29-59).                             *)
THEOREM Refinement == Spec => ImplementsFifoQueue
<1> DEFINE op == [t \in Threads |-> IF call[t] \in Taking THEN "take"
                                    ELSE IF call[t] = "over" THEN "done" ELSE call[t]]
           it == [t \in Threads |-> IF call[t] \in Taking THEN 0 ELSE item[t]]
<1>1. Init => Fifo!Init
  BY DEF Init, Fifo!Init, Taking
<1>2. QueueInv /\ [Next]_vars => [Fifo!Next]_<<queue_, op, it>>
  <2> SUFFICES ASSUME QueueInv, [Next]_vars PROVE [Fifo!Next]_<<queue_, op, it>>
    OBVIOUS
  <2> USE DEF QueueInv, TypeOK, Taking, Call, Holds
  <2>1. ASSUME NEW t \in Threads, BeginPut(t) PROVE Fifo!Call(t)
    <3>1. puts + 1 \in 1..MaxItems
      BY <2>1, ItemsAssumption DEF BeginPut
    <3>2. Fifo!Becomes(t, "none", "put", puts + 1)
      BY <2>1 DEF BeginPut, Fifo!Becomes
    <3>3. \E x \in 1..MaxItems : Fifo!Becomes(t, "none", "put", x)
      BY <3>1, <3>2 DEF Fifo!Becomes
    <3>4. UNCHANGED queue_
      BY <2>1 DEF BeginPut
    <3> QED
      BY <3>3, <3>4 DEF Fifo!Call, Fifo!Becomes
  <2>2. ASSUME NEW t \in Threads, BeginTake(t) PROVE Fifo!Call(t)
    <3>1. Fifo!Becomes(t, "none", "take", 0)
      BY <2>2 DEF BeginTake, Fifo!Becomes
    <3> QED
      BY <2>2, <3>1 DEF BeginTake, Fifo!Call
  <2>3. ASSUME NEW t \in Threads, PushBack(t) PROVE Fifo!Put(t)
    BY <2>3 DEF PushBack, Fifo!Put, Fifo!Becomes
  <2>4. ASSUME NEW t \in Threads, PopFront(t) PROVE Fifo!Take(t)
    <3>1. queue_ # << >> /\ item[t] = Head(queue_)
      BY <2>4 DEF PopFront, FrontStands
    <3>2. queue_' = Tail(queue_)
      BY <2>4, <3>1 DEF PopFront
    <3>3. Fifo!Becomes(t, "take", "done", Head(queue_))
      BY <2>4, <3>1 DEF PopFront, Fifo!Becomes
    <3> QED
      BY <3>1, <3>2, <3>3 DEF Fifo!Take
  <2>5. ASSUME NEW t \in Threads, Return(t) PROVE Fifo!Return(t)
    BY <2>5 DEF Return, Fifo!Return, Fifo!Becomes
  <2>6. ASSUME NEW t \in Threads,
               \/ Assign(t) \/ Unassign(t) \/ Sleep(t) \/ InWait(t) \/ Woken(t)
               \/ LeaveLoop(t) \/ Front(t)
        PROVE UNCHANGED <<queue_, op, it>>
    BY <2>6 DEF Assign, Unassign, Sleep, InWait, Woken, AfterWait, LeaveLoop, Front, queueVars
  <2>7. ASSUME UNCHANGED vars PROVE UNCHANGED <<queue_, op, it>>
    BY <2>7 DEF vars, queueVars
  <2> QED
    BY <2>1, <2>2, <2>3, <2>4, <2>5, <2>6, <2>7 DEF Next, Step, Fifo!Next
<1> QED
  BY <1>1, <1>2, Invariance, PTL DEF Spec, ImplementsFifoQueue, Fifo!Spec
=============================================================================
