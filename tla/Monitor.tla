------------------------------ MODULE Monitor ------------------------------
(***************************************************************************)
(* One MutexLock of src/Mutex.h and one Condition of src/Condition.{h,cc}  *)
(* on it.  The pthread mutex and the condition's wait set belong to the    *)
(* system and are given; holder_ is the code's own field, which lock(),    *)
(* unlock() and the waits have to keep in step with the mutex although     *)
(* they change the two one after the other.                                *)
(*                                                                         *)
(* The modules that stand on a monitor extend this one: they say when a    *)
(* thread takes which of the steps below, and what it does inside.         *)
(***************************************************************************)
EXTENDS Integers, FiniteSets

CONSTANTS
  Threads,     \* the threads, named by their ids (CurrentThread::tid())
  NoThread     \* the holder_ 0, which is no thread's id

ASSUME ThreadsAssumption == IsFiniteSet(Threads) /\ NoThread \notin Threads

VARIABLES
  mutex_,      \* the thread that has the pthread mutex
  holder_,
  at           \* how far each thread is in lock(), unlock() or a wait

monitor == <<mutex_, holder_, at>>

Places == {"out",      \* not in the monitor
           "locked",   \* has the mutex, holder_ not yet assigned
           "in",       \* inside
           "leaving",  \* holder_ unassigned, mutex not yet released
           "giving",   \* the same, on the way into a wait
           "waiting",  \* in the wait set of the condition
           "relock"}   \* woken, without the mutex

MonitorInit ==
  mutex_ = NoThread /\ holder_ = NoThread /\ at = [t \in Threads |-> "out"]

Move(t, from, to) == at[t] = from /\ at' = [at EXCEPT ![t] = to]

-----------------------------------------------------------------------------
(* lock(): pthread_mutex_lock(), then assignHolder().                      *)

Acquire(t) == mutex_ = NoThread /\ mutex_' = t /\ UNCHANGED holder_

Lock(t) == Move(t, "out", "locked") /\ Acquire(t)

AssignHolder_Lost(t) == Move(t, "locked", "in") /\ UNCHANGED <<mutex_, holder_>>  \* mutation
AssignHolder(t) == Move(t, "locked", "in") /\ holder_' = t /\ UNCHANGED mutex_

(* unlock(): unassignHolder(), then pthread_mutex_unlock().                *)
UnassignHolder(t) == Move(t, "in", "leaving") /\ holder_' = NoThread /\ UNCHANGED mutex_

Unlock(t) == Move(t, "leaving", "out") /\ mutex_' = NoThread /\ UNCHANGED holder_

-----------------------------------------------------------------------------
(* wait() and waitForSeconds(): an UnassignGuard around a call of pthread, *)
(* which gives the mutex back and joins the wait set in one step, and has  *)
(* the mutex again when it returns.  The guard then assigns holder_.       *)

BeginWait(t) == Move(t, "in", "giving") /\ holder_' = NoThread /\ UNCHANGED mutex_

CondWait(t) == Move(t, "giving", "waiting") /\ mutex_' = NoThread /\ UNCHANGED holder_

(* A time-out, or a wake-up that nobody caused.                            *)
Wake(t) == Move(t, "waiting", "relock") /\ UNCHANGED <<mutex_, holder_>>

Relock(t) == Move(t, "relock", "locked") /\ Acquire(t)

Waiting == {t \in Threads : at[t] = "waiting"}

(* notify() is lost when nobody waits.                                     *)
Notify ==
  /\ \/ Waiting = {} /\ UNCHANGED at
     \/ \E w \in Waiting : at' = [at EXCEPT ![w] = "relock"]
  /\ UNCHANGED <<mutex_, holder_>>

NotifyAll ==
  /\ at' = [t \in Threads |-> IF at[t] = "waiting" THEN "relock" ELSE at[t]]
  /\ UNCHANGED <<mutex_, holder_>>

-----------------------------------------------------------------------------
(* A monitor whose threads do whatever its interface allows: notify() may  *)
(* be called from outside too, as AsyncLogging::stop() does.               *)

MonitorNext ==
  \/ \E t \in Threads :
       \/ Lock(t) \/ AssignHolder(t) \/ UnassignHolder(t) \/ Unlock(t)
       \/ BeginWait(t) \/ CondWait(t) \/ Wake(t) \/ Relock(t)
  \/ Notify \/ NotifyAll

MonitorSpec == MonitorInit /\ [][MonitorNext]_monitor

(* The threads that have the mutex, as far as their own steps go.          *)
Owners == {t \in Threads : at[t] \in {"locked", "in", "leaving", "giving"}}

isLockedByThisThread(t) == holder_ = t

(* Types, and the destructor's assertion (Mutex.h:131): when nobody has    *)
(* the mutex, holder_ is 0.                                                *)
MonitorTypeOK ==
  /\ mutex_ \in Threads \cup {NoThread} /\ holder_ \in Threads \cup {NoThread}
  /\ at \in [Threads -> Places]
  /\ mutex_ = NoThread => holder_ = NoThread

(* The mutex is with the thread that went in; what pthread gives.          *)
MutualExclusion == \A t \in Threads : t \in Owners <=> mutex_ = t

(* isLockedByThisThread(), read by any thread at any moment, is true for   *)
(* the thread inside and for no other, not even one that waits in the      *)
(* monitor; so assertLocked() never fails inside (Mutex.h:136-144).        *)
HolderIsInside == \A t \in Threads : isLockedByThisThread(t) <=> at[t] = "in"
=============================================================================
