--------------------------- MODULE Monitor_proofs ---------------------------
(***************************************************************************)
(* The invariant of the monitor, for any set of threads.  It is inductive  *)
(* as the three conjuncts together: that holder_ is the thread inside      *)
(* needs that only one thread is past pthread_mutex_lock(), and that needs *)
(* the mutex to know which.  The step lemma is stated on MonitorNext so    *)
(* that every module on a monitor can cite it.                             *)
(***************************************************************************)
EXTENDS Monitor, TLAPS

MonitorInv == MonitorTypeOK /\ MutualExclusion /\ HolderIsInside

LEMMA MonitorStarts == MonitorInit => MonitorInv
  BY ThreadsAssumption
     DEF MonitorInit, MonitorInv, MonitorTypeOK, MutualExclusion, HolderIsInside, Places,
         Owners, isLockedByThisThread

LEMMA MonitorGoesOn == MonitorInv /\ [MonitorNext]_monitor => MonitorInv'
<1> SUFFICES ASSUME MonitorInv, [MonitorNext]_monitor PROVE MonitorInv'
  OBVIOUS
<1> USE ThreadsAssumption
    DEF MonitorInv, MonitorTypeOK, MutualExclusion, HolderIsInside, Owners, Places,
        isLockedByThisThread
<1>1. ASSUME NEW t \in Threads, Lock(t) PROVE MonitorInv'
  BY <1>1 DEF Lock, Move, Acquire
<1>2. ASSUME NEW t \in Threads, AssignHolder(t) PROVE MonitorInv'
  BY <1>2 DEF AssignHolder, Move
<1>3. ASSUME NEW t \in Threads, UnassignHolder(t) PROVE MonitorInv'
  BY <1>3 DEF UnassignHolder, Move
<1>4. ASSUME NEW t \in Threads, Unlock(t) PROVE MonitorInv'
  BY <1>4 DEF Unlock, Move
<1>5. ASSUME NEW t \in Threads, BeginWait(t) PROVE MonitorInv'
  BY <1>5 DEF BeginWait, Move
<1>6. ASSUME NEW t \in Threads, CondWait(t) PROVE MonitorInv'
  BY <1>6 DEF CondWait, Move
<1>7. ASSUME NEW t \in Threads, Wake(t) PROVE MonitorInv'
  BY <1>7 DEF Wake, Move
<1>8. ASSUME NEW t \in Threads, Relock(t) PROVE MonitorInv'
  BY <1>8 DEF Relock, Move, Acquire
<1>9. ASSUME Notify PROVE MonitorInv'
  BY <1>9 DEF Notify, Waiting
<1>10. ASSUME NotifyAll PROVE MonitorInv'
  BY <1>10 DEF NotifyAll
<1>11. ASSUME UNCHANGED monitor PROVE MonitorInv'
  BY <1>11 DEF monitor
<1> QED
  BY <1>1, <1>2, <1>3, <1>4, <1>5, <1>6, <1>7, <1>8, <1>9, <1>10, <1>11
     DEF MonitorNext

(* For every set of threads: types, and holder_ is 0 when the mutex is     *)
(* free, as the destructor of MutexLock asserts (Mutex.h:131).             *)
THEOREM MonitorTypeCorrect == MonitorSpec => []MonitorTypeOK
<1>1. MonitorInv => MonitorTypeOK
  BY DEF MonitorInv
<1> QED
  BY <1>1, MonitorStarts, MonitorGoesOn, PTL DEF MonitorSpec

(* For every set of threads: isLockedByThisThread() is true for the thread *)
(* inside the monitor and for no other, at any moment (Mutex.h:136-144).   *)
THEOREM HolderCorrect == MonitorSpec => []HolderIsInside
<1>1. MonitorInv => HolderIsInside
  BY DEF MonitorInv
<1> QED
  BY <1>1, MonitorStarts, MonitorGoesOn, PTL DEF MonitorSpec
=============================================================================
