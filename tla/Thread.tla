------------------------------- MODULE Thread -------------------------------
(***************************************************************************)
(* The life of a Thread object (src/Thread.{h,cc}) and of the thread it    *)
(* starts.  The new thread writes the object's tid_ and counts its latch_  *)
(* down through raw pointers (ThreadData), so the object, latch included,  *)
(* must live until it has; after that it runs func_ on its own data, and   *)
(* the object may go while it still runs (the destructor detaches).  The   *)
(* waiter of the latch is the thread that owns the object.                 *)
(*                                                                         *)
(* Either thread may fork() while it runs its own code.  In the new        *)
(* process there is only a copy of that thread, and what it had cached of  *)
(* itself is made anew there by afterFork() before fork() returns.         *)
(***************************************************************************)
EXTENDS CountDownLatch

CONSTANTS
  Child,      \* the id of the new thread
  Forked      \* the id of a forked process and of the thread in it

ASSUME ChildAssumption == 
  Threads = {Waiter, Child} /\ Child # Waiter /\ Forked \notin Threads

VARIABLES
  started_, joined_, tid_,
  parent,       \* where the owner is
  child,        \* where the new thread is in startThread()
  data,         \* the ThreadData, whose name_ t_threadName may point into
  t_cachedTid, t_threadName,     \* the new thread's own
  pthread,      \* what became of the pthread: joined or detached
  forked        \* t_cachedTid and t_threadName of the thread in a forked process

object == <<started_, joined_, tid_>>
its == <<data, t_cachedTid, t_threadName>>
threadVars == <<latchVars, object, parent, child, its, pthread, forked>>

Nobody == [t_cachedTid |-> NoThread, t_threadName |-> "unset"]

ThreadInit ==
  /\ LatchInit
  /\ started_ = FALSE /\ joined_ = FALSE /\ tid_ = NoThread
  /\ parent = "new" /\ child = "none" /\ pthread = "none"
  /\ data = "none" /\ t_cachedTid = NoThread /\ t_threadName = "unset"
  /\ forked = Nobody

-----------------------------------------------------------------------------
(* start(): the new thread may run before pthread_create() has returned.   *)

Create ==
  /\ parent = "new" /\ parent' = "creating"
  /\ started_' = TRUE /\ data' = "live" /\ child' = "entry" /\ pthread' = "joinable"
  /\ UNCHANGED <<latchVars, joined_, tid_, t_cachedTid, t_threadName, forked>>

(* pthread_create() fails and LOG_SYSFATAL ends the process.               *)
CreateFails ==
  /\ parent = "new" /\ parent' = "aborted" /\ data' = "deleted"
  /\ UNCHANGED <<latchVars, object, child, t_cachedTid, t_threadName, pthread, forked>>

Created ==
  /\ parent = "creating" /\ parent' = "waiting"
  /\ UNCHANGED <<latchVars, object, child, its, pthread, forked>>

OnLatch(t) == LatchStep(t) /\ UNCHANGED <<object, parent, child, its, pthread, forked>>

ParentOnLatch == parent = "waiting" /\ OnLatch(Waiter)

LatchWaitOver_NoWait == call[Waiter] = "none"   \* mutation: start() does not wait
LatchWaitOver == call[Waiter] = "returned"

StartReturns ==
  /\ parent = "waiting" /\ LatchWaitOver /\ parent' = "started"
  /\ UNCHANGED <<latchVars, object, child, its, pthread, forked>>

(* join(), and its return.                                                 *)
Join ==
  /\ parent = "started" /\ parent' = "joining"
  /\ joined_' = TRUE
  /\ UNCHANGED <<latchVars, started_, tid_, child, its, pthread, forked>>

JoinReturns ==
  /\ parent = "joining" /\ child = "ended" /\ parent' = "joined"
  /\ pthread' = "joined"
  /\ UNCHANGED <<latchVars, object, child, its, forked>>

MustDetach_Always == started_          \* mutation: joined_ is not looked at
MustDetach == started_ /\ ~joined_

Destructor ==
  /\ parent \in {"new", "started", "joined"} /\ parent' = "destroyed"
  /\ pthread' = IF MustDetach THEN "detached" ELSE pthread
  /\ alive' = FALSE
  /\ UNCHANGED <<monitor, count_, call, object, child, its, forked>>

-----------------------------------------------------------------------------
(* runInThread()                                                           *)

(* CurrentThread::tid() asks the system only when nothing is cached.       *)
CacheTid(cached, gettid) == IF cached = NoThread THEN gettid ELSE cached

Tid ==
  /\ child = "entry" /\ child' = "cached"
  /\ t_cachedTid' = CacheTid(t_cachedTid, Child)
  /\ UNCHANGED <<latchVars, object, parent, data, t_threadName, pthread, forked>>

WriteTid ==
  /\ child = "cached" /\ child' = "latch" /\ tid_' = t_cachedTid
  /\ UNCHANGED <<latchVars, started_, joined_, parent, its, pthread, forked>>

ChildOnLatch == child = "latch" /\ OnLatch(Child)

(* t_threadName points into the ThreadData while func_ runs.               *)
SetName ==
  /\ child = "latch" /\ call[Child] = "returned" /\ child' = "named"
  /\ t_threadName' = "data"
  /\ UNCHANGED <<latchVars, object, parent, data, t_cachedTid, pthread, forked>>

CallFunc ==
  /\ child = "named" /\ child' = "func"
  /\ UNCHANGED <<latchVars, object, parent, its, pthread, forked>>

FuncReturns ==
  /\ child = "func" /\ child' = "finished" /\ t_threadName' = "finished"
  /\ UNCHANGED <<latchVars, object, parent, data, t_cachedTid, pthread, forked>>

(* Whatever func_ throws, the process ends.                                *)
FuncThrows ==
  /\ child = "func" /\ child' = "crashed" /\ parent' = "aborted"
  /\ t_threadName' = "crashed"
  /\ UNCHANGED <<latchVars, object, data, t_cachedTid, pthread, forked>>

(* startThread() deletes the ThreadData, and the thread ends.              *)
DeleteData ==
  /\ child = "finished" /\ child' = "ended" /\ data' = "deleted"
  /\ UNCHANGED <<latchVars, object, parent, t_cachedTid, t_threadName, pthread, forked>>

-----------------------------------------------------------------------------
(* fork(), by the owner of the object or inside func_.                     *)

(* The tid of the owner was cached when the program was loaded.            *)
Cached(t) == IF t = Child THEN t_cachedTid ELSE CacheTid(NoThread, t)

AfterFork_KeepsTid(cached) == cached       \* mutation: what is cached stays
AfterFork(cached) == NoThread

Fork(t) ==
  /\ forked = Nobody
  /\ \/ t = Waiter /\ parent \in {"new", "started", "joined"}
     \/ t = Child /\ child = "func"
  /\ forked' = [t_cachedTid |-> CacheTid(AfterFork(Cached(t)), Forked),
                t_threadName |-> "main"]
  /\ UNCHANGED <<latchVars, object, parent, child, its, pthread>>

-----------------------------------------------------------------------------
Parent == Create \/ CreateFails \/ Created \/ ParentOnLatch \/ StartReturns
          \/ Join \/ JoinReturns \/ Destructor

NewThread == Tid \/ WriteTid \/ ChildOnLatch \/ SetName \/ CallFunc
             \/ FuncReturns \/ FuncThrows \/ DeleteData

(* The process has aborted, or both threads are through.                   *)
Over ==
  /\ \/ parent = "aborted"
     \/ parent = "destroyed" /\ child \in {"none", "ended"}
  /\ UNCHANGED threadVars

Running == parent # "aborted"

ThreadNext ==
  \/ Running /\ (Parent \/ NewThread \/ \E t \in Threads : Fork(t))
  \/ Over

ThreadSpec == ThreadInit /\ [][ThreadNext]_threadVars

(* Both threads go on inside start(); the mutex is not withheld for ever.  *)
ThreadFairSpec ==
  /\ ThreadSpec
  /\ SF_threadVars(Running /\ (Created \/ StartReturns \/ (ParentOnLatch /\ Goes(Waiter))))
  /\ SF_threadVars(Running /\ (Tid \/ WriteTid \/ ChildOnLatch))

-----------------------------------------------------------------------------
(* The new thread still has the pointers to tid_ and latch_ to use.        *)
UsesObject == child \in {"entry", "cached"} \/ (child = "latch" /\ call[Child] # "returned")

(* Nothing is used after it is gone.  A Thread object that is destroyed    *)
(* right after start() returned, without a join, is never touched by the   *)
(* thread it started, and nobody is in its latch (Thread.cc:70-75, 146-151 *)
(* and 175); and t_threadName, which the thread's log lines read, never    *)
(* points into a deleted ThreadData (Thread.cc:77-81 and 105).             *)
ObjectOutlivesItsUse ==
  /\ ~alive => ~UsesObject /\ (\A t \in Threads : at[t] = "out") /\ mutex_ = NoThread
  /\ t_threadName = "data" => data = "live"

(* Ids and the thread they belong to: once start() has returned, tid() is  *)
(* the new thread's id, though that thread wrote it (the assertion at      *)
(* Thread.cc:176); what a thread cached is its own id; and the thread of a *)
(* forked process has not kept the id of the one it is a copy of, so it    *)
(* knows itself as the main thread (Thread.cc:30-36, 113 and 121).         *)
OwnTid ==
  /\ parent \in {"started", "joining", "joined"} => tid_ = Child
  /\ t_cachedTid \in {NoThread, Child}
  /\ forked # Nobody => forked.t_cachedTid = Forked

(* A pthread is joined or detached, once: the destructor detaches what was *)
(* not joined, and only that (Thread.cc:146-151, 180-186).                 *)
ReapedOnce ==
  [][/\ pthread \in {"joined", "detached"} => pthread' = pthread
     /\ parent' = "destroyed" => pthread' # "joinable"]_threadVars

(* start() returns, however the latch's last countDown() and the wait for  *)
(* it are interleaved, unless the process ends.                            *)
StartEnds == parent = "creating" ~> parent \notin {"creating", "waiting"}
=============================================================================
