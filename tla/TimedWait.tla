----------------------------- MODULE TimedWait -----------------------------
(***************************************************************************)
(* Condition::waitForSeconds() of src/Condition.cc, with the clock it adds *)
(* the interval to, and CurrentThread::sleepUsec() of src/Thread.cc.  The  *)
(* clock may be set while somebody waits.  Time is in nanoseconds, of which*)
(* a second has only a few.                                                *)
(***************************************************************************)
EXTENDS Integers

CONSTANTS
  kNanoSecondsPerSecond, NanosPerMicro,
  Intervals,      \* what the callers wait for
  LastInstant,    \* bound of the model: the clock's last nanosecond
  MaxClockSets    \* bound of the model: how often the clock is set

kMicroSecondsPerSecond == kNanoSecondsPerSecond \div NanosPerMicro

ASSUME TimedWaitAssumption ==
  /\ NanosPerMicro \in Nat \ {0} /\ kMicroSecondsPerSecond \in Nat \ {0}
  /\ kMicroSecondsPerSecond * NanosPerMicro = kNanoSecondsPerSecond
  /\ Intervals \subseteq Nat /\ LastInstant \in Nat /\ MaxClockSets \in Nat

VARIABLES
  wall,           \* CLOCK_REALTIME
  lastCall,       \* the function that was called last
  waiting,        \* its call has not returned
  interval,       \* what it was called with, in nanoseconds
  abstime,        \* the struct timespec that was computed from it
  elapsed,        \* the time since the call
  moved,          \* how far the clock was moved since, forward or back
  clockSets,
  outcome         \* of the last call

waitVars == <<wall, lastCall, waiting, interval, abstime, elapsed, moved,
              clockSets, outcome>>

Timespec(sec, nsec) == [sec |-> sec, nsec |-> nsec]
Nanos(ts) == ts.sec * kNanoSecondsPerSecond + ts.nsec
IsTimespec(ts) == ts.nsec \in 0..(kNanoSecondsPerSecond - 1)

WaitInit ==
  /\ wall \in 0..(kNanoSecondsPerSecond - 1)
  /\ lastCall = "none" /\ waiting = FALSE /\ interval = 0
  /\ abstime = Timespec(0, 0) /\ elapsed = 0 /\ moved = 0 /\ clockSets = 0
  /\ outcome = "none"

Carry_Lost(nsec, nanoseconds) == nanoseconds \div kNanoSecondsPerSecond   \* mutation
Carry(nsec, nanoseconds) == (nsec + nanoseconds) \div kNanoSecondsPerSecond

Deadline(now, nanoseconds) ==
  Timespec(now.sec + Carry(now.nsec, nanoseconds),
           (now.nsec + nanoseconds) % kNanoSecondsPerSecond)

(* The kernel turns down a timespec whose tv_nsec is no part of a second.  *)
Enter(name, nanoseconds, ts) ==
  /\ ~waiting /\ outcome = "none" /\ lastCall' = name
  /\ abstime' = ts /\ interval' = nanoseconds /\ elapsed' = 0 /\ moved' = 0
  /\ IF IsTimespec(ts) THEN waiting' = TRUE /\ UNCHANGED outcome
                       ELSE outcome' = "EINVAL" /\ UNCHANGED waiting
  /\ UNCHANGED <<wall, clockSets>>

Return(result) ==
  /\ waiting /\ waiting' = FALSE /\ outcome' = result
  /\ UNCHANGED <<wall, lastCall, interval, abstime, elapsed, moved, clockSets>>

waitForSeconds(nanoseconds) ==
  LET now == Timespec(wall \div kNanoSecondsPerSecond, wall % kNanoSecondsPerSecond)
  IN Enter("waitForSeconds", nanoseconds, Deadline(now, nanoseconds))

sleepUsec(usec) ==
  Enter("sleepUsec", usec * NanosPerMicro,
        Timespec(usec \div kMicroSecondsPerSecond,
                 (usec % kMicroSecondsPerSecond) * NanosPerMicro))

(* pthread_cond_timedwait() looks at the clock, nanosleep() does not.      *)
Due ==
  \/ lastCall = "waitForSeconds" /\ wall >= Nanos(abstime)
  \/ lastCall = "sleepUsec" /\ elapsed >= Nanos(abstime)

TimeOut == Due /\ Return("ETIMEDOUT")

(* notify(), or no reason; a signal ends the sleep.                        *)
Woken == Return("woken")

(* The caller comes back to wait again.                                    *)
Again ==
  /\ ~waiting /\ outcome # "none" /\ outcome' = "none"
  /\ UNCHANGED <<wall, lastCall, waiting, interval, abstime, elapsed, moved, clockSets>>

TimeGoesOn ==
  /\ wall < LastInstant /\ wall' = wall + 1
  /\ elapsed' = IF waiting THEN elapsed + 1 ELSE elapsed
  /\ UNCHANGED <<lastCall, waiting, interval, abstime, moved, clockSets, outcome>>

SetClock ==
  /\ waiting /\ clockSets < MaxClockSets /\ clockSets' = clockSets + 1
  /\ wall' \in 0..LastInstant /\ moved' = moved + (wall' - wall)
  /\ UNCHANGED <<lastCall, waiting, interval, abstime, elapsed, outcome>>

WaitNext ==
  \/ \E d \in Intervals : waitForSeconds(d) \/ sleepUsec(d)
  \/ TimeOut \/ Woken \/ Again \/ TimeGoesOn \/ SetClock

WaitSpec == WaitInit /\ [][WaitNext]_waitVars

-----------------------------------------------------------------------------
(* Nobody is turned down for a carry that was left in tv_nsec, and a wait  *)
(* is over when its interval is, no sooner and no later: but a clock that  *)
(* is set back prolongs waitForSeconds() by as much, and one that is set   *)
(* forward cuts it short (the FIXME at Condition.cc:14).                   *)
Counted == elapsed + IF lastCall = "waitForSeconds" THEN moved ELSE 0
WaitsItsInterval ==
  outcome # "EINVAL" /\ (waiting => (Due <=> Counted >= interval))
=============================================================================
