# A verification of the muduo asynchronous logger

The repository is a small C++ library cut out of muduo: an asynchronous logger
(`AsyncLogging`) and what it stands on: log files, log streams, threads,
mutexes, condition variables, latches, queues, dates and time zones.  This
directory holds TLA+ models of it, the TLC runs that check them on small
instances, and theorems checked by TLAPS.  Paths below are relative to the
repository's root.

## 1. Inventory

| Component | Source | State | Operations | What makes it correct |
|---|---|---|---|---|
| AsyncLogging | `src/AsyncLogging.{h,cc}` | four buffers and a queue, `running_`, the latch, the back end's locals | `append`, `start`, `stop`, destructor, `threadFunc` | buffers change hands whole and empty; lines come out in order, once, or are dropped with a notice; `start()` and `stop()` return |
| FixedBuffer, LogStream, Fmt | `src/LogStream.{h,cc}` | a byte array and a cursor | `<<`, `append`, `reset`, numeric conversions, `formatSI`, `formatIEC` | the cursor stays inside; what is short enough is never refused |
| Logger | `src/Logging.{h,cc}` | one `Impl` per statement; global level, output, flush and zone; a per-thread cache of the formatted second | constructor, `finish`, destructor, the set functions | a line carries the time of its own second; FATAL flushes before it aborts |
| LogFile | `src/LogFile.{h,cc}` | the current file, `count_`, `lastRoll_`, `lastFlush_`, `startOfPeriod_` | `append`, `flush`, `rollFile` | no file is opened twice; rolls lose nothing; sizes and days are kept within bounds |
| AppendFile, ReadSmallFile | `src/FileUtil.{h,cc}` | a `FILE*`, `writtenBytes_`; a descriptor and a buffer | `append`, `flush`, `readToString`, `readToBuffer` | what was flushed survives a crash; a read without error is complete |
| MutexLock, Condition | `src/Mutex.h`, `src/Condition.{h,cc}` | the pthread mutex, `holder_`, the wait set | `lock`, `unlock`, `wait`, `waitForSeconds`, `notify`, `notifyAll` | `holder_` is the thread inside, at every moment; a timed wait lasts its interval |
| CountDownLatch | `src/CountDownLatch.{h,cc}` | `count_` | `wait`, `countDown`, `getCount` | `wait()` returns, and the latch may then be destroyed |
| Thread, CurrentThread | `src/Thread.{h,cc}`, `src/CurrentThread.{h,cc}` | `started_`, `joined_`, `tid_`, the start latch, thread-local caches | `start`, `join`, destructor, `runInThread`, `afterFork`, `sleepUsec` | the new thread never touches a destroyed object; every pthread is reaped once; a thread's cached id is its own, in a forked process too |
| BlockingQueue | `src/BlockingQueue.h` | a deque | `put`, `take`, `size` | a FIFO queue; no wake-up is lost |
| Timestamp, Date, TimeZone | `src/Timestamp.cc`, `src/TimeStamp.h`, `src/Date.*`, `src/TimeZone.*` | values; the transition table of a zone | conversions | they agree with the calendar; local time leads back to where it came from |
| ptr_vector, scoped_ptr | `src/ptr_vector.h`, `src/scoped_ptr.h` | owning pointers | push, pop, clear, resize, swap, reset | every object has one owner or was freed once |
| StringPiece | `src/StringPiece.h` | a pointer and a length | set, cut, compare | all comparisons are one order |
| Atomic | `src/Atomic.h` | a word | read-modify-write | |
| Types, Exception, ProcessInfo | the files of those names | none, or what `/proc` says | pure helpers and system calls | |

How they interact.  A `LOG_XXX` statement builds a `Logger` on the stack, whose
`LogStream` collects one line in a `FixedBuffer` of 4000 bytes; the `Logger`'s
destructor hands the line to the global output function.  With asynchronous
logging that function is `AsyncLogging::append`, which copies the line under
`mutex_` into a buffer of 4 MB.  A full buffer is queued and the back end
notified.  The back-end thread, started through `Thread` and a `CountDownLatch`,
waits at most `flushInterval_` seconds on the `Condition`, swaps the queue with
an empty one, and writes the batch to a `LogFile`, which buffers it in an
`AppendFile` and starts a new file by size and by day.

What is hard here: the four buffers that travel between two threads; a wait in
an `if`; a `notify` without the lock; overload, where lines are dropped on
purpose; the end of the program, where they are dropped by accident; decisions
about rolling and flushing taken from a clock with one-second resolution; and
`holder_`, a field of the mutex kept in step with the kernel's idea of it.

## 2. Modules and the code they stand for

One module per component; modules that use another component's state machine
extend it, modules that only use its operators instantiate it.

    FixedBuffer <- AsyncLogging <- AsyncLoggingPipe (LogPipe) <- MCAsyncLogging
         ^             ^--------- FatalLogging <- MCFatalLogging
         |             ^--------- AsyncLogFile <- MCAsyncLogFile
         |    LogFile (DurableLog) --^
         |       ^---- MCLogFile
         +-- LogStream <- Logging <- MCLogging
    Monitor <- CountDownLatch <- Thread
         ^---- BlockingQueue (FifoQueue)
    Date, CInt <- UtcTime <- Calendar ------------------------+
    TimeZone <- MCTimeZone -----------------------------------+-- MCLibrary
    CInt <- Convert;  Units <- MCUnits;  TimedWait;           |
    PtrVector;  SmallFile;  StringPiece ----------------------+

Definitions keep the names of the code (`running_`, `getJulianDayNumber`); a
definition whose comment says "mutation" (`Kept_OnlyOne`) is a plausible bug that
some property must notice, and no action uses it.

**AsyncLogging.**  State: the members of the class, the locals of
`threadFunc()`, and for each of the two sequential actors where it is (`owner`
in `start()`/`stop()`, `bpc` in `threadFunc()`).  A line is the number of its
`append()` call.  What runs under `mutex_` is one action: `append()`
(`AppendInPlace`, or `AppendSwitch` when the current buffer is full) and the swap
(`SwapNow`, `SwapAfterWait`).  The wait, the unlocked reads of `running_`, each
`output.append()` and `output.flush()` are actions of their own, because front
ends run between them.  `file` is what the `LogFile` was given, `flushed` how
much of it was flushed; the `LogFile` itself may flush in any append
(`MayFlush`, `OutputFlushes`).  `lines`, `dropped`, `refused`, `notices` and `stopLine` are history
variables that only the properties read.

**LogPipe** is the promise: lines go in, come out oldest first, and runs of
neighbours may be lost for good.  `AsyncLoggingPipe` gives the mapping: the
lines in buffers are inside the pipe, `file` is what came out, dropped and refused
lines are lost.

**LogFile.**  An append is cut where the code reads the clock: `AppendLine`
(lines 61-72), `Check` (73-84), `Roll`.  `FlushCall` and `RollCall` are the public
`flush()` and `rollFile()`, `Tick` and `StepBack` the clock, `Crash` and `Restart` the
process.  `faults` says what may go wrong in a behaviour: the clock is set
back, writes fail, the process is killed.  `stdio` is the buffer
`fwrite_unlocked()` fills; the C library may push it out at any write.  A file's
name is its second and process id.  A line is either in the file or not: half a
line, which a crash or a full disk can leave, counts as none.  **DurableLog** is
the promise: one stream of lines of which a crash takes a tail, never what was
flushed.

**AsyncLogFile** puts the two together.  The steps of the logger that touch only
memory are those of an instance of `AsyncLogging`; the ones that call the
`LogFile` (its construction, the notice of dropped lines, each buffer written,
the flush) are written out here, over an instance of `LogFile` whose actions do
the file's part.  Front ends, the clock and a kill go on while the `LogFile` is
between its two looks at the clock.  `handed` is what `output.append()` was given;
the mapping to `AsyncLogging` takes it for `file` and the lines on disk for
`flushed`.

**Monitor.**  `mutex_` is the pthread mutex's owner, `holder_` the code's own
field, `at` how far each thread is in `lock()`, `unlock()` or a wait; the two
assignments of each are separate actions, as in the code.  A wait gives the mutex
away, may end on a notification or for no reason (`Wake` stands for time-outs
and spurious wake-ups), and takes the mutex back before it assigns `holder_`.
`CountDownLatch` and `BlockingQueue` say when a thread takes which of these steps
and what it does inside.  `Thread` puts the life of the object (parent) against
that of the new thread (child), which reaches the object through raw pointers
until it has counted the latch down.  `Fork` copies the thread that forks,
with what it had cached of itself, and runs `afterFork()` on the copy.

**LogStream, Logging.**  A line is the sequence of its pieces with their
lengths.  Each thread is in at most one statement: `Construct` (the clock is read
first), `CacheTime`, `AddHeader`, `Stream` per operand, `Finish`, `Output`,
`FatalFlush`, `FatalAbort`.  Level, functions and zone may be set between any two
of these, the clock runs (`Tick`) and, being the wall clock, may be set back
(`StepBack`).  Only the properties read `said`, the bytes a statement was given, and
`latest`, the highest second the clock has shown.  **FatalLogging** runs `~Logger()` of a FATAL statement on top of
`AsyncLogging`, set up as `tests/test_asynclog.cc` does.

**Date, UtcTime, TimeZone.**  The Julian day arithmetic and the UTC conversions,
operator by operator.  **Calendar** is the reference they are compared with: a
walk over days and years that knows the leap year rule and nothing else.
`TimeZone` has the constructor as actions, one per part of the file that can be
missing, and the lookups as operators on what was read.

**The rest of the library.**  `CInt` is C++'s division and remainder.  `Convert` is
the digit loop of `convert()` and `convertHex()`, one digit a step.  `Units` does
`formatSI()` and `formatIEC()` with exact doubles: a significand of `Precision`
bits, divisions and `printf` rounded as IEEE and the C library round them, and
`LastUnit` units, 6 in the code, 3 in `library` and 2 in `si_width`.  The size of a
unit is exact, as 10^18 is with 53 bits.  `TimedWait` is the deadline of `waitForSeconds()` and the
timespec of `sleepUsec()` against a clock that runs and is set.  `PtrVector`
follows every object from `new` to `delete` through two `ptr_vector`s, a `scoped_ptr`
and the `unique_ptr`s of `pop_back()`; each allocation may throw.  `SmallFile` is
`ReadSmallFile` on a file that others change, with reads that fail or come short.
`StringPiece` is two views of one memory and their comparisons.  None of these
interact; `MCLibrary` runs them side by side, one `subject` per behaviour.

## 3. Runs

| Run | States | What it shows |
|---|---|---|
| `pipeline` | 81,702 | The assertions of `threadFunc()` hold, buffers are handed over whole, and only lines longer than a buffer are refused (`HandOver`); every line is in one place (`NoSilentLoss`), in order (`Fifo`); the logger implements `LogPipe`; while it runs each line gets flushed, dropped or refused (`EventuallySettled`); `start()` and `stop()` return, although `stop()` notifies without the lock. |
| `stop_loses_lines` | violation | Lines appended before `stop()` may never be written (section 6). |
| `asyncfile` | 71,804 | With a real `LogFile` that rolls and flushes on its own, the logger is still `AsyncLogging` (`ImplementsAsyncLogging`); killed at any step it leaves on disk a beginning of what was handed over, in which every gap is a refused line or stands behind a notice (`GapsExplained`); a line reaches the disk (`EventuallyOnDisk`). |
| `logfile` | 331,813 | No file name twice (`NamesFresh`), lines in order (`LinesInOrder`), and the files together implement `DurableLog`, with kills, a clock set back, or a failing disk; while the clock only advances, at most `checkEveryN_` lines of the next day in a file (`FewLateLines`), and a file that is above `rollSize_` already takes one line more at most once its first second is over (`OneLineTooMany`). |
| `latch` | 188 | Three threads count down, one waits and destroys the latch at once: nobody is in it (`NobodyInDestroyedLatch`), `wait()` returns, after one sleep at most (`EveryStepCounts`), `holder_` is the thread inside (`HolderIsInside`). |
| `thread` | 208 | Joined or not, neither the object nor the thread's data is used after its end (`ObjectOutlivesItsUse`); ids are the thread's own, after `start()` and after `fork()` (`OwnTid`); every pthread is reaped once; `start()` ends. |
| `queue` | 1,578 | Three threads that put and take: `FifoQueue` is implemented, so that both are linearizable (`ImplementsFifoQueue`), no wake-up is lost, an item does not lie beside a waiting taker. |
| `logger` | 4,187,754 | Two threads log while the clock runs and is set back, and level, zone and functions change: the cursor stays inside (`CursorInside`); every piece of a short line is in it, and all of the trailer of a line that has room for it (`ShortLinesWhole`); the cached time text is of the line's own second, and of another zone than its suffix only in a line of a second that was not ahead of the clock when the zone was set (`TimeTextIsItsOwn`); a FATAL line is flushed before the abort. |
| `fatal_lost` | violation | With the asynchronous logger a FATAL line is not on disk at the abort. |
| `library` | 356,411 | `Date` and the UTC conversions agree with the walked calendar on every day; from the first change of a zone to its last the zone in force is the one applied (`ZoneInForce`), and local time leads back, also on a table that was broken off; digits denote the number; quantities fit their width and are nearest; a timed wait lasts its interval; every object has one owner or was deleted once; a read without error is complete; string comparisons are one order. |
| `zone_read` | violation | A zone file that breaks off, or is none, leaves a `valid()` zone. |
| `si_width` | violation | `formatSI()` of a number that a double does not hold may be longer than five characters. |

Bounds, and why they are enough to meet the hard cases:

* `pipeline`: a buffer of 3 bytes takes two lines of length 1, or one of 2, and
  refuses one of 3, since `append()` wants strictly more room than the line needs:
  below, at and above the boundary.  `MaxBuffers = 2` (25 in the code) and
  `MaxLines = 4` reach the overload branch with a line behind it, and
  `stop()` at every point of that.  Any number of front-end threads
  is covered, since `append()` is one critical section: a thread is whoever
  takes the lock next.
* `asyncfile`: one line fills a buffer (refused lines are in `pipeline`); a file is
  rolled after two buffers; the `LogFile` looks at the clock at every append and
  the clock ticks once, so that it flushes or not; five lines reach overload with
  lines behind the gap; a kill at every step.
* `logfile`: a day of 2 seconds, a look at the clock every 2 lines, files of 3
  bytes and lines of 1 or 2, so that rolls by size, by day and by hand meet in
  one second; a flush is due a second after the last one; one crash is enough for a restart over the files of the process
  before it.  The faults come as kills alone, kills with a clock set back, or a
  failing disk: all three at once add states and no case that two of them lack.
* `latch`, `queue`, `thread`: three counters or three users, so that one thread can
  overtake another that was woken.  These modules have no other bound than the
  three items of `queue`.
* `logger`: a stream of 16 bytes, 4 for a number; an operand of 5 bytes leaves
  just enough for the trailer and one of 9 does not.  Two statements, two seconds
  and two calls of the set functions, at any point, give every order of a cached
  second and a changed zone; the clock may be set back at any point, so that the
  cached second comes a second time, with another zone.
* `library`, calendar: every day of 1900 to 2500, the range `Date.h` documents, and
  every second of it under a clock of 2 seconds, 2 minutes and 2 hours, whose
  lengths the operators take as parameters.  All years are covered by theorems
  (section 5).  Zones: up to three
  changes one day apart between a standard time and its one-hour daylight saving
  time, east and west of GMT, every second from before the first to after the last.
* `library`, the rest: every number of 11 bits, signed and unsigned; 61 quantities
  around every threshold, unit and the end of the exact doubles; a second of 4
  nanoseconds and one setting of the clock, at any moment; four objects in two
  vectors; a file of up to 5 bytes read in pieces of at most 2, so that a read takes
  several calls; memory of 4 bytes with a 0 byte anywhere.
* `si_width`: doubles of 13 bits, which make the thresholds of the unit k what 53
  bits make those of P.

`fatal_lost` switches the deadlock check off: `abort()` stops the system.

## 4. Fairness

* `AsyncLogging`: weak fairness of the back end, timed wait included, and of the
  owner inside `start()` and `stop()`.  A thread that is not blocked gets to run,
  and `waitForSeconds()` ends by itself after `flushInterval_`; nobody has to call
  `append()` or `stop()`.  `StartAndStopReturn` needs the time-out: the notification of
  `stop()` can fall between the back end's test of `running_` and its wait.
* Monitors: strong fairness of each thread's steps inside a call.  A thread that
  wants the mutex gets it some time although others take it in between, which a
  weakly fair step does not give, since the mutex is free only now and then.  No
  wait has to end by itself, so a lost wake-up would be found.
* `Thread`: the same for both threads, only inside `start()`.  Nothing is assumed of
  the function the thread runs.
* `AsyncLogFile`: weak fairness of the back end while the process lives, the
  `LogFile` it is inside of included.  Nobody has to log, the clock may stop, and the
  kill may come or not.

## 5. What is proved

All theorems are checked by TLAPS, for every value of the constants that the
named `ASSUME`s admit: capacities and thresholds are natural numbers (a capacity of
at least 1, a shedding threshold of at least 2, the number of buffers that are
kept, where the code has 25), thread sets are finite, `NoThread` and `NoBuffer` are no
thread and no buffer.  Where a component needs more, it is said below.  All safety
properties, action properties and refinements that the passing runs check are theorems.

* **AsyncLogging** (`AsyncLogging_proofs`).  `TypeOK`, `HandOver`,
  `RefusedOnlyOversize`, and `FlushedWhenIdle`: what was written is flushed whenever
  the back end is not writing.  `HandOver` is not inductive: that a spare
  is there when it is handed over depends on who can have used it up.  `Inv` adds
  `Phases` (where the owner can be while the back end is where it is) and `Spares`
  (what the four buffers are in each phase): the front end loses its spare only by
  queueing a buffer, and this buffer comes back as the back end's second spare.
* **The pipe** (the second half of the same module).  `NoSilentLoss`, `Fifo`, and that
  `AsyncLogging` implements `LogPipe`.  The invariant `Accounted` adds `Ordered`: file,
  batch, queue and current buffer, read in this order, are one ascending sequence.
  One lemma per action shows that it keeps the account and which step of the
  pipe it is.
* **LogFile** (`LogFile_proofs`).  `NamesFresh` for any clock, disk and number of
  crashes, from: a process's files are no younger than `lastRoll_`, other
  processes' have other pids.  In behaviours whose clock is not set back, `FewLateLines`
  and `OneLineTooMany`, from: the lines that came late do not outnumber those
  counted since the last look (between appends), a file's period is that of its
  last roll, and a line too many is followed by a roll that is not refused.  `LinesInOrder` and the refinement of `DurableLog`, whatever fails, rest on
  one fact about each step: the files' contents followed by `stdio`, `Log`, grow at the
  end, lose an end or stay (`LogMoves`).  It needs the names: the current file is the
  last in the order in which a reader takes them.  `LinesInOrder` then follows since
  `Log` is ascending and no line in it is from the future.
* **AsyncLogFile** (`AsyncLogFile_proofs`), any capacities, thresholds, roll sizes and
  intervals.  `LoggerOverLogFile`: every step of the two together is a step of
  `AsyncLogging` or leaves it alone, so that all its theorems hold over the real
  `LogFile`.  `Shape` ties the parts together: what was handed over is what the files and
  `stdio` hold, as long as the process lives, and the `LogFile` is inside a call only where
  the back end is.  The lemmas of both parts are used through instances of their
  proofs.  `EveryGapIsExplained`: besides, for every dropped line there is a notice
  (`Noticed`) above which all lines are older, and below which older lines are
  among those of the two buffers that were kept.  Each of the two holds fewer lines
  than bytes, since it was filled by appends (`AllFilled`); a crash cuts off an end of what
  was handed over and nothing else (`Kept`).
* **Monitor, CountDownLatch, BlockingQueue.**  `HolderIsInside` for any threads;
  that the latch and the queue take only the monitor's steps; that a latch may be
  destroyed as soon as `wait()` returns, because who waits has the mutex when it sees
  0, and every other thread is then out of `countDown()`; `count_` is the number of
  threads still to come; no wake-up is lost; `BlockingQueue`
  implements `FifoQueue`, since whoever left the loop of `take()` still sees an item,
  and at `pop_front()` the one it read (`FrontStands`, from mutual exclusion and the
  test after each wait).
  `EveryStepCounts` is what can be proved of `wait()` returning: a bound on the steps a
  call has left (`StepsLeft`, 10 at most, 6 in the wait set) goes down with each of
  its own steps and never up, unless a wake-up comes that nobody caused.  With fairness
  and no deadlock, which the run checks, the call ends.
* **Thread** (`Thread_proofs`).  `ObjectOutlivesItsUse`, `OwnTid`, `ReapedOnce`.  The
  latch's invariant carries over, as `Thread` takes its steps one by one.  `Owned` says how
  far the owner is, `OnItsWay` how far the new thread is, and `Gone` that an object
  was destroyed only unstarted or after its `wait()` returned, which is after the last
  touch of the new thread.  `EveryStepCounts` holds inside `start()` too.
* **Logging** (`Library_proofs`), any threads, sinks, zones, operands and levels, and any
  stream with room for a number.  `CursorInside`; `ShortLinesWhole`, from `TrailerIsWhole`: with
  a number's room to spare none of the five appends of `finish()` is refused, and from
  `AllIn`: while what a statement was given leaves that room, all of it is in the stream;
  `TimeTextIsItsOwn`, from `TimeKnown`: a thread's cached text is that of the second next
  to it, and of an older zone only when that second is not after the latest one that the
  clock had shown when the zone was set; `FatalLineFlushed`, from `LinesSafe`: between output and flush a line is in its sink's
  buffer or was flushed by somebody else.
* **Dates** (`Library_proofs`), for all years from 0 on that include 2000, where the walk
  begins, and any length of minutes, hours and days.
  Number, date and weekday repeat every 400 years.  `DateOfEveryDay` and `UtcRoundTrip`:
  `DaysBefore` sums up the reference calendar; `getJulianDayNumber()` equals it month by
  month, and `getYearMonthDay()` finds the date again since, in years that begin in
  March, centuries, years and months are each a division with a remainder below the
  divisor.
* **The rest** (`Library_proofs`).  `ZoneInForce`: `ZoneInv` keeps the changes in order,
  however far the file was read, and from the first of them to the last the search ends
  at the latest one that is not after the time, for any file that has its transitions in order
  (`ZoneFilesAssumption`).  `LocalRoundTrip` adds `TableInv` (types and local times
  are the file's): in the last hour before a change back the search by local time finds
  the zone after it, and `IsRepeated` gives the hour back; at any other time it finds
  the zone it came from.  `ConvertExact`, for types of any width: `ConvertInv` says that
  the values the loop variable took are each the next one times the base plus the digit
  written (`Course`), which read backwards is the number in positional notation.
  `WaitsItsInterval`: the deadline is a timespec and stands for
  the clock at the call plus the interval, for any number of nanoseconds in a
  microsecond and of these in a second, the division of `sleepUsec()` included.
  `ReadWhole`: what was read is one piece of the file that ends at the offset.  `OneOwner`,
  for any vectors and objects: `PtrInv` partitions the objects among vectors,
  `unique_ptr`s, `scoped_ptr` and the deleted.  `OneOrder`: `compare()` and the operators all
  follow the first difference of two words, or their lengths.
* **Quantities** (`Library_proofs`).  `UnitsFit`, for doubles of any precision and
  any number of units whose last one is large enough for the exact doubles
  (`UnitsAssumption`; 2^53 is 9 P), hence for 53 bits and 6 units.  The text is made
  with two roundings, of the quotient to a double and of the double to decimals.
  `RoundsOnce`: they give what one would, since the quotient and the point half way
  between two decimals are whole numbers of the same small unit, and no double
  that is next to the one lies beyond the other; `RoundsOnceIEC`: a division by a power
  of two loses nothing.  `BelowIs`: the thresholds of `formatIEC()` are products of rounded doubles,
  and still on the right side of every whole number.  The thresholds then keep the
  digits within 100 and 999, or 1023 (`SIFits`, `IECFits`).  `Iterated` shows that
  the recursive functions for powers and bits exist, `AllNumbers` is the induction.

Only model-checked: liveness (`EventuallySettled`, `StartAndStopReturn`,
`EventuallyOnDisk`, and that calls of the latch, the queue and `start()` return), which
is out of the prover's reach.
Theorems that need an induction over numbers (the concatenation of the files, the
walk to the first difference)
derive it from the well-founded minimum of a set of numbers (`Induction`), as the
induction rules themselves cannot be applied.

## 6. What the checks found

* `stop()` loses lines.  The back end tests `running_` (AsyncLogging.cc:72) and
  leaves; what was appended since the last swap stays in `currentBuffer_`.  The
  test counts its lines as written ("总共的写入日志行数", tests/test_asynclog.cc:19)
  and stops right after the last one.
* A FATAL line is not on disk.  `~Logger()` calls `g_flush` and aborts
  (Logging.cc:196); with the set-up of the test `g_flush` flushes stdout while
  the line is in a buffer of `AsyncLogging`.  Logging.h:26 says the log is put on
  disk at once.
* A zone file that breaks off leaves a valid zone.  `readTimeZoneFile()` catches the
  exception itself (TimeZone.cc:213) and goes on to return true, where its comment
  (line 158) makes an exception of just this case; the reset of `data_` in the constructor,
  line 257, is never reached.  A missing file, which throws nothing, is valid too, but no
  comment says otherwise.
* `formatSI()` may return six characters.  It chooses the format by the integer and
  prints its `double` (LogStream.cc:104), which from 2^53 on may be rounded up to the
  next threshold: 99949999999999992 gives `100.0P`, and 999499999999999999 gives
  `1000P`.  LogStream.h:237 promises at most five.

Seen, and stated as what holds: when the clock is set back and the zone changed, a
second that comes again is printed with the cached text of the old zone and the suffix
of the new one, until the clock is ahead of all it has shown; every file rolled by size is above `rollSize_`, as
`append()` writes first, and is not rolled in the second of its creation; `writtenBytes_` also counts what a failed write
dropped; a number, the line number of the trailer included, is left out when fewer
than 32 bytes are free, however short it is; a nearly full line loses its newline.

## 7. Simplifications, and what is not modelled

* `holder_` and the global functions, level and zone of `Logging` are read and
  written without synchronisation.  `holder_` is an aligned word and the model reads
  it atomically, old or new; a torn read of a `shared_ptr` while `setTimeZone()`
  runs is outside the model, and so is a reused process id within one second.
* Transitions of a zone file are sorted and name types that the file has
  (`ZoneFilesAssumption`); the code does not check either.  Local time leads back only
  where daylight saving is one hour and changes are more than that apart
  (`SavesOneHour`), which `fromLocalTime()` takes for granted.
* Two FIXMEs dispute the zone that the code takes outside the range of a zone's changes.
  Before the first one the first type applies (TimeZone.cc:228), daylight saving time or
  not, where line 227 wants the first type that is not: a file whose types are daylight
  and standard time, in this order, shows the difference.  After the last change its
  type stays, where line 241 wants the `TZ` environment used.  The model does what the code does;
  `ZoneInForce` says nothing of these times, unless the zone has one type only.
* `rollFile()` takes no lock; nobody in the repository calls it while another
  thread appends, and the model calls it between appends.
* `AsyncLogFile` has one process; what a restart does to the files is in `LogFile`.
  There the disk does not fail and the clock is not set back.
* The copy that `fork()` makes is followed no further than the handler: mutexes that
  another thread held stay locked in it, and the library has no answer to that.
* Only `LogFile`, `Logging` and `TimedWait` have a clock.  Elsewhere time is an order of
  events: a wait of the logger ends at any moment.
* Not modelled: text formats, `Fmt` and `<<` of a `double`, whose text is
  `snprintf()`'s; `Timestamp`, an integer in a class; `ProcessInfo`, which reads `/proc`;
  `stackTrace()`; `Types`, `Exception`; `Atomic`, one builtin per operation, which only
  numbers threads for their default names.

## 8. Plan

Done: the asynchronous logger, its promise and the `LogFile` under it; the two
together; monitor, latch, queue, thread; log statements; dates and zones; the
sequential parts of the library; all with proofs, except for liveness.

Theorems worth proving next: for the logger and the queue, what `EveryStepCounts` is
for the latch, a bound on what is left to do that goes down.  In the logger the bound
has to count the rounds a line waits for, in the queue the takers that can be
overtaken.
