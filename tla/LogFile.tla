------------------------------ MODULE LogFile ------------------------------
(***************************************************************************)
(* src/LogFile.{h,cc} and the AppendFile of src/FileUtil.{h,cc} it writes  *)
(* through: which file a line goes to, when a new file is started, and     *)
(* what has left the process's stdio buffer when the process dies.         *)
(*                                                                         *)
(* One thread at a time is inside (mutex_ when threadSafe, and the only    *)
(* caller otherwise), but the clock is not: append_unlocked() reads it in  *)
(* two places, so an append is cut there.  A file's name is its second of  *)
(* creation and the process id; the other parts of it never change.        *)
(***************************************************************************)
EXTENDS Integers, Sequences, SequencesExt

CONSTANTS
  rollSize_, flushInterval_, checkEveryN_, kRollPerSeconds_,
  LineLen,       \* the lengths of the lines appended
  MaxTime,       \* bound of the model: the clock's last second
  MaxLines,      \* bound of the model: calls of append()
  MaxCrashes,    \* bound of the model: deaths of the process
  Worlds         \* bound of the model: which faults come together

ASSUME LogFileAssumption ==
  /\ rollSize_ \in Nat /\ flushInterval_ \in Nat
  /\ checkEveryN_ \in Nat \ {0} /\ kRollPerSeconds_ \in Nat \ {0}
  /\ LineLen \subseteq Nat \ {0}
  /\ MaxTime \in Nat \ {0} /\ MaxLines \in Nat /\ MaxCrashes \in Nat
  /\ Worlds \subseteq SUBSET {"clock", "disk", "death"}

VARIABLES
  faults,        \* what may go wrong in this world: "clock" if somebody may
                 \* set it back, "disk" if writes may fail, "death" if
                 \* the process may be killed
  now,           \* time(NULL)
  pid,           \* ProcessInfo::pid()
  pc,            \* where append() is: idle, check (line 73), roll (line 67
                 \* or 77); dead between a crash and the next process
  count_, startOfPeriod_, lastRoll_, lastFlush_,
  writtenBytes_, \* of the current AppendFile
  stdio,         \* its buffer_: lines fwrite() took and fflush() did not yet
  disk,          \* the files, oldest first: name and lines; the last is open
  lines,         \* how many lines were appended
  late,          \* the lines in the open file that came after its day
  excess         \* those that found it larger than rollSize_, when the
                 \* second of its creation was over

clock  == <<now, pid>>
marks  == <<startOfPeriod_, lastRoll_, lastFlush_>>
stream == <<writtenBytes_, stdio, disk>>
ghosts == <<lines, late, excess>>
vars   == <<faults, clock, pc, count_, marks, stream, ghosts>>

SteadyClock == "clock" \notin faults
DiskMayFill == "disk" \in faults

PeriodOf(t) == (t \div kRollPerSeconds_) * kRollPerSeconds_

-----------------------------------------------------------------------------
(* AppendFile: fopen() in append mode, fflush(), and fclose().             *)

Open == [name |-> [at |-> now, pid |-> pid], lines |-> << >>]

Flushed_Nothing(d, s) == d          \* mutation: fflush() without effect
Flushed(d, s) == [d EXCEPT ![Len(d)].lines = @ \o s]

FlushOk_KeepsBuffer == disk' = Flushed(disk, stdio) /\ UNCHANGED stdio  \* mutation
FlushOk == disk' = Flushed(disk, stdio) /\ stdio' = << >>

(* fflush() fails and nobody looks: the buffer is kept or lost.            *)
FlushFails == DiskMayFill /\ UNCHANGED disk /\ stdio' \in {stdio, << >>}

FlushFile == FlushOk \/ FlushFails

(* fwrite_unlocked() takes the text behind what is buffered and may push   *)
(* any of it to the kernel, oldest first, to make room.                    *)
Accept(text) ==
  LET all == stdio \o text IN
  \E k \in 0..Len(all) :
    disk' = Flushed(disk, SubSeq(all, 1, k)) /\ stdio' = SubSeq(all, k + 1, Len(all))

(* A write of 0 bytes ends the loop of AppendFile::append(): the rest of   *)
(* the line is dropped, though writtenBytes_ will count all of it.         *)
Truncate == DiskMayFill /\ UNCHANGED <<stdio, disk>>

-----------------------------------------------------------------------------
(* rollFile(): a new file, unless this second, or a later one, already has *)
(* one.  The old AppendFile is closed after the new one is opened.         *)

NewSecond_Always == TRUE            \* mutation: a roll whenever asked for
NewSecond_Late == now > lastRoll_ + 1   \* mutation: off by one
NewSecond == now > lastRoll_

Closed_Unflushed(d, s) == d         \* mutation: fclose() forgets its buffer
Closed(d, s) == Flushed(d, s)

CloseAndOpen ==
  /\ lastRoll_' = now /\ lastFlush_' = now /\ startOfPeriod_' = PeriodOf(now)
  /\ \/ disk' = Append(Closed(disk, stdio), Open)
     \/ DiskMayFill /\ disk' = Append(disk, Open)
  /\ stdio' = << >> /\ writtenBytes_' = 0 /\ late' = 0 /\ excess' = 0

RollFile ==
  IF NewSecond THEN CloseAndOpen
               ELSE UNCHANGED <<marks, stream, late, excess>>

Init ==
  /\ faults \in Worlds
  /\ now = 1 /\ pid = 1 /\ pc = "idle" /\ count_ = 0
  /\ startOfPeriod_ = PeriodOf(now) /\ lastRoll_ = now /\ lastFlush_ = now
  /\ writtenBytes_ = 0 /\ stdio = << >> /\ disk = <<Open>>
  /\ lines = 0 /\ late = 0 /\ excess = 0

-----------------------------------------------------------------------------
(* append_unlocked(), up to its first look at the clock.                   *)

CheckDue_OffByOne(c) == c > checkEveryN_    \* mutation
CheckDue(c) == c >= checkEveryN_

AppendText(text, len) ==
  /\ pc = "idle"
  /\ Accept(text) \/ Truncate
  /\ writtenBytes_' = writtenBytes_ + len
  /\ late' = IF PeriodOf(now) # startOfPeriod_ THEN late + 1 ELSE late
  /\ excess' = IF writtenBytes_ > rollSize_ /\ now # lastRoll_ THEN excess + 1 ELSE excess
  /\ IF writtenBytes_' > rollSize_
       THEN pc' = "roll" /\ UNCHANGED count_
       ELSE IF CheckDue(count_ + 1)
              THEN pc' = "check" /\ count_' = 0
              ELSE pc' = "idle" /\ count_' = count_ + 1
  /\ UNCHANGED <<clock, marks>>

AppendLine(len) ==
  /\ lines < MaxLines /\ lines' = lines + 1
  /\ AppendText(<<lines + 1>>, len)

(* Lines 73 to 81.                                                         *)
Check ==
  /\ pc = "check"
  /\ IF PeriodOf(now) # startOfPeriod_
       THEN pc' = "roll" /\ UNCHANGED <<lastFlush_, stdio, disk>>
       ELSE /\ pc' = "idle"
            /\ IF now - lastFlush_ > flushInterval_
                 THEN lastFlush_' = now /\ FlushFile
                 ELSE UNCHANGED <<lastFlush_, stdio, disk>>
  /\ UNCHANGED <<clock, count_, startOfPeriod_, lastRoll_, writtenBytes_,
                 ghosts>>

Roll ==
  /\ pc = "roll" /\ pc' = "idle"
  /\ RollFile
  /\ UNCHANGED <<clock, count_, lines>>

(* LogFile::flush() leaves lastFlush_ alone.                               *)
FlushCall ==
  /\ pc = "idle" /\ FlushFile
  /\ UNCHANGED <<clock, pc, count_, marks, writtenBytes_, ghosts>>

(* rollFile() is public.                                                   *)
RollCall ==
  /\ pc = "idle" /\ RollFile
  /\ UNCHANGED <<clock, pc, count_, lines>>

-----------------------------------------------------------------------------
(* The clock, and the death of the process.                                *)

Tick ==
  /\ now < MaxTime /\ now' = now + 1
  /\ UNCHANGED <<pid, pc, count_, marks, stream, ghosts>>

StepBack ==
  /\ ~SteadyClock
  /\ now' \in 1..(now - 1)
  /\ UNCHANGED <<pid, pc, count_, marks, stream, ghosts>>

Crash ==
  /\ "death" \in faults
  /\ pc # "dead" /\ pid <= MaxCrashes /\ pc' = "dead"
  /\ stdio' = << >>
  /\ UNCHANGED <<clock, count_, marks, writtenBytes_, disk, ghosts>>

(* The constructor, whose rollFile() is the first one.                     *)
Construct ==
  /\ pc' = "idle" /\ count_' = 0
  /\ lastRoll_' = now /\ lastFlush_' = now /\ startOfPeriod_' = PeriodOf(now)
  /\ disk' = Append(disk, [name |-> [at |-> now, pid |-> pid'], lines |-> << >>])
  /\ stdio' = << >> /\ writtenBytes_' = 0 /\ late' = 0 /\ excess' = 0
  /\ UNCHANGED <<now, lines>>

(* The next process constructs its own LogFile and opens its own file.     *)
Restart == pc = "dead" /\ pid' = pid + 1 /\ Construct

Step ==
  \/ \E len \in LineLen : AppendLine(len)
  \/ Check \/ Roll \/ FlushCall \/ RollCall
  \/ Tick \/ StepBack \/ Crash \/ Restart

Next == Step /\ UNCHANGED faults

Spec == Init /\ [][Next]_vars

-----------------------------------------------------------------------------
(* fopen() in append mode never meets a file that is already there, even   *)
(* when the clock is set back: rollFile() asks for a later second than any *)
(* it has used (line 97).                                                  *)
NamesFresh == \A i, j \in DOMAIN disk : disk[i].name = disk[j].name => i = j

(* Read oldest file first, the lines are in the order of their appends and *)
(* none is there twice, whatever rolls, failed writes and crashes happened *)
(* (lines 61-105 and FileUtil.cc:33-51).                                   *)
Contents == FlattenSeq([i \in DOMAIN disk |-> disk[i].lines])
LinesInOrder ==
  LET all == Contents \o stdio IN \A i, j \in DOMAIN all : i < j => all[i] < all[j]

(* A clock that only goes forward: the current file holds at most          *)
(* checkEveryN_ lines that came after its day (lines 69-77), counted over  *)
(* rolls by size, which do not reset count_.                               *)
FewLateLines == SteadyClock => late <= checkEveryN_

(* A clock that only goes forward: append() writes first and looks at the  *)
(* size afterwards, so that every file rolled by size is too large, and    *)
(* within the second of its creation, when line 97 refuses to roll, it may *)
(* take any number of lines more.  Once that second is over it takes one   *)
(* at most, and the append of that one rolls before it returns (lines      *)
(* 63-67), however the clock ticks between the two.                        *)
OneLineTooMany ==
  SteadyClock => excess <= IF pc = "idle" THEN 0 ELSE 1

Durable == INSTANCE DurableLog WITH
  log     <- Contents \o stdio,
  durable <- Len(Contents),
  up      <- pc # "dead",
  flaky   <- DiskMayFill

(* Over all its files the LogFile is one durable log: a roll, by size, by  *)
(* day or by hand, moves no line and loses none, and a crash, or a failed  *)
(* flush, takes only what was never flushed (LogFile.cc:54-105).           *)
ImplementsDurableLog == Durable!Spec
=============================================================================
