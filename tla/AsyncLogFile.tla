---------------------------- MODULE AsyncLogFile ----------------------------
(***************************************************************************)
(* AsyncLogging with the LogFile its back end constructs and writes to     *)
(* (src/AsyncLogging.cc:65-144): the hand-over of buffers goes on while    *)
(* the LogFile rolls and flushes on its own, the clock runs, and the       *)
(* process may be killed between any two steps.                            *)
(*                                                                         *)
(* The steps that touch only memory are AsyncLogging's.  Those that call   *)
(* the LogFile are put together here from the code, and what they do to    *)
(* AsyncLogging's file and flushed is compared with it (Pipeline!Spec).    *)
(* On disk a line is its number and a notice is 0.                         *)
(***************************************************************************)
EXTENDS Integers, Sequences, FiniteSets, SequencesExt

CONSTANTS
  kLargeBuffer, LineLen, MaxBuffers, MaxLines, NoBuffer,   \* AsyncLogging's
  rollSize_, flushInterval_, checkEveryN_, kRollPerSeconds_, MaxTime, \* LogFile's
  NoticeLen      \* the length of a "Dropped log messages" notice

ASSUME AsyncLogFileAssumption ==
  /\ kLargeBuffer \in Nat \ {0} /\ LineLen \subseteq Nat \ {0}
  /\ MaxBuffers \in Nat /\ MaxBuffers >= 2 /\ MaxLines \in Nat
  /\ NoBuffer \notin [data : Seq(Nat), length : Nat]
  /\ rollSize_ \in Nat /\ flushInterval_ \in Nat
  /\ checkEveryN_ \in Nat \ {0} /\ kRollPerSeconds_ \in Nat \ {0}
  /\ MaxTime \in Nat \ {0} /\ NoticeLen \in Nat \ {0}

VARIABLES
  running_, latch_, owner, bpc, currentBuffer_, nextBuffer_, buffers_,
  newBuffer1, newBuffer2, buffersToWrite, pos, notices, lines, dropped,
  refused, stopLine,                              \* AsyncLogging's
  now, pc, count_, startOfPeriod_, lastRoll_, lastFlush_, writtenBytes_,
  stdio, disk, late, excess,                  \* LogFile's
  handed         \* what output.append() was given, lines and notices

Output == INSTANCE LogFile WITH
  faults <- {"death"}, pid <- 1, MaxCrashes <- 1, Worlds <- {{"death"}}

(* What was handed over without the notices.                               *)
OnlyLines(s) == FlattenSeq([i \in DOMAIN s |-> IF s[i] = 0 THEN << >> ELSE <<s[i]>>])

Pipeline == INSTANCE AsyncLogging WITH
  file    <- OnlyLines(handed),
  flushed <- Len(OnlyLines(Output!Contents))

fileVars == <<now, pc, count_, startOfPeriod_, lastRoll_, lastFlush_,
              writtenBytes_, stdio, disk, late, excess>>
memVars  == <<running_, latch_, owner, bpc, currentBuffer_, nextBuffer_,
              buffers_, newBuffer1, newBuffer2, buffersToWrite, pos, notices,
              lines, dropped, refused, stopLine>>
vars     == <<fileVars, memVars, handed>>

(* The LogFile does not exist before the back end constructs it.           *)
Init ==
  /\ handed = << >> /\ pc = "none" /\ disk = << >> /\ stdio = << >>
  /\ now = 1 /\ count_ = 0 /\ startOfPeriod_ = 0 /\ lastRoll_ = 0
  /\ lastFlush_ = 0 /\ writtenBytes_ = 0 /\ late = 0 /\ excess = 0
  /\ Pipeline!Init

-----------------------------------------------------------------------------
(* Steps in memory only.  While the LogFile is inside append(), the back   *)
(* end is too; front ends and the owner are not.                           *)

FrontEnd == UNCHANGED <<fileVars, handed>> /\ Pipeline!FrontEnd
Owner    == UNCHANGED <<fileVars, handed>> /\ Pipeline!Owner

BackEndInMemory ==
  /\ UNCHANGED <<fileVars, handed>>
  /\ \/ Pipeline!CountDown \/ Pipeline!LoopTest \/ Pipeline!SwapNow
     \/ Pipeline!WaitForSeconds \/ Pipeline!TimedOut \/ Pipeline!SwapAfterWait
     \/ Pipeline!Recycle

(* Line 65: the LogFile and its first file.                                *)
Construct ==
  /\ Output!Construct /\ UNCHANGED handed
  /\ Pipeline!BackendInit

(* output.append(): the caller's text goes to the LogFile.                 *)
OutputAppend(entries, len) ==
  /\ handed' = handed \o entries
  /\ Output!AppendText(entries, len)

(* Lines 97 to 110.                                                        *)
Notice_Not == UNCHANGED <<handed, fileVars>>     \* mutation: shedding is silent
Notice == OutputAppend(<<0>>, NoticeLen)

Overloaded == Len(buffersToWrite) > MaxBuffers

Shed ==
  /\ pc = "idle" /\ bpc = "shed" /\ bpc' = "write"
  /\ IF Overloaded
       THEN /\ Notice
            /\ notices' = Append(notices, [at |-> Len(OnlyLines(handed)),
                                           buffers |-> Len(buffersToWrite) - 2])
            /\ dropped' = dropped \cup Pipeline!LinesInAll(
                            SubSeq(buffersToWrite, 3, Len(buffersToWrite)))
            /\ buffersToWrite' = SubSeq(buffersToWrite, 1, 2)
       ELSE UNCHANGED <<fileVars, handed, notices, dropped, buffersToWrite>>
  /\ UNCHANGED <<running_, latch_, owner, currentBuffer_, nextBuffer_, buffers_,
                 newBuffer1, newBuffer2, pos, lines, refused, stopLine>>

(* Lines 113 to 116: one call for a whole buffer.                          *)
WriteBuffer ==
  /\ bpc = "write" /\ pos <= Len(buffersToWrite) /\ pos' = pos + 1
  /\ OutputAppend(buffersToWrite[pos].data, buffersToWrite[pos].length)
  /\ UNCHANGED <<running_, latch_, owner, bpc, currentBuffer_, nextBuffer_,
                 buffers_, newBuffer1, newBuffer2, buffersToWrite, notices,
                 lines, dropped, refused, stopLine>>

(* The rest of output.append(): the clock is read, and read again.         *)
InsideAppend == (Output!Check \/ Output!Roll) /\ UNCHANGED <<memVars, handed>>

(* Lines 117 and 143.                                                      *)
Flush ==
  /\ \/ bpc = "write" /\ pos > Len(buffersToWrite) /\ bpc' = "recycle"
     \/ bpc = "exit" /\ bpc' = "done"
  /\ Output!FlushCall
  /\ UNCHANGED <<running_, latch_, owner, currentBuffer_, nextBuffer_, buffers_,
                 newBuffer1, newBuffer2, buffersToWrite, pos, notices, lines,
                 dropped, refused, stopLine, handed>>

Tick  == Output!Tick /\ UNCHANGED <<memVars, handed>>

(* Memory and the stdio buffer are gone; memory is left as it was to       *)
(* compare the disk with.                                                  *)
Crash == Output!Crash /\ UNCHANGED <<memVars, handed>>

BackEnd == \/ BackEndInMemory \/ Construct \/ Shed \/ WriteBuffer
           \/ InsideAppend \/ Flush

Alive == pc # "dead"

Over == /\ ~Alive \/ (owner = "stopped" /\ lines = MaxLines)
        /\ UNCHANGED vars

Next == \/ Alive /\ (FrontEnd \/ Owner \/ BackEnd \/ Tick \/ Crash)
        \/ Over

Spec == Init /\ [][Next]_vars

(* While the process lives the back end's thread runs and its wait ends.   *)
FairSpec == Spec /\ WF_vars(Alive /\ BackEnd)

-----------------------------------------------------------------------------
(* With a real LogFile, that buffers, rolls and flushes when it likes, the *)
(* logger is still the AsyncLogging of the other module, until the process *)
(* dies: flush() covers whatever was handed over, in whichever file it is. *)
ImplementsAsyncLogging == Pipeline!Spec

(* What a reader finds on disk at any moment, a crash at the worst one     *)
(* included: the beginning of what was handed over, and for every number   *)
(* missing between two lines either a refused line or a notice above the   *)
(* gap with at most two buffers between them (lines 97-117).               *)
OnDisk == Output!Contents
GapsExplained ==
  /\ IsPrefix(OnDisk, handed)
  /\ \A t \in 1..lines, j \in DOMAIN OnDisk :
       /\ t < OnDisk[j] /\ t \notin Range(OnDisk) /\ t \notin Pipeline!Refused
       => \E i \in 1..(j - 1) :
            /\ OnDisk[i] = 0
            /\ Cardinality({k \in i..j : OnDisk[k] # 0 /\ OnDisk[k] < t})
                 <= 2 * (kLargeBuffer - 1)

(* A line logged while the logger runs is on disk in the end, whichever    *)
(* files it and its neighbours went to, unless it was dropped or refused   *)
(* or the logger is stopped or killed first.                               *)
EventuallyOnDisk ==
  \A t \in 1..MaxLines :
    (t <= lines /\ owner = "started") ~>
      \/ t \in Range(OnDisk) \cup dropped \cup Pipeline!Refused
      \/ owner # "started" \/ ~Alive
=============================================================================
