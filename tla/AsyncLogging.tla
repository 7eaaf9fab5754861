---------------------------- MODULE AsyncLogging ----------------------------
(***************************************************************************)
(* The double-buffered asynchronous logger of src/AsyncLogging.{h,cc}.     *)
(*                                                                         *)
(* Any number of front-end threads call append(); the owner of the object  *)
(* calls start() and stop(); the thread "Logging" runs threadFunc().  What *)
(* the code does while it holds mutex_ is one action (Monitor.tla is about *)
(* that), every read of running_ or latch_ outside the lock is one of its  *)
(* own, and the back end's work on its private buffers is cut at the calls *)
(* it makes on the LogFile, because front ends run in between.             *)
(*                                                                         *)
(* A log line is a ticket: the n-th call of append() that gets the lock    *)
(* logs line n.  Of its text only the length matters.                      *)
(***************************************************************************)
EXTENDS Integers, Sequences, FiniteSets, SequencesExt

CONSTANTS
  kLargeBuffer,   \* capacity of a buffer in bytes (4000 * 1000 in the code)
  LineLen,        \* the lengths a log line may have
  MaxBuffers,     \* batch size above which the back end sheds (25)
  MaxLines,       \* bound of the model: calls of append()
  NoBuffer        \* a moved-from BufferPtr

Buf == INSTANCE FixedBuffer WITH SIZE <- kLargeBuffer

ASSUME CapacityAssumption == kLargeBuffer \in Nat \ {0}
ASSUME LineLenAssumption  == LineLen \subseteq Nat \ {0}
ASSUME BatchAssumption    == MaxBuffers \in Nat /\ MaxBuffers >= 2
ASSUME BoundAssumption    == MaxLines \in Nat
ASSUME NullAssumption     == NoBuffer \notin Buf!Buffer

VARIABLES
  running_,       \* std::atomic<bool>, read by the back end without the lock
  latch_,         \* count of the CountDownLatch start() waits on
  owner,          \* where the owner is in start() and stop()
  bpc,            \* where the back end is in threadFunc()
  currentBuffer_, nextBuffer_, buffers_,     \* guarded by mutex_
  newBuffer1, newBuffer2, buffersToWrite,    \* locals of threadFunc()
  pos,            \* the buffer the write loop of line 113 is at
  file,           \* the lines handed to the LogFile, in order
  flushed,        \* how many of them a flush has covered
  notices,        \* the "Dropped log messages" notices and where they stand
  lines,          \* how many lines were appended
  dropped,        \* the lines erased on overload
  refused,        \* the lines FixedBuffer::append() did not take
  stopLine        \* how many lines were appended when stop() was called

front  == <<currentBuffer_, nextBuffer_, buffers_>>
back   == <<newBuffer1, newBuffer2, buffersToWrite, pos>>
output == <<file, flushed, notices>>
fate   == <<lines, dropped, refused>>
vars   == <<running_, latch_, owner, bpc, front, back, output, fate, stopLine>>

-----------------------------------------------------------------------------
(* The states of the two sequential actors.                                *)
OwnerPc == {"new", "starting", "started", "notify", "join", "stopped"}
BackPc  == {"none", "entry", "init", "loop", "lock", "wait", "woken",
            "shed", "write", "recycle", "exit", "done"}

Buffers == Buf!Buffer \cup {NoBuffer}

InitialCount_Zero == 0     \* mutation: the latch starts open
InitialCount_Two  == 2     \* mutation: the latch waits for two
InitialCount == 1

Init ==
  /\ running_ = FALSE /\ latch_ = InitialCount /\ owner = "new" /\ bpc = "none"
  /\ currentBuffer_ = Buf!Empty /\ nextBuffer_ = Buf!Empty /\ buffers_ = << >>
  /\ newBuffer1 = NoBuffer /\ newBuffer2 = NoBuffer
  /\ buffersToWrite = << >> /\ pos = 1
  /\ file = << >> /\ flushed = 0 /\ notices = << >>
  /\ lines = 0 /\ dropped = {} /\ refused = {} /\ stopLine = 0

-----------------------------------------------------------------------------
(* append(): the whole function is one critical section.                   *)

Fits(len) == Buf!avail(currentBuffer_) > len

AppendInPlace(len) ==
  /\ lines < MaxLines /\ Fits(len)
  /\ lines' = lines + 1
  /\ currentBuffer_' = Buf!append(currentBuffer_, lines + 1, len)
  /\ UNCHANGED <<running_, latch_, owner, bpc, nextBuffer_, buffers_, back,
                 output, dropped, refused, stopLine>>

(* The buffer append() continues with: the spare one, else a new one.      *)
Spare == IF nextBuffer_ # NoBuffer THEN nextBuffer_ ELSE Buf!Empty

(* cond_.notify() wakes the back end when it waits and is lost otherwise.  *)
Notified == IF bpc = "wait" THEN "woken" ELSE bpc

PushBack_AtFront(q, b) == <<b>> \o q         \* mutation: the queue is a stack
PushBack(q, b) == Append(q, b)

(* The current buffer is full for this line: it is queued and the line     *)
(* goes to the next one, which refuses it without a word when it is too    *)
(* long even for an empty buffer.                                          *)
AppendSwitch(len) ==
  LET fresh == Buf!append(Spare, lines + 1, len) IN
  /\ lines < MaxLines /\ ~Fits(len)
  /\ lines' = lines + 1
  /\ buffers_' = PushBack(buffers_, currentBuffer_)
  /\ currentBuffer_' = fresh
  /\ nextBuffer_' = NoBuffer
  /\ refused' = IF fresh = Spare
                  THEN refused \cup {[line |-> lines + 1, len |-> len]}
                  ELSE refused
  /\ bpc' = Notified
  /\ UNCHANGED <<running_, latch_, owner, back, output, dropped, stopLine>>

-----------------------------------------------------------------------------
(* start(), stop() and the destructor, which calls stop() when running_.   *)

Start ==
  /\ owner = "new" /\ owner' = "starting"
  /\ running_' = TRUE
  /\ bpc' = "entry"
  /\ UNCHANGED <<latch_, front, back, output, fate, stopLine>>

LatchOpen == latch_ = 0

Started ==
  /\ owner = "starting" /\ LatchOpen /\ owner' = "started"
  /\ UNCHANGED <<running_, latch_, bpc, front, back, output, fate, stopLine>>

StopFlag ==
  /\ owner = "started" /\ owner' = "notify"
  /\ running_' = FALSE
  /\ stopLine' = lines
  /\ UNCHANGED <<latch_, bpc, front, back, output, fate>>

StopNotify ==
  /\ owner = "notify" /\ owner' = "join"
  /\ bpc' = Notified
  /\ UNCHANGED <<running_, latch_, front, back, output, fate, stopLine>>

StopJoin ==
  /\ owner = "join" /\ bpc = "done" /\ owner' = "stopped"
  /\ UNCHANGED <<running_, latch_, bpc, front, back, output, fate, stopLine>>

-----------------------------------------------------------------------------
(* threadFunc()                                                            *)

CountDown ==
  /\ bpc = "entry" /\ bpc' = "init"
  /\ latch_' = latch_ - 1
  /\ UNCHANGED <<running_, owner, front, back, output, fate, stopLine>>

BackendInit ==
  /\ bpc = "init" /\ bpc' = "loop"
  /\ newBuffer1' = Buf!Empty /\ newBuffer2' = Buf!Empty
  /\ buffersToWrite' = << >> /\ pos' = 1
  /\ UNCHANGED <<running_, latch_, owner, front, output, fate, stopLine>>

LoopTest ==
  /\ bpc = "loop" /\ bpc' = IF running_ THEN "lock" ELSE "exit"
  /\ UNCHANGED <<running_, latch_, owner, front, back, output, fate, stopLine>>

(* Lines 86 to 94, under the lock.                                         *)
SwapBuffers ==
  /\ buffersToWrite' = PushBack(buffers_, currentBuffer_)
  /\ buffers_' = buffersToWrite
  /\ currentBuffer_' = newBuffer1 /\ newBuffer1' = NoBuffer
  /\ IF nextBuffer_ = NoBuffer
       THEN nextBuffer_' = newBuffer2 /\ newBuffer2' = NoBuffer
       ELSE UNCHANGED <<nextBuffer_, newBuffer2>>
  /\ pos' = 1
  /\ bpc' = "shed"
  /\ UNCHANGED <<running_, latch_, owner, output, fate, stopLine>>

SwapNow == bpc = "lock" /\ buffers_ # << >> /\ SwapBuffers

(* waitForSeconds() releases mutex_; the test of line 80 is an if, so      *)
(* whatever ends the wait is followed by the swap.                         *)
WaitForSeconds ==
  /\ bpc = "lock" /\ buffers_ = << >> /\ bpc' = "wait"
  /\ UNCHANGED <<running_, latch_, owner, front, back, output, fate, stopLine>>

TimedOut_Never == bpc = "none" /\ UNCHANGED vars  \* mutation: an untimed wait

(* The deadline passes, or the wait ends for no reason.                    *)
TimedOut ==
  /\ bpc = "wait" /\ bpc' = "woken"
  /\ UNCHANGED <<running_, latch_, owner, front, back, output, fate, stopLine>>

SwapAfterWait == bpc = "woken" /\ SwapBuffers

LinesIn(b)    == IF b = NoBuffer THEN {} ELSE {b.data[i] : i \in DOMAIN b.data}
LinesInAll(q) == UNION {LinesIn(q[i]) : i \in DOMAIN q}

(* LogFile::append() may push out some of what it was given, and flush it, *)
(* or roll to a new file, when it has looked at the clock.                 *)
MayFlush == flushed' \in flushed..Len(file')

Announce == notices' = Append(notices, [at |-> Len(file),
                                        buffers |-> Len(buffersToWrite) - 2])

Kept_OnlyOne(q) == SubSeq(q, 1, 1)           \* mutation: one buffer is kept
Kept(q) == SubSeq(q, 1, 2)

(* More than MaxBuffers: a notice is written and all but two are erased.   *)
Shed ==
  /\ bpc = "shed" /\ bpc' = "write"
  /\ IF Len(buffersToWrite) > MaxBuffers
       THEN /\ Announce
            /\ dropped' = dropped \cup
                          LinesInAll(SubSeq(buffersToWrite, 3, Len(buffersToWrite)))
            /\ buffersToWrite' = Kept(buffersToWrite)
            /\ file' = file /\ MayFlush
       ELSE UNCHANGED <<notices, dropped, buffersToWrite, file, flushed>>
  /\ UNCHANGED <<running_, latch_, owner, front, newBuffer1, newBuffer2, pos,
                 lines, refused, stopLine>>

WriteBuffer ==
  /\ bpc = "write" /\ pos <= Len(buffersToWrite)
  /\ file' = file \o buffersToWrite[pos].data
  /\ MayFlush
  /\ pos' = pos + 1
  /\ UNCHANGED <<running_, latch_, owner, bpc, front, newBuffer1, newBuffer2,
                 buffersToWrite, notices, fate, stopLine>>

OutputFlushes ==
  /\ bpc = "write" /\ flushed < Len(file)
  /\ UNCHANGED file /\ MayFlush
  /\ UNCHANGED <<running_, latch_, owner, bpc, front, back, notices, fate,
                 stopLine>>

FlushAll == flushed' = Len(file)

Flush ==
  /\ bpc = "write" /\ pos > Len(buffersToWrite) /\ bpc' = "recycle"
  /\ FlushAll
  /\ UNCHANGED <<running_, latch_, owner, front, back, file, notices, fate,
                 stopLine>>

(* Lines 120 to 140: at most two written buffers are kept, the missing     *)
(* spares are taken from the end and reset, the rest is freed.             *)
Recycled_Dirty(b) == b                       \* mutation: no reset()
Recycled(b) == Buf!reset(b)

Recycle ==
  LET kept == IF Len(buffersToWrite) > 2 THEN SubSeq(buffersToWrite, 1, 2)
                                         ELSE buffersToWrite
      rest == IF newBuffer1 = NoBuffer THEN Front(kept) ELSE kept IN
  /\ bpc = "recycle" /\ bpc' = "loop"
  /\ newBuffer1' = IF newBuffer1 = NoBuffer THEN Recycled(Last(kept)) ELSE newBuffer1
  /\ newBuffer2' = IF newBuffer2 = NoBuffer THEN Recycled(Last(rest)) ELSE newBuffer2
  /\ buffersToWrite' = << >> /\ pos' = 1
  /\ UNCHANGED <<running_, latch_, owner, front, output, fate, stopLine>>

(* The loop is left without another look at the front-end buffers.         *)
FinalFlush ==
  /\ bpc = "exit" /\ bpc' = "done"
  /\ FlushAll
  /\ UNCHANGED <<running_, latch_, owner, front, back, file, notices, fate,
                 stopLine>>

-----------------------------------------------------------------------------
FrontEnd == \E len \in LineLen : AppendInPlace(len) \/ AppendSwitch(len)

Owner == Start \/ Started \/ StopFlag \/ StopNotify \/ StopJoin

BackEnd == \/ CountDown \/ BackendInit \/ LoopTest
           \/ SwapNow \/ WaitForSeconds \/ TimedOut \/ SwapAfterWait
           \/ Shed \/ WriteBuffer \/ OutputFlushes \/ Flush \/ Recycle \/ FinalFlush

(* stop() returned and the model's lines are used up.                      *)
Terminated == owner = "stopped" /\ lines = MaxLines /\ UNCHANGED vars

Next == FrontEnd \/ Owner \/ BackEnd \/ Terminated

Spec == Init /\ [][Next]_vars

(* The back end's thread runs, its timed wait ends, and the owner goes on  *)
(* inside start() and stop(); nobody has to call append() or stop().       *)
Fairness == WF_vars(BackEnd) /\ WF_vars(Started \/ StopNotify \/ StopJoin)

FairSpec == Spec /\ Fairness

-----------------------------------------------------------------------------
(* Where a line can be.                                                    *)
Written   == {file[i] : i \in DOMAIN file}
Batch     == SubSeq(buffersToWrite, pos, Len(buffersToWrite))
Held      == LinesInAll(Batch) \cup LinesInAll(buffers_) \cup LinesIn(currentBuffer_)
Refused   == {r.line : r \in refused}

(* Types, and the ranges of the counters.                                  *)
TypeOK ==
  /\ running_ \in BOOLEAN /\ latch_ \in 0..1
  /\ owner \in OwnerPc /\ bpc \in BackPc
  /\ currentBuffer_ \in Buffers /\ nextBuffer_ \in Buffers /\ buffers_ \in Seq(Buf!Buffer)
  /\ newBuffer1 \in Buffers /\ newBuffer2 \in Buffers
  /\ buffersToWrite \in Seq(Buf!Buffer) /\ pos \in 1..(Len(buffersToWrite) + 1)
  /\ file \in Seq(Nat) /\ flushed \in 0..Len(file)
  /\ notices \in Seq([at : Nat, buffers : Nat])
  /\ lines \in Nat /\ dropped \subseteq Nat
  /\ refused \subseteq [line : Nat, len : Nat] /\ stopLine \in 0..lines

(* Only a line too long for an empty buffer is refused by line 52: every   *)
(* buffer that becomes the current one is empty.                           *)
RefusedOnlyOversize == \A r \in refused : r.len >= kLargeBuffer

(* The assertions of threadFunc() (lines 63, 73-75, 97, 129 and 134), the  *)
(* pointer every append() dereferences (lines 40-52), and the spares being *)
(* there and empty when they are handed to the front end (lines 88 and 93):*)
(* four buffers change hands between two threads, none is ever missing, and*)
(* a line that a buffer can hold is not refused for one handed over full.  *)
HandOver ==
  /\ currentBuffer_ # NoBuffer
  /\ bpc = "entry" => running_
  /\ bpc \in {"loop", "lock", "wait", "woken"} =>
       newBuffer1 = Buf!Empty /\ newBuffer2 = Buf!Empty /\ buffersToWrite = << >>
  /\ bpc = "shed" => buffersToWrite # << >>
  /\ bpc = "recycle" =>
       /\ newBuffer1 = NoBuffer => Len(buffersToWrite) >= 1
       /\ newBuffer2 = NoBuffer =>
            Len(buffersToWrite) >= IF newBuffer1 = NoBuffer THEN 2 ELSE 1
  /\ nextBuffer_ \in {NoBuffer, Buf!Empty}
  /\ RefusedOnlyOversize

(* Where the owner can be while the back end is where it is.               *)
Phases ==
  /\ running_ <=> owner \in {"starting", "started"}
  /\ bpc = "none" <=> owner = "new"
  /\ latch_ = IF bpc \in {"none", "entry"} THEN 1 ELSE 0
  /\ owner \notin {"new", "starting"} => latch_ = 0
  /\ owner = "stopped" => bpc = "done"

(* What the four spare buffers are in each phase of threadFunc(); behind   *)
(* HandOver stands that the front end can only have used up its spare by   *)
(* queueing a buffer, which then serves as the back end's second spare.    *)
Spares ==
  /\ currentBuffer_ # NoBuffer /\ nextBuffer_ \in {NoBuffer, Buf!Empty}
  /\ nextBuffer_ = NoBuffer => buffers_ # << >>
  /\ bpc \in {"none", "entry", "init"} =>
       newBuffer1 = NoBuffer /\ newBuffer2 = NoBuffer
  /\ bpc \in {"loop", "lock", "wait", "woken", "exit", "done"} =>
       newBuffer1 = Buf!Empty /\ newBuffer2 = Buf!Empty
  /\ IF bpc \in {"shed", "write", "recycle"}
       THEN /\ newBuffer1 = NoBuffer /\ newBuffer2 \in {NoBuffer, Buf!Empty}
            /\ Len(buffersToWrite) >= IF newBuffer2 = NoBuffer THEN 2 ELSE 1
       ELSE buffersToWrite = << >>
  /\ bpc = "shed" => pos = 1
  /\ bpc = "recycle" => pos = Len(buffersToWrite) + 1

(* A line whose append() returned is in exactly one place: written, still  *)
(* in a buffer, dropped by the overload branch, or refused (append(), lines*)
(* 40-52, the swap, the erase of line 109 and the recycling of 120-140).   *)
NoSilentLoss ==
  /\ 1..lines = Written \cup Held \cup dropped \cup Refused
  /\ Written \cap (Held \cup dropped \cup Refused) = {}
  /\ Held \cap (dropped \cup Refused) = {}
  /\ dropped \cap Refused = {}

(* Lines reach the file in the order in which append() took them, and none *)
(* twice, whatever buffers they travelled in (lines 40-52, 86-94, 113).    *)
Fifo == \A i, j \in DOMAIN file : i < j => file[i] < file[j]

(* When the back end is not writing, all it wrote was flushed (line 117),  *)
(* and so it is when stop() has returned.                                  *)
FlushedWhenIdle ==
  bpc # "write" => flushed = Len(file)

(* The user of the logger: all lines appended before stop() was called are *)
(* in the file, announced as dropped, or refused, once stop() returned.    *)
StopLosesNothing ==
  owner = "stopped" => 1..stopLine \subseteq Written \cup dropped \cup Refused

(* While the logger runs, a line does not stay in a buffer: it is flushed, *)
(* dropped or refused (line 81 waits flushInterval_ at most, and line 86   *)
(* takes the current buffer however little it holds).                      *)
Settled(t) == (\E i \in 1..flushed : file[i] = t) \/ t \in dropped \/ t \in Refused
EventuallySettled ==
  \A t \in 1..MaxLines :
    (t <= lines /\ owner = "started") ~> (Settled(t) \/ owner # "started")

(* start() and stop() return: stop() notifies without the lock, so the     *)
(* wake-up can be lost, and the timed wait has to make up for it.          *)
StartAndStopReturn ==
  /\ owner = "starting" ~> owner = "started"
  /\ owner = "notify" ~> owner = "stopped"
=============================================================================
