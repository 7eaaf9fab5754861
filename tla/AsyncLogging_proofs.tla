------------------------ MODULE AsyncLogging_proofs ------------------------
(***************************************************************************)
(* Theorems about AsyncLogging, for every capacity, every set of line      *)
(* lengths, every shedding threshold from 2 up and any number of lines.    *)
(***************************************************************************)
EXTENDS AsyncLoggingPipe, SequenceTheorems, TLAPS

-----------------------------------------------------------------------------
(* What the sequence and buffer operators preserve.                        *)

(* The empty buffer is a buffer, and append() and reset() give buffers.    *)
LEMMA BufferTypes ==
  /\ Buf!Empty \in Buf!Buffer /\ Buf!Empty # NoBuffer
  /\ \A b \in Buf!Buffer, t \in Nat, n \in Nat :
        Buf!append(b, t, n) \in Buf!Buffer /\ Buf!append(b, t, n) # NoBuffer
  /\ \A b \in Buf!Buffer : Buf!reset(b) = Buf!Empty
<1> DEFINE B == [data : Seq(Nat), length : Nat]
<1>1. Buf!Buffer = B /\ NoBuffer \notin B
  BY NullAssumption DEF Buf!Buffer
<1>2. Buf!Empty = [data |-> << >>, length |-> 0] /\ Buf!Empty \in B
  BY DEF Buf!Empty
<1>3. ASSUME NEW b \in B, NEW t \in Nat, NEW n \in Nat
      PROVE  Buf!append(b, t, n) \in B
  <2>1. Append(b.data, t) \in Seq(Nat) /\ b.length + n \in Nat
    OBVIOUS
  <2>2. [data |-> Append(b.data, t), length |-> b.length + n] \in B
    BY <2>1
  <2>3. QED
    BY <2>2, Zenon DEF Buf!append
<1>4. \A b \in B : Buf!reset(b) = Buf!Empty
  BY DEF Buf!reset, Buf!Empty
<1> HIDE DEF B
<1>5. QED
  BY <1>1, <1>2, <1>3, <1>4, Zenon

(* A prefix, a suffix and a queue with one more element stay in Seq(S).    *)
LEMMA SliceTypes ==
  ASSUME NEW S, NEW q \in Seq(S), NEW m \in 1..(Len(q) + 1), NEW n \in 0..Len(q)
  PROVE  /\ SubSeq(q, m, n) \in Seq(S)
         /\ m <= n => Len(SubSeq(q, m, n)) = n - m + 1
         /\ \A i \in 1..(n - m + 1) : SubSeq(q, m, n)[i] = q[m + i - 1]
         /\ m > n => SubSeq(q, m, n) = << >>
OBVIOUS

(* The lines in a queue of buffers are numbers.                            *)
LEMMA LinesAreNumbers ==
  /\ \A b \in Buffers : LinesIn(b) \subseteq Nat
  /\ \A q \in Seq(Buf!Buffer) : LinesInAll(q) \subseteq Nat
<1>1. ASSUME NEW b \in Buffers PROVE LinesIn(b) \subseteq Nat
  BY <1>1 DEF Buffers, LinesIn, Buf!Buffer
<1>2. ASSUME NEW q \in Seq(Buf!Buffer) PROVE LinesInAll(q) \subseteq Nat
  <2>1. \A i \in DOMAIN q : q[i] \in Buffers
    BY DEF Buffers
  <2>2. QED
    BY <1>1, <2>1 DEF LinesInAll
<1>3. QED
  BY <1>1, <1>2

-----------------------------------------------------------------------------
(* The inductive invariant behind TypeOK, HandOver, RefusedOnlyOversize and*)
(* FlushedWhenIdle.                                                        *)
Inv == TypeOK /\ Phases /\ Spares /\ RefusedOnlyOversize /\ FlushedWhenIdle

LEMMA InvInit == Init => Inv
<1> SUFFICES ASSUME Init PROVE Inv
  OBVIOUS
<1> USE BufferTypes DEF Init, InitialCount
<1>1. TypeOK
  <2>1. currentBuffer_ \in Buffers /\ nextBuffer_ \in Buffers
        /\ newBuffer1 \in Buffers /\ newBuffer2 \in Buffers
    BY DEF Buffers
  <2>2. buffers_ \in Seq(Buf!Buffer) /\ buffersToWrite \in Seq(Buf!Buffer)
        /\ Len(buffersToWrite) = 0 /\ file \in Seq(Nat) /\ Len(file) = 0
        /\ notices \in Seq([at : Nat, buffers : Nat])
    OBVIOUS
  <2>3. dropped \subseteq Nat /\ refused \subseteq [line : Nat, len : Nat]
        /\ running_ \in BOOLEAN
    OBVIOUS
  <2>4. owner \in OwnerPc /\ bpc \in BackPc
    BY DEF OwnerPc, BackPc
  <2>5. QED
    BY <2>1, <2>2, <2>3, <2>4 DEF TypeOK
<1>2. Phases /\ Spares
  BY DEF Phases, Spares
<1>3. RefusedOnlyOversize /\ FlushedWhenIdle
  BY DEF RefusedOnlyOversize, FlushedWhenIdle
<1>4. QED
  BY <1>1, <1>2, <1>3 DEF Inv

(* append(): the buffers stay buffers, and a line is refused only by an    *)
(* empty one.                                                              *)
LEMMA InvFrontEnd ==
  ASSUME Inv, NEW len \in LineLen, AppendInPlace(len) \/ AppendSwitch(len)
  PROVE  Inv'
<1> USE LineLenAssumption DEF Inv, front, back, output, fate
<1>1. len \in Nat \ {0} /\ lines + 1 \in Nat
  BY DEF TypeOK
<1>2. CASE AppendInPlace(len)
  <2>1. currentBuffer_' \in Buf!Buffer /\ currentBuffer_' # NoBuffer
    BY <1>1, <1>2, BufferTypes DEF AppendInPlace, TypeOK, Spares, Buffers
  <2>2. TypeOK'
    BY <1>1, <1>2, <2>1 DEF AppendInPlace, TypeOK, Buffers
  <2>3. Phases' /\ Spares' /\ RefusedOnlyOversize' /\ FlushedWhenIdle'
    BY <1>2, <2>1
       DEF AppendInPlace, Phases, Spares, RefusedOnlyOversize, FlushedWhenIdle
  <2>4. QED
    BY <2>2, <2>3
<1>3. CASE AppendSwitch(len)
  <2>1. Spare = Buf!Empty
    BY DEF Spare, Spares
  <2>2. currentBuffer_' \in Buf!Buffer /\ currentBuffer_' # NoBuffer
    BY <1>1, <1>3, <2>1, BufferTypes DEF AppendSwitch
  <2>3. buffers_' \in Seq(Buf!Buffer) /\ buffers_' # << >>
    <3>1. currentBuffer_ \in Buf!Buffer /\ buffers_ \in Seq(Buf!Buffer)
      BY DEF TypeOK, Spares, Buffers
    <3>2. buffers_' = Append(buffers_, currentBuffer_)
      BY <1>3 DEF AppendSwitch, PushBack
    <3>3. QED
      BY <3>1, <3>2, AppendProperties
  <2>4. refused' \subseteq [line : Nat, len : Nat] /\ RefusedOnlyOversize'
    <3>1. CASE Buf!append(Spare, lines + 1, len) = Spare
      <4>1. ~(Buf!avail(Buf!Empty) > len)
        BY <2>1, <3>1 DEF Buf!append, Buf!Empty
      <4>2. len >= kLargeBuffer
        BY <1>1, <4>1, CapacityAssumption DEF Buf!avail, Buf!Empty
      <4>3. QED
        BY <1>1, <1>3, <3>1, <4>2 DEF AppendSwitch, TypeOK, RefusedOnlyOversize
    <3>2. CASE Buf!append(Spare, lines + 1, len) # Spare
      BY <1>3, <3>2 DEF AppendSwitch, TypeOK, RefusedOnlyOversize
    <3>3. QED
      BY <3>1, <3>2
  <2>5. TypeOK'
    BY <1>1, <1>3, <2>2, <2>3, <2>4
       DEF AppendSwitch, TypeOK, Buffers, Notified, BackPc
  <2>6. Phases' /\ Spares' /\ FlushedWhenIdle'
    BY <1>3, <2>2, <2>3 DEF AppendSwitch, Phases, Spares, FlushedWhenIdle, Notified
  <2>7. QED
    BY <2>4, <2>5, <2>6
<1>4. QED
  BY <1>2, <1>3

(* start() and stop() touch no buffer.                                     *)
LEMMA InvOwner == Inv /\ Owner => Inv'
<1> SUFFICES ASSUME Inv, Owner PROVE Inv'
  OBVIOUS
<1> USE DEF Inv, TypeOK, Phases, Spares, RefusedOnlyOversize, FlushedWhenIdle,
            front, back, output, fate, OwnerPc, BackPc, Notified
<1>1. CASE Start
  BY <1>1 DEF Start
<1>2. CASE Started
  BY <1>2 DEF Started, LatchOpen
<1>3. CASE StopFlag
  <2>1. TypeOK'
    <3>1. running_' = FALSE /\ running_' \in BOOLEAN
      BY <1>3, Zenon DEF StopFlag
    <3>2. stopLine' \in 0..lines' /\ owner' \in OwnerPc
      BY <1>3 DEF StopFlag
    <3>3. QED
      BY <1>3, <3>1, <3>2 DEF StopFlag
  <2>2. Phases'
    <3>1. ~running_' /\ owner' = "notify" /\ owner = "started"
          /\ bpc' = bpc /\ latch_' = latch_
      BY <1>3, Zenon DEF StopFlag
    <3>2. (running_ <=> owner \in {"starting", "started"})'
      BY <3>1
    <3>3. QED
      BY <3>1, <3>2
  <2>3. Spares' /\ RefusedOnlyOversize' /\ FlushedWhenIdle'
    BY <1>3 DEF StopFlag
  <2>4. QED
    BY <2>1, <2>2, <2>3
<1>4. CASE StopNotify
  BY <1>4 DEF StopNotify
<1>5. CASE StopJoin
  BY <1>5 DEF StopJoin
<1>6. QED
  BY <1>1, <1>2, <1>3, <1>4, <1>5 DEF Owner

(* The lines of threadFunc() that move no buffer.                          *)
LEMMA InvQuietBackEnd ==
  ASSUME Inv, \/ CountDown \/ BackendInit \/ LoopTest \/ WaitForSeconds
              \/ TimedOut \/ Flush \/ FinalFlush
  PROVE  Inv'
<1> USE DEF Inv, TypeOK, Phases, Spares, RefusedOnlyOversize, FlushedWhenIdle,
            front, back, output, fate, OwnerPc, BackPc
<1>1. CASE CountDown
  BY <1>1 DEF CountDown
<1>2. CASE BackendInit
  BY <1>2, BufferTypes DEF BackendInit, Buffers
<1>3. CASE LoopTest
  BY <1>3 DEF LoopTest
<1>4. CASE WaitForSeconds
  BY <1>4 DEF WaitForSeconds
<1>5. CASE TimedOut
  BY <1>5 DEF TimedOut
<1>6. CASE Flush
  BY <1>6 DEF Flush, FlushAll
<1>7. CASE FinalFlush
  BY <1>7 DEF FinalFlush, FlushAll
<1>8. QED
  BY <1>1, <1>2, <1>3, <1>4, <1>5, <1>6, <1>7

(* The swap hands newBuffer1, and newBuffer2 when the spare is gone, to the*)
(* front end and takes a batch long enough to recycle both from.           *)
LEMMA InvSwap == Inv /\ (SwapNow \/ SwapAfterWait) => Inv'
<1> SUFFICES ASSUME Inv, bpc \in {"lock", "woken"}, SwapBuffers PROVE Inv'
  BY DEF SwapNow, SwapAfterWait
<1> USE DEF Inv, front, back, output, fate
<1>1. /\ currentBuffer_ \in Buf!Buffer /\ buffers_ \in Seq(Buf!Buffer)
      /\ newBuffer1 = Buf!Empty /\ newBuffer2 = Buf!Empty /\ buffersToWrite = << >>
  BY DEF TypeOK, Spares, Buffers
<1>2. buffersToWrite' = Append(buffers_, currentBuffer_) /\ buffers_' = << >>
  BY <1>1 DEF SwapBuffers, PushBack
<1>3. /\ buffersToWrite' \in Seq(Buf!Buffer)
      /\ Len(buffersToWrite') = Len(buffers_) + 1
      /\ nextBuffer_ = NoBuffer => Len(buffers_) >= 1
  BY <1>1, <1>2, AppendProperties, EmptySeq DEF Spares
<1>4. currentBuffer_' = Buf!Empty /\ newBuffer1' = NoBuffer
  BY <1>1 DEF SwapBuffers
<1>5. /\ nextBuffer_' = Buf!Empty /\ newBuffer2' \in {NoBuffer, Buf!Empty}
      /\ newBuffer2' = NoBuffer => Len(buffersToWrite') >= 2
  BY <1>1, <1>3, BufferTypes DEF SwapBuffers, Spares
<1>6. TypeOK'
  <2>1. pos' = 1 /\ pos' \in 1..(Len(buffersToWrite') + 1)
    BY <1>1, <1>3 DEF SwapBuffers
  <2>2. /\ currentBuffer_' \in Buffers /\ nextBuffer_' \in Buffers
        /\ newBuffer1' \in Buffers /\ newBuffer2' \in Buffers
        /\ buffers_' \in Seq(Buf!Buffer)
    BY <1>2, <1>4, <1>5, BufferTypes DEF Buffers
  <2>3. QED
    BY <1>3, <2>1, <2>2 DEF SwapBuffers, TypeOK, BackPc
<1>7. Phases' /\ RefusedOnlyOversize' /\ FlushedWhenIdle'
  BY DEF SwapBuffers, Phases, RefusedOnlyOversize, FlushedWhenIdle
<1>8. Spares'
  <2>1. bpc' = "shed" /\ pos' = 1 /\ Len(buffersToWrite') >= 1
    BY <1>1, <1>3 DEF SwapBuffers
  <2>2. QED
    BY <1>3, <1>4, <1>5, <2>1, BufferTypes DEF Spares
<1>9. QED
  BY <1>6, <1>7, <1>8

(* Shedding leaves two buffers, enough to recycle both spares from.        *)
LEMMA InvShed == Inv /\ Shed => Inv'
<1> SUFFICES ASSUME Inv, Shed PROVE Inv'
  OBVIOUS
<1> USE DEF Inv, front, back, output, fate
<1>1. bpc = "shed" /\ bpc' = "write" /\ pos = 1 /\ pos' = 1
  BY DEF Shed, Spares
<1>2. flushed' = flushed /\ flushed = Len(file) /\ file' = file
  BY <1>1 DEF Shed, FlushedWhenIdle, MayFlush
<1>3. Phases' /\ RefusedOnlyOversize' /\ FlushedWhenIdle'
  BY <1>1 DEF Shed, Phases, RefusedOnlyOversize, FlushedWhenIdle
<1>4. CASE Len(buffersToWrite) > MaxBuffers
  <2>1. Len(buffersToWrite) \in Nat /\ Len(buffersToWrite) >= 3
    BY <1>4, BatchAssumption DEF TypeOK
  <2>2. buffersToWrite' \in Seq(Buf!Buffer) /\ Len(buffersToWrite') = 2
    <3>1. buffersToWrite' = SubSeq(buffersToWrite, 1, 2)
      BY <1>4 DEF Shed, Kept
    <3>2. 1 \in 1..(Len(buffersToWrite) + 1) /\ 2 \in 0..Len(buffersToWrite)
      BY <2>1
    <3>3. QED
      BY <3>1, <3>2, SliceTypes DEF TypeOK
  <2>3. dropped' \subseteq Nat
    <3>1. SubSeq(buffersToWrite, 3, Len(buffersToWrite)) \in Seq(Buf!Buffer)
      BY <2>1, SliceTypes DEF TypeOK
    <3>2. QED
      BY <1>4, <3>1, LinesAreNumbers DEF Shed, TypeOK
  <2>4. notices' \in Seq([at : Nat, buffers : Nat])
    <3> DEFINE Notice == [at : Nat, buffers : Nat]
               notice == [at |-> Len(file), buffers |-> Len(buffersToWrite) - 2]
    <3>1. notice \in Notice
      BY <2>1 DEF TypeOK
    <3>2. notices \in Seq(Notice)
      BY DEF TypeOK
    <3>3. notices' = Append(notices, notice)
      BY <1>4 DEF Shed, Announce
    <3> HIDE DEF Notice, notice
    <3>4. notices' \in Seq(Notice)
      BY <3>1, <3>2, <3>3
    <3>5. QED
      BY <3>4 DEF Notice
  <2>5. TypeOK'
    BY <1>1, <1>2, <2>2, <2>3, <2>4 DEF Shed, TypeOK, BackPc
  <2>6. Spares'
    BY <1>1, <2>2 DEF Shed, Spares
  <2>7. QED
    BY <1>3, <2>5, <2>6
<1>5. CASE ~(Len(buffersToWrite) > MaxBuffers)
  <2>1. TypeOK'
    BY <1>1, <1>5 DEF Shed, TypeOK, BackPc
  <2>2. Spares'
    BY <1>1, <1>5 DEF Shed, Spares
  <2>3. QED
    BY <1>3, <2>1, <2>2
<1>6. QED
  BY <1>4, <1>5

(* A buffer's lines are appended to the file.                              *)
LEMMA InvWrite == Inv /\ WriteBuffer => Inv'
<1> SUFFICES ASSUME Inv, WriteBuffer PROVE Inv'
  OBVIOUS
<1> USE DEF Inv, front, back, output, fate
<1>1. buffersToWrite[pos].data \in Seq(Nat)
  <2>1. pos \in 1..Len(buffersToWrite) /\ buffersToWrite \in Seq(Buf!Buffer)
    BY DEF WriteBuffer, TypeOK
  <2>2. buffersToWrite[pos] \in Buf!Buffer
    BY <2>1
  <2>3. QED
    BY <2>2 DEF Buf!Buffer
<1>2. file' \in Seq(Nat) /\ Len(file') \in Nat /\ Len(file') >= Len(file)
  BY <1>1, ConcatProperties DEF WriteBuffer, TypeOK
<1>3. flushed' \in 0..Len(file')
  BY <1>2 DEF WriteBuffer, MayFlush, TypeOK
<1>4. TypeOK'
  BY <1>2, <1>3 DEF WriteBuffer, TypeOK, BackPc
<1>5. Phases' /\ Spares' /\ RefusedOnlyOversize' /\ FlushedWhenIdle'
  BY DEF WriteBuffer, Phases, Spares, RefusedOnlyOversize, FlushedWhenIdle
<1>6. QED
  BY <1>4, <1>5

(* The LogFile flushes, or rolls to a new file, when it looks at the clock.*)
LEMMA InvOutputFlushes == Inv /\ OutputFlushes => Inv'
<1> SUFFICES ASSUME Inv, OutputFlushes PROVE Inv'
  OBVIOUS
<1> USE DEF Inv, front, back, output, fate
<1>1. flushed' \in 0..Len(file') /\ file' = file
  BY DEF OutputFlushes, MayFlush, TypeOK
<1>2. TypeOK'
  BY <1>1 DEF OutputFlushes, TypeOK
<1>3. Phases' /\ Spares' /\ RefusedOnlyOversize' /\ FlushedWhenIdle'
  BY DEF OutputFlushes, Phases, Spares, RefusedOnlyOversize, FlushedWhenIdle
<1>4. QED
  BY <1>2, <1>3

(* The spares taken from the end of the batch are buffers, reset.          *)
LEMMA InvRecycle == Inv /\ Recycle => Inv'
<1> SUFFICES ASSUME Inv, Recycle PROVE Inv'
  OBVIOUS
<1> USE DEF Inv, front, back, output, fate
<1>1. newBuffer1' = Buf!Empty /\ newBuffer2' = Buf!Empty
  BY DEF Recycle, Recycled, Spares, Buf!reset
<1>2. buffersToWrite' = << >> /\ pos' = 1 /\ Len(buffersToWrite') = 0
  BY DEF Recycle
<1>3. TypeOK'
  <2>1. newBuffer1' \in Buffers /\ newBuffer2' \in Buffers
    BY <1>1, BufferTypes DEF Buffers
  <2>2. buffersToWrite' \in Seq(Buf!Buffer) /\ pos' \in 1..(Len(buffersToWrite') + 1)
    BY <1>2
  <2>3. QED
    BY <2>1, <2>2 DEF Recycle, TypeOK, BackPc
<1>4. Phases' /\ Spares' /\ RefusedOnlyOversize' /\ FlushedWhenIdle'
  BY <1>1, <1>2 DEF Recycle, Phases, Spares, RefusedOnlyOversize, FlushedWhenIdle
<1>5. QED
  BY <1>3, <1>4

-----------------------------------------------------------------------------
(* Every step keeps it.                                                    *)
LEMMA InvNext == ASSUME Inv, [Next]_vars PROVE Inv'
<1>1. CASE FrontEnd
  BY <1>1, InvFrontEnd DEF FrontEnd
<1>2. CASE Owner
  BY <1>2, InvOwner
<1>3. CASE BackEnd
  BY <1>3, InvQuietBackEnd, InvSwap, InvShed, InvWrite, InvOutputFlushes, InvRecycle DEF BackEnd
<1>4. CASE Terminated \/ UNCHANGED vars
  <2>1. UNCHANGED vars
    BY <1>4 DEF Terminated
  <2>2. TypeOK' /\ RefusedOnlyOversize' /\ FlushedWhenIdle'
    BY <2>1 DEF Inv, TypeOK, RefusedOnlyOversize, FlushedWhenIdle,
                vars, front, back, output, fate
  <2>3. Phases' /\ Spares'
    BY <2>1 DEF Inv, Phases, Spares, vars, front, back, output, fate
  <2>4. QED
    BY <2>2, <2>3 DEF Inv
<1>5. QED
  BY <1>1, <1>2, <1>3, <1>4 DEF Next

(* The states of the logger have their types, all its assertions hold and  *)
(* no pointer it uses is null, only a line that no buffer could hold is    *)
(* refused, and what was written is flushed before the back end goes on.   *)
THEOREM Invariance == Spec => []Inv
<1>1. Inv /\ [Next]_vars => Inv'
  BY InvNext
<1>2. QED
  BY InvInit, <1>1, PTL DEF Spec

(* TypeOK of every reachable state.                                        *)
THEOREM TypeCorrect == Spec => []TypeOK
BY Invariance, PTL DEF Inv

(* The assertions of threadFunc() never fail, and append() never uses a    *)
(* moved-from pointer: the hand-over of the four buffers is sound.         *)
THEOREM HandOverSound == Spec => []HandOver
<1>1. Inv => HandOver
  BY DEF Inv, HandOver, Phases, Spares, TypeOK, BackPc, OwnerPc
<1>2. QED
  BY <1>1, Invariance, PTL

(* A line shorter than a buffer is never refused.                          *)
THEOREM ShortLinesTaken == Spec => []RefusedOnlyOversize
BY Invariance, PTL DEF Inv

(* Nothing written stays unflushed while the back end is not writing.      *)
THEOREM FlushedOutsideWrites == Spec => []FlushedWhenIdle
BY Invariance, PTL DEF Inv

-----------------------------------------------------------------------------
(* A buffer never holds more lines than bytes, nor as many bytes as it has *)
(* room for.                                                               *)
Filled(b) == Len(b.data) <= b.length /\ b.length < kLargeBuffer

AllFilled ==
  /\ Filled(currentBuffer_)
  /\ \A i \in DOMAIN buffers_ : Filled(buffers_[i])
  /\ \A i \in DOMAIN buffersToWrite : Filled(buffersToWrite[i])

LEMMA AppendFills ==
  ASSUME NEW b \in Buf!Buffer, Filled(b), NEW t \in Nat, NEW n \in Nat \ {0}
  PROVE  Filled(Buf!append(b, t, n))
<1>1. b.data \in Seq(Nat) /\ b.length \in Nat
  BY DEF Buf!Buffer
<1>2. CASE Buf!avail(b) > n
  <2>1. Len(Append(b.data, t)) = Len(b.data) + 1 /\ Len(b.data) \in Nat
    BY <1>1
  <2>2. b.length + n < kLargeBuffer
    BY <1>1, <1>2, CapacityAssumption DEF Buf!avail
  <2>3. LET a == [data |-> Append(b.data, t), length |-> b.length + n]
        IN  a.data = Append(b.data, t) /\ a.length = b.length + n
    OBVIOUS
  <2>4. Len(b.data) + 1 <= b.length + n
    BY <1>1, <2>1 DEF Filled
  <2> QED
    BY <1>2, <2>1, <2>2, <2>3, <2>4, Zenon DEF Buf!append, Filled
<1>3. CASE ~(Buf!avail(b) > n)
  BY <1>3 DEF Buf!append
<1> QED
  BY <1>2, <1>3

LEMMA AllFilledInit == Init => AllFilled
BY CapacityAssumption DEF Init, AllFilled, Filled, Buf!Empty

LEMMA AllFilledNext ==
  ASSUME Inv, AllFilled, [Next]_vars
  PROVE  AllFilled'
<1>1. /\ currentBuffer_ \in Buf!Buffer /\ buffers_ \in Seq(Buf!Buffer) /\ lines + 1 \in Nat
      /\ buffersToWrite \in Seq(Buf!Buffer) /\ Filled(Buf!Empty) /\ Buf!Empty \in Buf!Buffer
  BY CapacityAssumption, BufferTypes DEF Inv, TypeOK, Spares, Buffers, Filled, Buf!Empty
<1>2. ASSUME NEW r \in Seq(Buf!Buffer), NEW b \in Buf!Buffer, Filled(b),
             \A i \in DOMAIN r : Filled(r[i])
      PROVE  \A i \in DOMAIN Append(r, b) : Filled(Append(r, b)[i])
  <2>1. /\ DOMAIN Append(r, b) = 1..(Len(r) + 1) /\ DOMAIN r = 1..Len(r) /\ Len(r) \in Nat
        /\ Append(r, b)[Len(r) + 1] = b /\ \A i \in DOMAIN r : Append(r, b)[i] = r[i]
    OBVIOUS
  <2> QED
    BY <1>2, <2>1
<1>3. ASSUME NEW len \in LineLen, AppendInPlace(len) \/ AppendSwitch(len) PROVE AllFilled'
  <2>1. len \in Nat \ {0} /\ Spare = Buf!Empty
    BY LineLenAssumption DEF Spare, Inv, Spares
  <2>2. Filled(currentBuffer_')
    BY <1>1, <1>3, <2>1, AppendFills DEF AppendInPlace, AppendSwitch, AllFilled
  <2>3. buffers_' = buffers_ \/ buffers_' = Append(buffers_, currentBuffer_)
    BY <1>3 DEF AppendInPlace, AppendSwitch, PushBack
  <2>4. buffersToWrite' = buffersToWrite
    BY <1>3 DEF AppendInPlace, AppendSwitch, back
  <2> QED
    BY <1>1, <1>2, <2>2, <2>3, <2>4 DEF AllFilled
<1>4. CASE SwapNow \/ SwapAfterWait
  <2>1. /\ buffersToWrite' = Append(buffers_, currentBuffer_) /\ buffers_' = << >>
        /\ currentBuffer_' = Buf!Empty
    BY <1>4 DEF SwapNow, SwapAfterWait, SwapBuffers, PushBack, Inv, Spares
  <2> QED
    BY <1>1, <1>2, <2>1 DEF AllFilled
<1>5. CASE Shed
  <2>1. UNCHANGED <<buffers_, currentBuffer_>>
    BY <1>5 DEF Shed, front
  <2>2. \/ buffersToWrite' = buffersToWrite
        \/ buffersToWrite' = SubSeq(buffersToWrite, 1, 2) /\ Len(buffersToWrite) > MaxBuffers
    BY <1>5 DEF Shed, Kept
  <2>3. CASE buffersToWrite' = SubSeq(buffersToWrite, 1, 2) /\ Len(buffersToWrite) > MaxBuffers
    <3>1. Len(buffersToWrite) \in Nat /\ Len(buffersToWrite) > 2
      BY <1>1, <2>3, BatchAssumption
    <3>2. DOMAIN buffersToWrite' = 1..2 /\ DOMAIN buffersToWrite = 1..Len(buffersToWrite)
          /\ \A i \in 1..2 : buffersToWrite'[i] = buffersToWrite[i]
      BY <1>1, <2>3, <3>1
    <3> QED
      BY <2>1, <3>1, <3>2 DEF AllFilled
  <2> QED
    BY <2>1, <2>2, <2>3 DEF AllFilled
<1>6. CASE BackendInit \/ Recycle
  <2>1. UNCHANGED <<buffers_, currentBuffer_>> /\ buffersToWrite' = << >>
    BY <1>6 DEF BackendInit, Recycle, front
  <2> QED
    BY <2>1 DEF AllFilled
<1>7. CASE UNCHANGED <<buffers_, currentBuffer_, buffersToWrite>>
  BY <1>7 DEF AllFilled
<1> QED
  BY <1>3, <1>4, <1>5, <1>6, <1>7
     DEF Next, BackEnd, FrontEnd, Owner, Start, Started, StopFlag, StopNotify, StopJoin,
         CountDown, LoopTest, WaitForSeconds, TimedOut, WriteBuffer, OutputFlushes, Flush,
         FinalFlush, Terminated, vars, front, back

-----------------------------------------------------------------------------
(* The lines keep their order, none of them is lost without trace, and the *)
(* logger implements LogPipe.                                              *)

Below(S, T) == \A a \in S, b \in T : a < b

Ascending(s) == \A i, j \in DOMAIN s : i < j => s[i] < s[j]

InOrder(q) ==
  /\ \A i \in DOMAIN q : Ascending(q[i].data)
  /\ \A i, j \in DOMAIN q : i < j => Below(LinesIn(q[i]), LinesIn(q[j]))

(* The order of the whole pipeline, from the file back to append().        *)
Ordered ==
  /\ Ascending(file) /\ Below(Written, Held)
  /\ InOrder(Batch) /\ InOrder(buffers_) /\ Ascending(currentBuffer_.data)
  /\ Below(LinesInAll(Batch), LinesInAll(buffers_) \cup LinesIn(currentBuffer_))
  /\ Below(LinesInAll(buffers_), LinesIn(currentBuffer_))

Accounted == Inv /\ Ordered /\ NoSilentLoss

-----------------------------------------------------------------------------
(* Queues of buffers.                                                      *)

(* Queueing a buffer adds its lines, behind all others.                    *)
LEMMA QueueGrows ==
  ASSUME NEW q \in Seq(Buf!Buffer), NEW b \in Buf!Buffer
  PROVE  /\ LinesInAll(Append(q, b)) = LinesInAll(q) \cup LinesIn(b)
         /\ InOrder(q) /\ Ascending(b.data) /\ Below(LinesInAll(q), LinesIn(b))
              => InOrder(Append(q, b))
<1> DEFINE r == Append(q, b)
<1>1. /\ DOMAIN r = 1..(Len(q) + 1) /\ DOMAIN q = 1..Len(q) /\ Len(q) \in Nat
      /\ r[Len(q) + 1] = b /\ \A i \in DOMAIN q : r[i] = q[i]
  OBVIOUS
<1> HIDE DEF r
<1>2. \A i \in DOMAIN r : i \in DOMAIN q \/ i = Len(q) + 1
  BY <1>1
<1>3. LinesInAll(r) = LinesInAll(q) \cup LinesIn(b)
  <2>1. ASSUME NEW x \in LinesInAll(r) PROVE x \in LinesInAll(q) \cup LinesIn(b)
    BY <1>1, <1>2 DEF LinesInAll
  <2>2. LinesIn(b) \subseteq LinesInAll(r)
    <3>1. Len(q) + 1 \in DOMAIN r
      BY <1>1
    <3>2. QED
      BY <1>1, <3>1 DEF LinesInAll
  <2>3. LinesInAll(q) \subseteq LinesInAll(r)
    BY <1>1 DEF LinesInAll
  <2>4. QED
    BY <2>1, <2>2, <2>3
<1>4. ASSUME InOrder(q), Ascending(b.data), Below(LinesInAll(q), LinesIn(b))
      PROVE  InOrder(r)
  <2>1. \A i \in DOMAIN r : Ascending(r[i].data)
    BY <1>1, <1>2, <1>4 DEF InOrder
  <2>2. ASSUME NEW i \in DOMAIN r, NEW j \in DOMAIN r, i < j
        PROVE  Below(LinesIn(r[i]), LinesIn(r[j]))
    <3>1. i \in DOMAIN q /\ r[i] = q[i] /\ LinesIn(r[i]) \subseteq LinesInAll(q)
      BY <1>1, <2>2 DEF LinesInAll
    <3>2. CASE j \in DOMAIN q
      BY <1>1, <1>4, <2>2, <3>1, <3>2 DEF InOrder
    <3>3. CASE j = Len(q) + 1
      BY <1>1, <1>4, <3>1, <3>3 DEF Below
    <3>4. QED
      BY <1>2, <3>2, <3>3
  <2>3. QED
    BY <2>1, <2>2 DEF InOrder
<1>5. QED
  BY <1>3, <1>4 DEF r

(* A queue cut in two: the lines are shared out, the first part's below    *)
(* the second's.                                                           *)
LEMMA QueueCut ==
  ASSUME NEW q \in Seq(Buf!Buffer), NEW m \in 1..(Len(q) + 1), NEW k \in m..(Len(q) + 1)
  PROVE  LET p == SubSeq(q, m, k - 1)
             r == SubSeq(q, k, Len(q))
             w == SubSeq(q, m, Len(q))
         IN  /\ LinesInAll(w) = LinesInAll(p) \cup LinesInAll(r)
             /\ InOrder(w) => /\ InOrder(p) /\ InOrder(r)
                              /\ Below(LinesInAll(p), LinesInAll(r))
<1> DEFINE p == SubSeq(q, m, k - 1)
           r == SubSeq(q, k, Len(q))
           w == SubSeq(q, m, Len(q))
<1>1. /\ Len(q) \in Nat /\ m \in Nat /\ k \in Nat /\ m <= k /\ k <= Len(q) + 1 /\ 1 <= m
      /\ DOMAIN p = 1..(k - m) /\ DOMAIN r = 1..(Len(q) - k + 1)
      /\ DOMAIN w = 1..(Len(q) - m + 1)
  OBVIOUS
<1>2. /\ \A i \in DOMAIN p : p[i] = q[m + i - 1]
      /\ \A i \in DOMAIN r : r[i] = q[k + i - 1]
      /\ \A i \in DOMAIN w : w[i] = q[m + i - 1]
  OBVIOUS
<1> HIDE DEF p, r, w
<1>3. \A i \in DOMAIN p : i \in DOMAIN w /\ w[i] = p[i]
  BY <1>1, <1>2
<1>4. \A i \in DOMAIN r : k - m + i \in DOMAIN w /\ w[k - m + i] = r[i]
  BY <1>1, <1>2
<1>5. ASSUME NEW i \in DOMAIN w
      PROVE  \/ i \in DOMAIN p /\ w[i] = p[i]
             \/ i - (k - m) \in DOMAIN r /\ w[i] = r[i - (k - m)]
  <2>1. CASE i <= k - m
    BY <1>1, <1>3, <2>1
  <2>2. CASE i > k - m
    <3>1. i - (k - m) \in DOMAIN r /\ k + (i - (k - m)) - 1 = m + i - 1
      BY <1>1, <2>2
    <3>2. QED
      BY <1>2, <3>1
  <2>3. QED
    BY <1>1, <2>1, <2>2
<1>6. LinesInAll(w) = LinesInAll(p) \cup LinesInAll(r)
  <2>1. LinesInAll(w) \subseteq LinesInAll(p) \cup LinesInAll(r)
    BY <1>5 DEF LinesInAll
  <2>2. LinesInAll(p) \subseteq LinesInAll(w)
    BY <1>3 DEF LinesInAll
  <2>3. LinesInAll(r) \subseteq LinesInAll(w)
    BY <1>4 DEF LinesInAll
  <2>4. QED
    BY <2>1, <2>2, <2>3
<1>7. ASSUME InOrder(w)
      PROVE  InOrder(p) /\ InOrder(r) /\ Below(LinesInAll(p), LinesInAll(r))
  <2>1. InOrder(p)
    BY <1>3, <1>7 DEF InOrder
  <2>2. InOrder(r)
    <3>1. \A i, j \in DOMAIN r : i < j => k - m + i < k - m + j
      BY <1>1
    <3>2. QED
      BY <1>4, <1>7, <3>1 DEF InOrder
  <2>3. ASSUME NEW a \in LinesInAll(p), NEW b \in LinesInAll(r) PROVE a < b
    <3>1. PICK i \in DOMAIN p : a \in LinesIn(p[i])
      BY DEF LinesInAll
    <3>2. PICK j \in DOMAIN r : b \in LinesIn(r[j])
      BY DEF LinesInAll
    <3>3. i < k - m + j
      BY <1>1
    <3>4. QED
      BY <1>3, <1>4, <1>7, <3>1, <3>2, <3>3 DEF InOrder, Below
  <2>4. QED
    BY <2>1, <2>2, <2>3 DEF Below
<1>8. QED
  BY <1>6, <1>7 DEF p, r, w

(* The queue with no buffer and the queue with one.                        *)
LEMMA ShortQueues ==
  /\ LinesInAll(<< >>) = {} /\ InOrder(<< >>)
  /\ \A b \in Buf!Buffer : LinesInAll(<<b>>) = LinesIn(b)
  /\ LinesIn(Buf!Empty) = {} /\ Ascending(Buf!Empty.data)
<1>1. LinesInAll(<< >>) = {} /\ InOrder(<< >>)
  BY DEF LinesInAll, InOrder
<1>2. ASSUME NEW b \in Buf!Buffer PROVE LinesInAll(<<b>>) = LinesIn(b)
  BY DEF LinesInAll
<1>3. Buf!Empty.data = << >>
  BY DEF Buf!Empty
<1>4. LinesIn(Buf!Empty) = {} /\ Ascending(Buf!Empty.data)
  BY <1>3 DEF LinesIn, Ascending
<1>5. QED
  BY <1>1, <1>2, <1>4

(* FixedBuffer::append() with room: the line joins the buffer, last.       *)
LEMMA BufferGrows ==
  ASSUME NEW b \in Buf!Buffer, NEW t \in Nat, NEW n \in Nat, Buf!avail(b) > n
  PROVE  LET c == Buf!append(b, t, n)
         IN  /\ LinesIn(c) = LinesIn(b) \cup {t}
             /\ Ascending(b.data) /\ Below(LinesIn(b), {t}) => Ascending(c.data)
<1> DEFINE c == Buf!append(b, t, n)
<1>1. c.data = Append(b.data, t) /\ b.data \in Seq(Nat)
  BY DEF Buf!append, Buf!Buffer
<1>2. c # NoBuffer /\ b # NoBuffer
  BY BufferTypes, NullAssumption
<1>3. LinesIn(b) = {b.data[i] : i \in DOMAIN b.data}
      /\ LinesIn(c) = {c.data[i] : i \in DOMAIN c.data}
  BY <1>2 DEF LinesIn
<1> HIDE DEF c
<1>4. /\ DOMAIN c.data = 1..(Len(b.data) + 1) /\ DOMAIN b.data = 1..Len(b.data)
      /\ Len(b.data) \in Nat
      /\ c.data[Len(b.data) + 1] = t /\ \A i \in DOMAIN b.data : c.data[i] = b.data[i]
  BY <1>1
<1>5. LinesIn(c) = LinesIn(b) \cup {t}
  BY <1>3, <1>4
<1>6. ASSUME Ascending(b.data), Below(LinesIn(b), {t}) PROVE Ascending(c.data)
  BY <1>3, <1>4, <1>6 DEF Ascending, Below
<1>7. QED
  BY <1>5, <1>6 DEF c

(* Writing behind a file: the file's lines and the buffer's, in order when *)
(* both are and the former lie below.                                      *)
LEMMA FileGrows ==
  ASSUME NEW f \in Seq(Nat), NEW s \in Seq(Nat)
  PROVE  LET E(u) == {u[i] : i \in DOMAIN u}
         IN  /\ E(f \o s) = E(f) \cup E(s)
             /\ Ascending(f) /\ Ascending(s) /\ Below(E(f), E(s))
                  => Ascending(f \o s)
<1> DEFINE E(u) == {u[i] : i \in DOMAIN u}
           g == f \o s
<1>1. /\ Len(f) \in Nat /\ Len(s) \in Nat
      /\ DOMAIN f = 1..Len(f) /\ DOMAIN s = 1..Len(s) /\ DOMAIN g = 1..(Len(f) + Len(s))
      /\ \A i \in DOMAIN f : g[i] = f[i]
      /\ \A i \in DOMAIN s : g[Len(f) + i] = s[i]
  OBVIOUS
<1> HIDE DEF g
<1>2. ASSUME NEW i \in DOMAIN g
      PROVE  \/ i \in DOMAIN f /\ g[i] = f[i]
             \/ i > Len(f) /\ i - Len(f) \in DOMAIN s /\ g[i] = s[i - Len(f)]
  <2>1. CASE i <= Len(f)
    BY <1>1, <2>1
  <2>2. CASE i > Len(f)
    <3>1. i - Len(f) \in DOMAIN s /\ Len(f) + (i - Len(f)) = i
      BY <1>1, <2>2
    <3>2. QED
      BY <1>1, <2>2, <3>1
  <2>3. QED
    BY <1>1, <2>1, <2>2
<1>3. E(g) = E(f) \cup E(s)
  <2>1. E(g) \subseteq E(f) \cup E(s)
    BY <1>2
  <2>2. E(f) \subseteq E(g)
    BY <1>1
  <2>3. E(s) \subseteq E(g)
    <3>1. \A i \in DOMAIN s : Len(f) + i \in DOMAIN g
      BY <1>1
    <3>2. QED
      BY <1>1, <3>1
  <2>4. QED
    BY <2>1, <2>2, <2>3
<1>4. ASSUME Ascending(f), Ascending(s), Below(E(f), E(s)) PROVE Ascending(g)
  <2> SUFFICES ASSUME NEW i \in DOMAIN g, NEW j \in DOMAIN g, i < j PROVE g[i] < g[j]
    BY DEF Ascending
  <2>1. CASE j <= Len(f)
    BY <1>1, <1>4, <2>1 DEF Ascending
  <2>2. CASE i > Len(f)
    <3>1. i - Len(f) < j - Len(f)
      BY <1>1
    <3>2. g[i] = s[i - Len(f)] /\ g[j] = s[j - Len(f)]
          /\ i - Len(f) \in DOMAIN s /\ j - Len(f) \in DOMAIN s
      BY <1>1, <1>2, <2>2
    <3>3. QED
      BY <1>4, <3>1, <3>2 DEF Ascending
  <2>3. CASE i <= Len(f) /\ j > Len(f)
    <3>1. g[i] \in E(f) /\ g[j] \in E(s)
      BY <1>1, <1>2, <2>3
    <3>2. QED
      BY <1>4, <3>1 DEF Below
  <2>4. QED
    BY <1>1, <2>1, <2>2, <2>3
<1>5. QED
  BY <1>3, <1>4 DEF g

-----------------------------------------------------------------------------
(* The steps.  Each lemma shows that the step keeps the account of lines   *)
(* and which step of the pipe it is.                                       *)

LEMMA AccountedInit == Init => Accounted /\ Pipe!Init
<1> SUFFICES ASSUME Init PROVE Accounted /\ Pipe!Init
  OBVIOUS
<1>1. Inv
  BY InvInit
<1>2. file = << >> /\ Batch = << >> /\ buffers_ = << >> /\ currentBuffer_ = Buf!Empty
      /\ lines = 0 /\ dropped = {} /\ refused = {} /\ flushed = 0
  BY DEF Init, Batch
<1>3. Held = {} /\ Written = {} /\ Refused = {}
  BY <1>2, ShortQueues DEF Held, Written, Refused
<1>4. Ordered
  BY <1>2, <1>3, ShortQueues DEF Ordered, Below, Ascending
<1>5. NoSilentLoss
  BY <1>2, <1>3 DEF NoSilentLoss
<1>6. QED
  BY <1>1, <1>2, <1>3, <1>4, <1>5 DEF Accounted, Pipe!Init

(* What the account says of the types of its parts.                        *)
LEMMA Parts ==
  ASSUME Accounted
  PROVE  /\ currentBuffer_ \in Buf!Buffer /\ buffers_ \in Seq(Buf!Buffer)
         /\ buffersToWrite \in Seq(Buf!Buffer) /\ Batch \in Seq(Buf!Buffer)
         /\ pos \in 1..(Len(buffersToWrite) + 1) /\ Len(buffersToWrite) \in Nat
         /\ file \in Seq(Nat) /\ lines \in Nat
         /\ Held \subseteq 1..lines
<1>1. /\ currentBuffer_ \in Buf!Buffer /\ buffers_ \in Seq(Buf!Buffer)
      /\ buffersToWrite \in Seq(Buf!Buffer) /\ file \in Seq(Nat) /\ lines \in Nat
      /\ pos \in 1..(Len(buffersToWrite) + 1)
  BY DEF Accounted, Inv, TypeOK, Spares, Buffers
<1>2. Batch \in Seq(Buf!Buffer)
  BY <1>1, SliceTypes DEF Batch
<1>3. Held \subseteq 1..lines
  BY DEF Accounted, NoSilentLoss
<1>4. QED
  BY <1>1, <1>2, <1>3

(* A step that moves no line.                                              *)
LEMMA NothingMoves ==
  ASSUME Accounted, Inv', UNCHANGED <<file, Batch, buffers_, currentBuffer_>>,
         UNCHANGED fate
  PROVE  Accounted' /\ Held' = Held /\ Refused' = Refused
<1>1. Held' = Held /\ Written' = Written /\ Refused' = Refused
  BY DEF Held, Written, Refused, fate
<1>2. Ordered'
  BY <1>1 DEF Accounted, Ordered
<1>3. NoSilentLoss'
  BY <1>1 DEF Accounted, NoSilentLoss, fate
<1>4. QED
  BY <1>1, <1>2, <1>3 DEF Accounted

(* append() in place: the line becomes the last one inside.                *)
LEMMA AccountedInPlace ==
  ASSUME Accounted, Inv', NEW len \in LineLen, AppendInPlace(len)
  PROVE  Accounted' /\ Pipe!Take
<1> USE Parts
<1>1. len \in Nat /\ lines + 1 \in Nat /\ Buf!avail(currentBuffer_) > len
  BY LineLenAssumption DEF AppendInPlace, Fits
<1>2. /\ currentBuffer_' = Buf!append(currentBuffer_, lines + 1, len)
      /\ lines' = lines + 1
      /\ UNCHANGED <<file, flushed, Batch, buffers_, dropped, refused>>
  BY DEF AppendInPlace, back, output, Batch
<1>3. Below(Held, {lines + 1})
  BY DEF Below
<1>4. LinesIn(currentBuffer_') = LinesIn(currentBuffer_) \cup {lines + 1}
  BY <1>1, <1>2, BufferGrows
<1>5. Ascending(currentBuffer_'.data)
  <2>1. Below(LinesIn(currentBuffer_), {lines + 1})
    BY <1>3 DEF Held, Below
  <2>2. QED
    BY <1>1, <1>2, <2>1, BufferGrows DEF Accounted, Ordered
<1>6. Held' = Held \cup {lines + 1} /\ Written' = Written /\ Refused' = Refused
  BY <1>2, <1>4 DEF Held, Written, Refused
<1>7. Written \subseteq 1..lines
  BY DEF Accounted, NoSilentLoss
<1>8. Ordered'
  <2>1. Below(Written', Held')
    BY <1>6, <1>7 DEF Accounted, Ordered, Below
  <2>2. Below(LinesInAll(Batch), {lines + 1}) /\ Below(LinesInAll(buffers_), {lines + 1})
    BY <1>3 DEF Held, Below
  <2>3. /\ Below(LinesInAll(Batch), LinesInAll(buffers_) \cup LinesIn(currentBuffer_'))
        /\ Below(LinesInAll(buffers_), LinesIn(currentBuffer_'))
    BY <1>4, <2>2 DEF Accounted, Ordered, Below
  <2>4. QED
    BY <1>2, <1>5, <2>1, <2>3 DEF Accounted, Ordered
<1>9. NoSilentLoss'
  <2>1. 1..(lines + 1) = (1..lines) \cup {lines + 1} /\ lines + 1 \notin 1..lines
    OBVIOUS
  <2>2. QED
    BY <1>2, <1>6, <2>1 DEF Accounted, NoSilentLoss
<1>10. QED
  BY <1>2, <1>6, <1>8, <1>9 DEF Accounted, Pipe!Take

(* append() into the next buffer: the same, unless the line is refused.    *)
LEMMA AccountedSwitch ==
  ASSUME Accounted, Inv', NEW len \in LineLen, AppendSwitch(len)
  PROVE  Accounted' /\ (Pipe!Take \/ Pipe!Turn)
<1> USE Parts
<1>1. len \in Nat /\ lines + 1 \in Nat /\ Spare = Buf!Empty
  BY LineLenAssumption DEF Accounted, Inv, Spare, Spares
<1>2. /\ lines' = lines + 1 /\ currentBuffer_' = Buf!append(Buf!Empty, lines + 1, len)
      /\ buffers_' = Append(buffers_, currentBuffer_)
      /\ UNCHANGED <<file, flushed, Batch, dropped>>
  BY <1>1 DEF AppendSwitch, PushBack, back, output, Batch
<1>3. /\ LinesInAll(buffers_') = LinesInAll(buffers_) \cup LinesIn(currentBuffer_)
      /\ InOrder(buffers_')
  BY <1>2, QueueGrows DEF Accounted, Ordered
<1>4. Below(Held, {lines + 1}) /\ Written \subseteq 1..lines
  BY DEF Accounted, NoSilentLoss, Below
<1>5. 1..(lines + 1) = (1..lines) \cup {lines + 1} /\ lines + 1 \notin 1..lines
  OBVIOUS
<1>6. Below(LinesInAll(Batch), LinesInAll(buffers_'))
  BY <1>3 DEF Accounted, Ordered, Below
<1>7. CASE Buf!avail(Buf!Empty) > len
  <2>1. currentBuffer_' # Buf!Empty
    <3> DEFINE e == Buf!Empty
               c == Buf!append(e, lines + 1, len)
    <3>1. c.data = Append(<< >>, lines + 1) /\ e.data = << >>
      BY <1>7 DEF Buf!append, Buf!Empty
    <3>2. Append(<< >>, lines + 1) # << >>
      OBVIOUS
    <3> HIDE DEF e, c
    <3>3. c # e
      BY <3>1, <3>2
    <3>4. QED
      BY <1>2, <3>3 DEF e, c
  <2>2. refused' = refused
    BY <1>1, <1>2, <2>1 DEF AppendSwitch
  <2>3. LinesIn(currentBuffer_') = {lines + 1} /\ Ascending(currentBuffer_'.data)
    <3>1. Buf!Empty \in Buf!Buffer /\ Below(LinesIn(Buf!Empty), {lines + 1})
      BY BufferTypes, ShortQueues DEF Below
    <3>2. LinesIn(currentBuffer_') = LinesIn(Buf!Empty) \cup {lines + 1}
      BY <1>1, <1>2, <1>7, <3>1, BufferGrows
    <3>3. Ascending(currentBuffer_'.data)
      BY <1>1, <1>2, <1>7, <3>1, BufferGrows, ShortQueues
    <3>4. QED
      BY <3>2, <3>3, ShortQueues
  <2>4. Held' = Held \cup {lines + 1} /\ Written' = Written /\ Refused' = Refused
    BY <1>2, <1>3, <2>2, <2>3 DEF Held, Written, Refused
  <2>5. Below(LinesInAll(Batch), {lines + 1}) /\ Below(LinesInAll(buffers_'), {lines + 1})
    BY <1>3, <1>4 DEF Held, Below
  <2>6. Ordered'
    <3>1. Below(Written', Held')
      <4>1. Below(Written, Held) /\ Below(Written, {lines + 1})
        BY <1>4 DEF Accounted, Ordered, Below
      <4>2. QED
        BY <2>4, <4>1 DEF Below
    <3>2. Below(LinesInAll(Batch), LinesInAll(buffers_') \cup LinesIn(currentBuffer_'))
      BY <1>6, <2>3, <2>5 DEF Below
    <3>3. QED
      BY <1>2, <1>3, <2>3, <2>5, <3>1, <3>2 DEF Accounted, Ordered
  <2>7. NoSilentLoss'
    BY <1>2, <1>5, <2>4 DEF Accounted, NoSilentLoss
  <2>8. Pipe!Take
    BY <1>2, <2>4 DEF Pipe!Take
  <2>9. QED
    BY <2>6, <2>7, <2>8 DEF Accounted
<1>8. CASE ~(Buf!avail(Buf!Empty) > len)
  <2>1. currentBuffer_' = Buf!Empty
    BY <1>2, <1>8 DEF Buf!append
  <2>2. refused' = refused \cup {[line |-> lines + 1, len |-> len]}
    BY <1>1, <1>2, <2>1 DEF AppendSwitch
  <2>3. Refused' = Refused \cup {lines + 1}
    <3> DEFINE r == [line |-> lines + 1, len |-> len]
    <3>1. r.line = lines + 1 /\ refused' = refused \cup {r}
      BY <2>2
    <3> HIDE DEF r
    <3>2. QED
      BY <3>1 DEF Refused
  <2>4. LinesIn(currentBuffer_') = {} /\ Ascending(currentBuffer_'.data)
    BY <2>1, ShortQueues
  <2>5. Held' = Held /\ Written' = Written
    BY <1>2, <1>3, <2>4 DEF Held, Written
  <2>6. Ordered'
    <3>1. Below(LinesInAll(Batch), LinesInAll(buffers_') \cup LinesIn(currentBuffer_'))
          /\ Below(LinesInAll(buffers_'), LinesIn(currentBuffer_'))
      BY <1>6, <2>4 DEF Below
    <3>2. QED
      BY <1>2, <1>3, <2>4, <2>5, <3>1 DEF Accounted, Ordered
  <2>7. NoSilentLoss'
    BY <1>2, <1>5, <2>3, <2>5 DEF Accounted, NoSilentLoss
  <2>8. Pipe!Turn
    BY <1>2, <2>3, <2>5 DEF Pipe!Turn
  <2>9. QED
    BY <2>6, <2>7, <2>8 DEF Accounted
<1>9. QED
  BY <1>7, <1>8

(* The swap: the current buffer joins the queue, the queue becomes the     *)
(* batch, and the new current buffer is empty.  No line moves.             *)
LEMMA AccountedSwap ==
  ASSUME Accounted, Inv', SwapNow \/ SwapAfterWait
  PROVE  Accounted' /\ UNCHANGED <<lines, Held, file, flushed, dropped, Refused>>
<1> USE Parts
<1>1. SwapBuffers /\ bpc \in {"lock", "woken"}
  BY DEF SwapNow, SwapAfterWait
<1>2. buffersToWrite = << >> /\ newBuffer1 = Buf!Empty
  BY <1>1 DEF Accounted, Inv, Spares
<1>3. /\ buffersToWrite' = Append(buffers_, currentBuffer_) /\ pos' = 1
      /\ buffers_' = << >> /\ currentBuffer_' = Buf!Empty
      /\ UNCHANGED <<file, flushed, lines, dropped, refused>>
  BY <1>1, <1>2 DEF SwapBuffers, PushBack, output, fate
<1>4. buffersToWrite' \in Seq(Buf!Buffer) /\ Batch' = buffersToWrite'
  BY <1>3 DEF Batch
<1>5. Batch = << >>
  BY <1>2 DEF Batch
<1>6. /\ LinesInAll(Batch') = LinesInAll(buffers_) \cup LinesIn(currentBuffer_)
      /\ InOrder(Batch')
  BY <1>3, <1>4, QueueGrows DEF Accounted, Ordered
<1>7. /\ LinesInAll(Batch) = {} /\ LinesInAll(buffers_') = {} /\ InOrder(buffers_')
      /\ LinesIn(currentBuffer_') = {} /\ Ascending(currentBuffer_'.data)
  BY <1>3, <1>5, ShortQueues
<1>8. Held' = Held /\ Written' = Written /\ Refused' = Refused
  BY <1>3, <1>6, <1>7 DEF Held, Written, Refused
<1>9. Ordered'
  BY <1>3, <1>6, <1>7, <1>8 DEF Accounted, Ordered, Below
<1>10. NoSilentLoss'
  BY <1>3, <1>8 DEF Accounted, NoSilentLoss
<1>11. QED
  BY <1>3, <1>8, <1>9, <1>10 DEF Accounted

(* Shedding: the lines of the third buffer of the batch and the following  *)
(* ones are lost; what lies between two of them is lost with them.         *)
LEMMA AccountedShed ==
  ASSUME Accounted, Inv', Shed
  PROVE  Accounted' /\ (Pipe!Lose \/ UNCHANGED <<lines, Held, file, flushed, dropped, Refused>>)
<1> USE Parts
<1>1. CASE Len(buffersToWrite) > MaxBuffers
  <2> DEFINE q    == buffersToWrite
             keep == SubSeq(q, 1, 2)
             gone == SubSeq(q, 3, Len(q))
  <2>1. 3 \in 1..(Len(q) + 1) /\ pos = 1
    BY <1>1, BatchAssumption DEF Shed, Accounted, Inv, Spares
  <2>2. Batch = SubSeq(q, 1, Len(q))
    BY <2>1 DEF Batch
  <2>3. /\ LinesInAll(Batch) = LinesInAll(keep) \cup LinesInAll(gone)
        /\ InOrder(keep) /\ InOrder(gone) /\ Below(LinesInAll(keep), LinesInAll(gone))
    <3>1. 3 - 1 = 2 /\ 1 \in 1..(Len(q) + 1) /\ 3 \in 1..(Len(q) + 1)
      BY <2>1
    <3>2. /\ LinesInAll(Batch) = LinesInAll(SubSeq(q, 1, 3 - 1)) \cup LinesInAll(gone)
          /\ InOrder(Batch) => /\ InOrder(SubSeq(q, 1, 3 - 1)) /\ InOrder(gone)
                               /\ Below(LinesInAll(SubSeq(q, 1, 3 - 1)), LinesInAll(gone))
      BY <2>2, <3>1, QueueCut
    <3>3. QED
      BY <3>1, <3>2 DEF Accounted, Ordered
  <2>4. /\ buffersToWrite' = keep /\ pos' = 1 /\ file' = file /\ flushed' = flushed
        /\ dropped' = dropped \cup LinesInAll(gone)
        /\ UNCHANGED <<buffers_, currentBuffer_, lines, refused>>
    <3>1. flushed = Len(file)
      BY DEF Accounted, Inv, FlushedWhenIdle, Shed
    <3>2. QED
      BY <1>1, <2>1, <3>1 DEF Shed, Kept, MayFlush, front
  <2>5. Batch' = keep
    <3>1. keep \in Seq(Buf!Buffer) /\ Len(keep) = 2
      BY <2>1
    <3>2. QED
      BY <2>4, <3>1 DEF Batch
  <2> HIDE DEF q, keep, gone
  <2>6. /\ Below(LinesInAll(Batch), LinesInAll(buffers_) \cup LinesIn(currentBuffer_))
        /\ Below(Written, Held) /\ Held \subseteq Nat
    BY DEF Accounted, Ordered
  <2>7. Held' = Held \ LinesInAll(gone) /\ Written' = Written /\ Refused' = Refused
    <3>1. LinesInAll(keep) \cap LinesInAll(gone) = {}
      BY <2>3, <2>6 DEF Below, Held
    <3>2. (LinesInAll(buffers_) \cup LinesIn(currentBuffer_)) \cap LinesInAll(gone) = {}
      BY <2>3, <2>6 DEF Below, Held
    <3>3. QED
      BY <2>3, <2>4, <2>5, <3>1, <3>2 DEF Held, Written, Refused
  <2>8. Ordered'
    BY <2>3, <2>4, <2>5, <2>6, <2>7 DEF Accounted, Ordered, Below
  <2>9. LinesInAll(gone) \subseteq Held
    BY <2>3 DEF Held
  <2>10. NoSilentLoss'
    BY <2>4, <2>7, <2>9 DEF Accounted, NoSilentLoss
  <2>11. Pipe!Lose
    <3>1. Held \ Held' = LinesInAll(gone) /\ Held' \subseteq Held
      BY <2>7, <2>9
    <3>2. ASSUME NEW a \in LinesInAll(gone), NEW c \in LinesInAll(gone), NEW b \in Held,
                 a < b, b < c
          PROVE  b \in LinesInAll(gone)
      <4>1. a \in Nat /\ b \in Nat /\ c \in Nat
        BY <2>6, <2>9
      <4>2. b \notin LinesInAll(keep)
        BY <2>3, <3>2, <4>1 DEF Below
      <4>3. b \notin LinesInAll(buffers_) \cup LinesIn(currentBuffer_)
        BY <2>3, <2>6, <3>2, <4>1 DEF Below
      <4>4. QED
        BY <2>3, <4>2, <4>3 DEF Held
    <3>3. flushed' \in flushed..Len(file)
      BY <2>4 DEF Accounted, Inv, TypeOK
    <3>4. QED
      BY <2>4, <2>7, <3>1, <3>2, <3>3 DEF Pipe!Lose, Pipe!Convex
  <2>12. QED
    BY <2>8, <2>10, <2>11 DEF Accounted
<1>2. CASE ~(Len(buffersToWrite) > MaxBuffers)
  <2>1. UNCHANGED <<file, flushed, Batch, buffers_, currentBuffer_, lines, dropped, refused>>
    BY <1>2 DEF Shed, front, Batch
  <2>2. QED
    BY <2>1, NothingMoves DEF fate
<1>3. QED
  BY <1>1, <1>2

(* The write loop: the first buffer of the batch comes out of the pipe.    *)
LEMMA AccountedWrite ==
  ASSUME Accounted, Inv', WriteBuffer
  PROVE  Accounted' /\ Pipe!Give
<1> USE Parts
<1> DEFINE q   == buffersToWrite
           b   == q[pos]
           s   == b.data
<1>1. pos \in 1..Len(q) /\ b \in Buf!Buffer /\ s \in Seq(Nat)
  <2>1. pos \in 1..Len(q)
    BY DEF WriteBuffer
  <2>2. b \in Buf!Buffer
    BY <2>1
  <2>3. QED
    BY <2>1, <2>2 DEF Buf!Buffer
<1>2. /\ file' = file \o s /\ buffersToWrite' = q /\ pos' = pos + 1
      /\ flushed' \in flushed..Len(file')
      /\ UNCHANGED <<buffers_, currentBuffer_, lines, dropped, refused>>
  BY DEF WriteBuffer, MayFlush, front, fate
<1>3. Batch' = SubSeq(q, pos + 1, Len(q))
  BY <1>2 DEF Batch
<1>4. /\ LinesInAll(Batch) = LinesIn(b) \cup LinesInAll(Batch')
      /\ InOrder(Batch') /\ Ascending(s)
      /\ Below(LinesIn(b), LinesInAll(Batch'))
  <2> DEFINE p == SubSeq(q, pos, (pos + 1) - 1)
  <2>1. pos + 1 \in pos..(Len(q) + 1) /\ (pos + 1) - 1 = pos
    BY <1>1
  <2>2. DOMAIN p = {1} /\ p[1] = b
    BY <1>1, <2>1
  <2>3. /\ LinesInAll(SubSeq(q, pos, Len(q))) = LinesInAll(p) \cup LinesInAll(SubSeq(q, pos + 1, Len(q)))
        /\ InOrder(SubSeq(q, pos, Len(q))) =>
             /\ InOrder(p) /\ InOrder(SubSeq(q, pos + 1, Len(q)))
             /\ Below(LinesInAll(p), LinesInAll(SubSeq(q, pos + 1, Len(q))))
    BY <1>1, <2>1, QueueCut
  <2> HIDE DEF p
  <2>4. LinesInAll(p) = LinesIn(b) /\ (InOrder(p) => Ascending(s))
    BY <2>2 DEF InOrder, LinesInAll
  <2>5. QED
    BY <1>1, <1>3, <2>3, <2>4 DEF Accounted, Ordered, Batch
<1>5. LinesIn(b) = {s[i] : i \in DOMAIN s}
  BY <1>1, NullAssumption DEF LinesIn
<1>6. LinesIn(b) \subseteq Held
  BY <1>4 DEF Held
<1>7. Written' = Written \cup LinesIn(b) /\ Ascending(file')
  <2>1. Below(Written, LinesIn(b))
    BY <1>6 DEF Accounted, Ordered, Below
  <2> DEFINE E(u) == {u[i] : i \in DOMAIN u}
  <2>2. E(file) = Written /\ E(file') = Written' /\ E(s) = LinesIn(b)
    BY <1>5 DEF Written
  <2>3. E(file \o s) = E(file) \cup E(s)
    BY <1>1, FileGrows
  <2>4. Ascending(file) /\ Ascending(s) /\ Below(E(file), E(s)) => Ascending(file \o s)
    BY <1>1, FileGrows
  <2> HIDE DEF E, s, b
  <2>5. QED
    BY <1>2, <1>4, <2>1, <2>2, <2>3, <2>4 DEF Accounted, Ordered
<1> HIDE DEF q, b, s
<1>8. Below(LinesIn(b), LinesInAll(buffers_) \cup LinesIn(currentBuffer_))
  BY <1>4 DEF Accounted, Ordered, Below
<1>9. Held' = Held \ LinesIn(b) /\ Refused' = Refused
  <2>1. LinesIn(b) \cap LinesInAll(Batch') = {} 
    BY <1>4, <1>6 DEF Below
  <2>2. LinesIn(b) \cap (LinesInAll(buffers_) \cup LinesIn(currentBuffer_)) = {}
    BY <1>6, <1>8 DEF Below
  <2>3. QED
    BY <1>2, <1>4, <2>1, <2>2 DEF Held, Refused
<1>10. Below(LinesIn(b), Held')
  BY <1>2, <1>4, <1>8 DEF Below, Held
<1>11. Ordered'
  <2>1. Below(Written', Held')
    BY <1>7, <1>9, <1>10 DEF Accounted, Ordered, Below
  <2>2. Below(LinesInAll(Batch'), LinesInAll(buffers_) \cup LinesIn(currentBuffer_))
    BY <1>4 DEF Accounted, Ordered, Below
  <2>3. QED
    BY <1>2, <1>4, <1>7, <2>1, <2>2 DEF Accounted, Ordered
<1>12. NoSilentLoss'
  BY <1>2, <1>6, <1>7, <1>9 DEF Accounted, NoSilentLoss
<1>13. Pipe!Give
  <2>1. /\ Len(file) \in Nat /\ Len(s) \in Nat /\ Len(file') = Len(file) + Len(s)
        /\ SubSeq(file', Len(file) + 1, Len(file')) = s
        /\ SubSeq(file', 1, Len(file)) = file /\ file' \in Seq(Nat)
    BY <1>1, <1>2
  <2>2. Pipe!IsPrefix(file, file')
    BY <2>1 DEF Pipe!IsPrefix
  <2>3. Pipe!Ascending(s) /\ Pipe!Elems(s) = LinesIn(b)
    BY <1>4, <1>5 DEF Pipe!Ascending, Ascending, Pipe!Elems
  <2>4. flushed' \in flushed..Len(file')
    BY <1>2, <2>1 DEF Accounted, Inv, TypeOK
  <2>5. \A x \in LinesIn(b), y \in Held' : x < y
    BY <1>10 DEF Below
  <2>6. UNCHANGED <<lines, dropped \cup Refused>>
    BY <1>2, <1>9
  <2> DEFINE new == SubSeq(file', Len(file) + 1, Len(file'))
  <2>7. /\ Pipe!Ascending(new) /\ Pipe!Elems(new) \subseteq Held
        /\ Held' = Held \ Pipe!Elems(new)
        /\ \A x \in Pipe!Elems(new), y \in Held' : x < y
    BY <1>6, <1>9, <2>1, <2>3, <2>5
  <2> HIDE DEF new
  <2>8. QED
    BY <2>2, <2>4, <2>6, <2>7 DEF Pipe!Give, new
<1>14. QED
  BY <1>11, <1>12, <1>13 DEF Accounted

(* All other steps leave the lines where they are; some flush.             *)
LEMMA AccountedQuiet ==
  ASSUME Accounted, Inv',
         \/ Owner \/ CountDown \/ BackendInit \/ LoopTest \/ WaitForSeconds
         \/ TimedOut \/ OutputFlushes \/ Flush \/ Recycle \/ FinalFlush \/ Terminated \/ UNCHANGED vars
  PROVE  Accounted' /\ (Pipe!Sync \/ UNCHANGED <<lines, Held, file, flushed, dropped, Refused>>)
<1> USE Parts
<1>1. Batch' = Batch
  <2>1. CASE UNCHANGED <<buffersToWrite, pos>>
    BY <2>1 DEF Batch
  <2>2. CASE BackendInit
    BY <2>2 DEF BackendInit, Batch, Accounted, Inv, Spares
  <2>3. CASE Recycle
    <3>1. Batch' = << >>
      BY <2>3 DEF Recycle, Batch
    <3>2. pos = Len(buffersToWrite) + 1
      BY <2>3 DEF Recycle, Accounted, Inv, Spares
    <3>3. QED
      BY <3>1, <3>2 DEF Batch
  <2>4. QED
    BY <2>1, <2>2, <2>3
       DEF Owner, Start, Started, StopFlag, StopNotify, StopJoin, CountDown, LoopTest,
           WaitForSeconds, TimedOut, OutputFlushes, Flush, FinalFlush, Terminated,
           vars, back
<1>2. UNCHANGED <<file, buffers_, currentBuffer_, lines, dropped, refused>>
      /\ (flushed' = flushed \/ flushed' = Len(file) \/ flushed' \in flushed..Len(file))
  BY DEF Owner, Start, Started, StopFlag, StopNotify, StopJoin, CountDown, BackendInit,
         LoopTest, WaitForSeconds, TimedOut, OutputFlushes, MayFlush, Flush, FlushAll,
         Recycle, FinalFlush,
         Terminated, vars, front, output, fate
<1>3. Accounted' /\ Held' = Held /\ Refused' = Refused
  BY <1>1, <1>2, NothingMoves DEF fate
<1>4. flushed' \in flushed..Len(file)
  BY <1>2 DEF Accounted, Inv, TypeOK
<1>5. QED
  BY <1>2, <1>3, <1>4 DEF Pipe!Sync

-----------------------------------------------------------------------------
(* Every step keeps the account and is a step of the pipe or a stutter.    *)
LEMMA AccountedNext ==
  ASSUME Accounted, Inv', [Next]_vars
  PROVE  Accounted' /\ [Pipe!Next]_(Pipe!pipeVars)
<1> USE DEF Pipe!Next, Pipe!pipeVars
<1>1. CASE FrontEnd
  BY <1>1, AccountedInPlace, AccountedSwitch DEF FrontEnd
<1>2. CASE SwapNow \/ SwapAfterWait
  BY <1>2, AccountedSwap
<1>3. CASE Shed
  BY <1>3, AccountedShed
<1>4. CASE WriteBuffer
  BY <1>4, AccountedWrite
<1>5. CASE \/ Owner \/ CountDown \/ BackendInit \/ LoopTest \/ WaitForSeconds
           \/ TimedOut \/ OutputFlushes \/ Flush \/ Recycle \/ FinalFlush \/ Terminated \/ UNCHANGED vars
  BY <1>5, AccountedQuiet
<1>6. QED
  BY <1>1, <1>2, <1>3, <1>4, <1>5 DEF Next, BackEnd

(* The account of lines is right in every reachable state.                 *)
THEOREM AccountInvariant == Spec => []Accounted
<1>1. Accounted /\ Inv' /\ [Next]_vars => Accounted'
  BY AccountedNext
<1>2. QED
  BY AccountedInit, <1>1, Invariance, PTL DEF Spec

(* No line vanishes: it is in the file, in a buffer that will be written,  *)
(* dropped on overload or refused, and in one of these places only.        *)
THEOREM NothingVanishes == Spec => []NoSilentLoss
BY AccountInvariant, PTL DEF Accounted

(* The lines in the file are in the order of the calls of append().        *)
THEOREM FileInOrder == Spec => []Fifo
<1>1. Accounted => Fifo
  BY DEF Accounted, Ordered, Ascending, Fifo
<1>2. QED
  BY <1>1, AccountInvariant, PTL

(* The double-buffered logger implements the abstract pipe.                *)
THEOREM Refinement == Spec => ImplementsPipe
<1>1. Accounted /\ Inv' /\ [Next]_vars => [Pipe!Next]_(Pipe!pipeVars)
  BY AccountedNext
<1>2. QED
  BY AccountedInit, <1>1, AccountInvariant, Invariance, PTL
     DEF Spec, ImplementsPipe, Pipe!Spec
=============================================================================
