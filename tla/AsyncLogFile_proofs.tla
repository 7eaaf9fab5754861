------------------------ MODULE AsyncLogFile_proofs ------------------------
(***************************************************************************)
(* Theorems about AsyncLogFile: with the real LogFile behind it the logger *)
(* is still the AsyncLogging of the other module.  The lemmas of both      *)
(* parts are used where their actions are: P is the logger over what the   *)
(* LogFile was handed, O the LogFile.                                      *)
(***************************************************************************)
EXTENDS AsyncLogFile, SequenceTheorems, FiniteSetTheorems, TLAPS

O == INSTANCE LogFile_proofs WITH
  faults <- {"death"}, pid <- 1, MaxCrashes <- 1, Worlds <- {{"death"}}

P == INSTANCE AsyncLogging_proofs WITH
  file    <- OnlyLines(handed),
  flushed <- Len(OnlyLines(Output!Contents))

-----------------------------------------------------------------------------
(* The lines among the entries.                                            *)

Texts == Seq(Nat)

LEMMA Regrouped == \A x, y, z \in Texts : (x \o y) \o z = x \o (y \o z)
<1> DEFINE S == Nat
<1> HIDE DEF S
<1>1. \A x, y, z \in Seq(S) : (x \o y) \o z = x \o (y \o z)
  BY ConcatAssociative
<1> QED
  BY <1>1 DEF S, Texts

LEMMA NumberInduction ==
  ASSUME NEW T, 0 \in T, \A n \in Nat : n \in T => n + 1 \in T
  PROVE  Nat \subseteq T
BY AsyncLogFileAssumption, O!Induction

Part(e)  == IF e = 0 THEN << >> ELSE <<e>>
Parts(s) == [i \in DOMAIN s |-> Part(s[i])]

LEMMA PartsType ==
  ASSUME NEW s \in Seq(Nat)
  PROVE  /\ Parts(s) \in Seq(Seq(Nat)) /\ Len(Parts(s)) = Len(s)
         /\ \A i \in 1..Len(s) : Parts(s)[i] = Part(s[i])
         /\ OnlyLines(s) = O!FlattenSeq(Parts(s)) /\ OnlyLines(s) \in Seq(Nat)
<1>1. DOMAIN s = 1..Len(s) /\ Len(s) \in Nat /\ \A i \in 1..Len(s) : s[i] \in Nat
  OBVIOUS
<1>2. \A e \in Nat : Part(e) \in Seq(Nat)
  BY DEF Part
<1>3. Parts(s) \in Seq(Seq(Nat)) /\ Len(Parts(s)) = Len(s)
      /\ \A i \in 1..Len(s) : Parts(s)[i] = Part(s[i])
  BY <1>1, <1>2 DEF Parts
<1>4. OnlyLines(s) = O!FlattenSeq(Parts(s))
  BY DEF OnlyLines, Parts, Part, FlattenSeq, O!FlattenSeq
<1> QED
  BY <1>3, <1>4, AsyncLogFileAssumption, O!FlattenType

LEMMA OnlyOfAppend ==
  ASSUME NEW s \in Seq(Nat), NEW e \in Nat
  PROVE  OnlyLines(Append(s, e)) = OnlyLines(s) \o Part(e)
<1> DEFINE r == Append(s, e)
           n == Len(s)
           S == Seq(Nat)
<1>1. /\ r \in Seq(Nat) /\ Len(r) = n + 1 /\ n \in Nat /\ r[n + 1] = e
      /\ \A i \in 1..n : r[i] = s[i]
  OBVIOUS
<1>2. Part(e) \in S /\ Parts(s) \in Seq(S) /\ Len(Parts(s)) = n
      /\ \A i \in 1..n : Parts(s)[i] = Part(s[i])
  BY PartsType DEF Part
<1>3. Parts(r) \in Seq(S) /\ Len(Parts(r)) = n + 1
      /\ \A i \in 1..(n + 1) : Parts(r)[i] = Part(r[i])
  <2> HIDE DEF r
  <2> QED
    BY <1>1, PartsType
<1> HIDE DEF S
<1> DEFINE a == Append(Parts(s), Part(e))
<1>4. /\ a \in Seq(S) /\ Len(a) = n + 1 /\ a[n + 1] = Part(e)
      /\ \A i \in 1..n : a[i] = Parts(s)[i]
  BY <1>2, AppendProperties
<1> HIDE DEF a, r
<1>5. \A i \in 1..(n + 1) : Parts(r)[i] = a[i]
  <2> TAKE i \in 1..(n + 1)
  <2>1. i \in 1..n \/ i = n + 1
    BY <1>1
  <2> QED
    BY <1>1, <1>2, <1>3, <1>4, <2>1
<1>6. Parts(r) = a
  BY <1>3, <1>4, <1>5, SeqEqual
<1>7. O!FlattenSeq(a) = O!FlattenSeq(Parts(s)) \o Part(e)
  BY <1>2, AsyncLogFileAssumption, O!FlattenAppend DEF a, S
<1> QED
  BY <1>1, <1>6, <1>7, PartsType DEF r

LEMMA OnlyOfConcat ==
  ASSUME NEW s \in Seq(Nat), NEW t \in Seq(Nat)
  PROVE  OnlyLines(s \o t) = OnlyLines(s) \o OnlyLines(t)
<1> DEFINE T == {n \in Nat : \A u \in Seq(Nat) :
                   Len(u) = n => OnlyLines(s \o u) = OnlyLines(s) \o OnlyLines(u)}
<1>1. 0 \in T
  <2>1. ASSUME NEW u \in Seq(Nat), Len(u) = 0
        PROVE  OnlyLines(s \o u) = OnlyLines(s) \o OnlyLines(u)
    <3>1. u = << >> /\ s \o u = s
      BY <2>1
    <3>2. OnlyLines(<< >>) = << >>
      BY DEF OnlyLines, FlattenSeq
    <3> QED
      BY <3>1, <3>2, PartsType, ConcatEmptySeq
  <2> QED
    BY <2>1
<1>2. ASSUME NEW n \in Nat, n \in T PROVE n + 1 \in T
  <2>1. ASSUME NEW u \in Seq(Nat), Len(u) = n + 1
        PROVE  OnlyLines(s \o u) = OnlyLines(s) \o OnlyLines(u)
    <3>1. PICK h \in Seq(Nat), e \in Nat : u = Append(h, e)
      <4>1. u # << >>
        BY <2>1
      <4> QED
        BY <4>1, SequenceEmptyOrAppend
    <3>2. Len(h) = n /\ s \o u = Append(s \o h, e) /\ s \o h \in Seq(Nat)
      BY <2>1, <3>1
    <3>3. OnlyLines(s \o h) = OnlyLines(s) \o OnlyLines(h)
      BY <1>2, <3>2
    <3>4. /\ OnlyLines(s \o u) = OnlyLines(s \o h) \o Part(e)
          /\ OnlyLines(u) = OnlyLines(h) \o Part(e)
      BY <3>1, <3>2, OnlyOfAppend
    <3> DEFINE x == OnlyLines(s)
               y == OnlyLines(h)
               z == Part(e)
    <3>5. x \in Texts /\ y \in Texts /\ z \in Texts
      BY PartsType DEF Part, Texts
    <3>6. OnlyLines(s \o u) = (x \o y) \o z /\ OnlyLines(u) = y \o z
      BY <3>3, <3>4
    <3> HIDE DEF x, y, z
    <3>7. (x \o y) \o z = x \o (y \o z)
      BY <3>5, Regrouped, Zenon
    <3> QED
      BY <3>6, <3>7 DEF x
  <2> QED
    BY <2>1
<1>3. Nat \subseteq T
  <2> HIDE DEF T
  <2> QED
    BY <1>1, <1>2, NumberInduction
<1> QED
  BY <1>3

(* Of nothing but lines, all; of notices only, none.                       *)
LEMMA OnlyOfLines ==
  /\ OnlyLines(<< >>) = << >> /\ OnlyLines(<<0>>) = << >>
  /\ \A t \in Seq(Nat \ {0}) : OnlyLines(t) = t
<1>1. OnlyLines(<< >>) = << >>
  BY DEF OnlyLines, FlattenSeq
<1>2. OnlyLines(<<0>>) = << >>
  <2>1. <<0>> = Append(<< >>, 0) /\ << >> \in Seq(Nat) /\ 0 \in Nat
    OBVIOUS
  <2>2. OnlyLines(<<0>>) = OnlyLines(<< >>) \o Part(0)
    BY <2>1, OnlyOfAppend
  <2> QED
    BY <1>1, <2>2 DEF Part
<1> DEFINE T == {n \in Nat : \A u \in Seq(Nat \ {0}) : Len(u) = n => OnlyLines(u) = u}
<1>3. 0 \in T
  <2>1. \A u \in Seq(Nat \ {0}) : Len(u) = 0 => u = << >>
    OBVIOUS
  <2> QED
    BY <1>1, <2>1
<1>4. ASSUME NEW n \in Nat, n \in T PROVE n + 1 \in T
  <2>1. ASSUME NEW u \in Seq(Nat \ {0}), Len(u) = n + 1 PROVE OnlyLines(u) = u
    <3>1. PICK h \in Seq(Nat \ {0}), e \in Nat \ {0} : u = Append(h, e)
      <4> DEFINE S == Nat \ {0}
      <4>1. u # << >> /\ u \in Seq(S)
        BY <2>1
      <4> HIDE DEF S
      <4>2. \E h \in Seq(S), e \in S : u = Append(h, e)
        BY <4>1, SequenceEmptyOrAppend
      <4> QED
        BY <4>2 DEF S
    <3>2. Len(h) = n /\ h \in Seq(Nat) /\ e \in Nat
      BY <2>1, <3>1
    <3>3. OnlyLines(h) = h
      BY <1>4, <3>2
    <3>4. OnlyLines(u) = OnlyLines(h) \o Part(e)
      BY <3>1, <3>2, OnlyOfAppend
    <3> QED
      BY <3>1, <3>2, <3>3, <3>4 DEF Part
  <2> QED
    BY <2>1
<1>5. Nat \subseteq T
  <2> HIDE DEF T
  <2> QED
    BY <1>3, <1>4, NumberInduction
<1>6. \A t \in Seq(Nat \ {0}) : Len(t) \in Nat
  OBVIOUS
<1> QED
  BY <1>1, <1>2, <1>5, <1>6

(* What is handed over later does not take a line back.                    *)
LEMMA CountsGrow ==
  ASSUME NEW s \in Seq(Nat), NEW t \in Seq(Nat)
  PROVE  /\ Len(OnlyLines(s)) \in Nat /\ Len(OnlyLines(s \o t)) \in Nat
         /\ Len(OnlyLines(s)) <= Len(OnlyLines(s \o t))
<1>1. OnlyLines(s) \in Seq(Nat)
  BY PartsType
<1>2. OnlyLines(t) \in Seq(Nat)
  BY PartsType
<1>3. OnlyLines(s \o t) = OnlyLines(s) \o OnlyLines(t)
  BY OnlyOfConcat
<1> HIDE DEF OnlyLines
<1> QED
  BY <1>1, <1>2, <1>3, ConcatProperties, LenProperties

-----------------------------------------------------------------------------
(* One name for the actions of the modules and of their proofs.            *)

LEMMA OutputIsO ==
  /\ O!Contents = Output!Contents /\ ~O!DiskMayFill
  /\ \A text : Output!Accept(text) => O!Accept(text)
  /\ Output!RollFile => O!RollFile
  /\ Output!FlushFile => O!FlushFile /\ O!FlushOk
<1>1. O!Contents = Output!Contents
  BY DEF O!Contents, Output!Contents, O!FlattenSeq, Output!FlattenSeq
<1>2. ~O!DiskMayFill /\ ~Output!DiskMayFill
  BY DEF O!DiskMayFill, Output!DiskMayFill
<1>3. ASSUME NEW text, Output!Accept(text) PROVE O!Accept(text)
  BY <1>3 DEF O!Accept, Output!Accept, O!Flushed, Output!Flushed
<1>4. Output!RollFile => O!RollFile
  BY <1>2 DEF O!RollFile, Output!RollFile, O!NewSecond, Output!NewSecond,
     O!CloseAndOpen, Output!CloseAndOpen, O!PeriodOf, Output!PeriodOf,
     O!Closed, Output!Closed, O!Flushed, Output!Flushed, O!Open, Output!Open,
     O!marks, Output!marks, O!stream, Output!stream
<1>5. Output!FlushFile => O!FlushFile /\ O!FlushOk
  BY <1>2 DEF O!FlushFile, Output!FlushFile, O!FlushOk, Output!FlushOk, Output!FlushFails,
     O!Flushed, Output!Flushed
<1> QED
  BY <1>1, <1>2, <1>3, <1>4, <1>5

LEMMA VarsAreP == P!vars = Pipeline!vars /\ P!vars' = Pipeline!vars'
BY DEF P!vars, P!front, P!back, P!output, P!fate,
       Pipeline!vars, Pipeline!front, Pipeline!back, Pipeline!output, Pipeline!fate

LEMMA InitIsP == P!Init <=> Pipeline!Init
BY DEF P!Init, Pipeline!Init, P!InitialCount, Pipeline!InitialCount,
       P!Buf!Empty, Pipeline!Buf!Empty

LEMMA FrontEndIsP == P!FrontEnd <=> Pipeline!FrontEnd
BY DEF P!FrontEnd, Pipeline!FrontEnd, P!AppendInPlace, Pipeline!AppendInPlace,
       P!AppendSwitch, Pipeline!AppendSwitch, P!Fits, Pipeline!Fits,
       P!Buf!avail, Pipeline!Buf!avail, P!Buf!append, Pipeline!Buf!append,
       P!Buf!Empty, Pipeline!Buf!Empty, P!Spare, Pipeline!Spare,
       P!PushBack, Pipeline!PushBack, P!Notified, Pipeline!Notified,
       P!back, Pipeline!back, P!output, Pipeline!output

LEMMA OwnerIsP == P!Owner <=> Pipeline!Owner
BY DEF P!Owner, Pipeline!Owner, P!Start, Pipeline!Start, P!Started, Pipeline!Started,
       P!StopFlag, Pipeline!StopFlag, P!StopNotify, Pipeline!StopNotify,
       P!StopJoin, Pipeline!StopJoin, P!LatchOpen, Pipeline!LatchOpen,
       P!Notified, Pipeline!Notified, P!front, Pipeline!front, P!back, Pipeline!back,
       P!output, Pipeline!output, P!fate, Pipeline!fate

Quietly == P!CountDown \/ P!BackendInit \/ P!LoopTest \/ P!WaitForSeconds \/ P!TimedOut

LEMMA QuietIsP ==
  Quietly <=> \/ Pipeline!CountDown \/ Pipeline!BackendInit \/ Pipeline!LoopTest
              \/ Pipeline!WaitForSeconds \/ Pipeline!TimedOut
BY DEF Quietly, P!CountDown, Pipeline!CountDown, P!BackendInit, Pipeline!BackendInit,
       P!LoopTest, Pipeline!LoopTest, P!WaitForSeconds, Pipeline!WaitForSeconds,
       P!TimedOut, Pipeline!TimedOut, P!Buf!Empty, Pipeline!Buf!Empty,
       P!front, Pipeline!front, P!back, Pipeline!back,
       P!output, Pipeline!output, P!fate, Pipeline!fate

LEMMA SwapIsP == /\ P!SwapNow <=> Pipeline!SwapNow
                 /\ P!SwapAfterWait <=> Pipeline!SwapAfterWait
BY DEF P!SwapNow, Pipeline!SwapNow, P!SwapAfterWait, Pipeline!SwapAfterWait,
       P!SwapBuffers, Pipeline!SwapBuffers, P!PushBack, Pipeline!PushBack,
       P!output, Pipeline!output, P!fate, Pipeline!fate

LEMMA ShedIsP == P!Shed <=> Pipeline!Shed
BY DEF P!Shed, Pipeline!Shed, P!Announce, Pipeline!Announce, P!Kept, Pipeline!Kept,
       P!MayFlush, Pipeline!MayFlush, P!LinesInAll, Pipeline!LinesInAll,
       P!LinesIn, Pipeline!LinesIn, P!front, Pipeline!front

LEMMA RecycleIsP == P!Recycle <=> Pipeline!Recycle
BY DEF P!Recycle, Pipeline!Recycle, P!Recycled, Pipeline!Recycled, P!Front, Pipeline!Front,
       P!Last, Pipeline!Last, P!Buf!reset, Pipeline!Buf!reset, P!Buf!Empty, Pipeline!Buf!Empty,
       P!front, Pipeline!front, P!output, Pipeline!output, P!fate, Pipeline!fate

LEMMA WriteBufferIsP == P!WriteBuffer <=> Pipeline!WriteBuffer
BY DEF P!WriteBuffer, Pipeline!WriteBuffer, P!MayFlush, Pipeline!MayFlush,
       P!front, Pipeline!front, P!fate, Pipeline!fate

LEMMA OutputFlushesIsP == P!OutputFlushes <=> Pipeline!OutputFlushes
BY DEF P!OutputFlushes, Pipeline!OutputFlushes, P!MayFlush, Pipeline!MayFlush,
       P!front, Pipeline!front, P!back, Pipeline!back, P!fate, Pipeline!fate

LEMMA FlushIsP == P!Flush <=> Pipeline!Flush
BY DEF P!Flush, Pipeline!Flush, P!FlushAll, Pipeline!FlushAll,
       P!front, Pipeline!front, P!back, Pipeline!back, P!fate, Pipeline!fate

LEMMA FinalFlushIsP == P!FinalFlush <=> Pipeline!FinalFlush
BY DEF P!FinalFlush, Pipeline!FinalFlush, P!FlushAll, Pipeline!FlushAll,
       P!front, Pipeline!front, P!back, Pipeline!back, P!fate, Pipeline!fate

LEMMA NextIsP == [P!Next]_(P!vars) => [Pipeline!Next]_(Pipeline!vars)
<1>1. P!Terminated => Pipeline!Terminated
  BY VarsAreP DEF P!Terminated, Pipeline!Terminated
<1> QED
  BY <1>1, VarsAreP, FrontEndIsP, OwnerIsP, QuietIsP, SwapIsP, ShedIsP, RecycleIsP,
     WriteBufferIsP, OutputFlushesIsP, FlushIsP, FinalFlushIsP
     DEF Quietly, P!Next, Pipeline!Next, P!BackEnd, Pipeline!BackEnd

-----------------------------------------------------------------------------
(* What the LogFile was handed is in its files and its buffer, as long as  *)
(* the process lives, and the back end is where the LogFile is.            *)
Early == {"none", "entry", "init"}

Unbuilt ==
  /\ now \in Nat \ {0} /\ disk = << >> /\ stdio = << >> /\ handed = << >>
  /\ bpc \in Early

Built == O!Names /\ handed = O!Log /\ bpc \notin Early

Shape ==
  /\ pc \in {"none", "idle", "check", "roll", "dead"}
  /\ pc = "none" => Unbuilt
  /\ pc \in {"idle", "check", "roll"} => Built
  /\ pc \in {"check", "roll"} => bpc = "write"

(* A step in memory.                                                       *)
LEMMA MemoryKeepsShape ==
  ASSUME Shape, UNCHANGED <<fileVars, handed>>, lines' \in Nat,
         bpc' \in Early <=> bpc \in Early, bpc = "write" => bpc' = "write"
  PROVE  Shape'
<1>1. UNCHANGED <<now, pc, lastRoll_, disk, stdio, handed>>
  BY DEF fileVars
<1>2. O!Names => O!Names'
  BY <1>1 DEF O!Names, O!NamesFresh
<1>3. O!Log' = O!Log
  BY <1>1 DEF O!Log, O!Contents
<1> QED
  BY <1>1, <1>2, <1>3 DEF Shape, Unbuilt, Built

LEMMA InMemoryStep ==
  ASSUME Shape, P!Accounted, FrontEnd \/ Owner \/ BackEndInMemory
  PROVE  Shape' /\ P!Next
<1>1. /\ P!FrontEnd \/ P!Owner \/ P!SwapNow \/ P!SwapAfterWait \/ P!Recycle
         \/ P!CountDown \/ P!LoopTest \/ P!WaitForSeconds \/ P!TimedOut
      /\ UNCHANGED <<fileVars, handed>>
  <2>1. Pipeline!CountDown => P!CountDown
    BY DEF P!CountDown, Pipeline!CountDown, P!front, Pipeline!front, P!back, Pipeline!back,
           P!output, Pipeline!output, P!fate, Pipeline!fate
  <2>2. Pipeline!LoopTest => P!LoopTest
    BY DEF P!LoopTest, Pipeline!LoopTest, P!front, Pipeline!front, P!back, Pipeline!back,
           P!output, Pipeline!output, P!fate, Pipeline!fate
  <2>3. Pipeline!WaitForSeconds => P!WaitForSeconds
    BY DEF P!WaitForSeconds, Pipeline!WaitForSeconds, P!front, Pipeline!front, P!back, Pipeline!back,
           P!output, Pipeline!output, P!fate, Pipeline!fate
  <2>4. Pipeline!TimedOut => P!TimedOut
    BY DEF P!TimedOut, Pipeline!TimedOut, P!front, Pipeline!front, P!back, Pipeline!back,
           P!output, Pipeline!output, P!fate, Pipeline!fate
  <2> QED
    BY <2>1, <2>2, <2>3, <2>4, FrontEndIsP, OwnerIsP, SwapIsP, RecycleIsP
       DEF FrontEnd, Owner, BackEndInMemory
<1>2. P!Next
  BY <1>1 DEF P!Next, P!BackEnd
<1>3. lines \in Nat /\ (bpc = "none" <=> owner = "new")
  BY DEF P!Accounted, P!Inv, P!TypeOK, P!Phases
<1>4. lines' \in Nat
  BY <1>1, <1>3 DEF P!FrontEnd, P!AppendInPlace, P!AppendSwitch, P!Owner, P!Start, P!Started,
     P!StopFlag, P!StopNotify, P!StopJoin, P!SwapNow, P!SwapAfterWait, P!SwapBuffers,
     P!Recycle, P!CountDown, P!LoopTest, P!WaitForSeconds, P!TimedOut, P!fate
<1>5. (bpc' \in Early <=> bpc \in Early) /\ (bpc = "write" => bpc' = "write")
  BY <1>1, <1>3 DEF P!FrontEnd, P!AppendInPlace, P!AppendSwitch, P!Notified, P!Owner, P!Start,
     P!Started, P!StopFlag, P!StopNotify, P!StopJoin, P!SwapNow, P!SwapAfterWait,
     P!SwapBuffers, P!Recycle, P!CountDown, P!LoopTest, P!WaitForSeconds, P!TimedOut, Early
<1> QED
  BY <1>1, <1>2, <1>4, <1>5, MemoryKeepsShape

(* The first file is opened.                                               *)
LEMMA ConstructStep ==
  ASSUME Shape, P!Accounted, pc = "none", Construct
  PROVE  Shape' /\ P!Next
<1>1. P!BackendInit
  BY DEF Construct, P!BackendInit, Pipeline!BackendInit, P!Buf!Empty, Pipeline!Buf!Empty,
     P!front, Pipeline!front, P!output, Pipeline!output, P!fate, Pipeline!fate
<1>2. bpc' = "loop" /\ lines' = lines /\ lines \in Nat
  BY <1>1 DEF P!BackendInit, P!fate, P!Accounted, P!Inv, P!TypeOK
<1> DEFINE e == [name |-> [at |-> now, pid |-> 1], lines |-> << >>]
<1>3. /\ disk = << >> /\ handed' = << >> /\ now \in Nat \ {0} /\ now' = now
      /\ stdio' = << >> /\ disk' = Append(disk, e) /\ lastRoll_' = now /\ pc' = "idle"
  BY DEF Shape, Unbuilt, Construct, Output!Construct
<1>4. e \in O!FileRecord /\ e.name = [at |-> now, pid |-> 1] /\ e.lines = << >>
  BY <1>3 DEF O!FileRecord
<1> HIDE DEF e
<1>5. disk' \in Seq(O!FileRecord) /\ disk' # << >> /\ DOMAIN disk' = {1} /\ disk'[1] = e
  BY <1>3, <1>4
<1>6. O!Names'
  BY <1>2, <1>3, <1>4, <1>5 DEF O!Names, O!NamesFresh, O!Taken
<1>7. O!Log' = << >>
  <2>1. << >> \in Seq(O!FileRecord)
    OBVIOUS
  <2>2. O!TextOf(disk') = O!TextOf(<< >>)
    BY <1>3, <1>4, <2>1, AsyncLogFileAssumption, O!TextOfOpened
  <2>3. O!TextOf(<< >>) = << >>
    BY DEF O!TextOf, O!FlattenSeq
  <2> QED
    BY <1>3, <2>2, <2>3 DEF O!Log, O!Contents, O!TextOf
<1> QED
  BY <1>1, <1>2, <1>3, <1>6, <1>7 DEF Shape, Built, Early, P!Next, P!BackEnd

(* append(): some of what is buffered and new may go to disk, oldest first.*)
LEMMA HandedOver ==
  ASSUME Built, NEW text \in Seq(Nat), NEW len, OutputAppend(text, len), lines' = lines
  PROVE  /\ O!Names' /\ handed' = O!Log' /\ handed \in Seq(Nat)
         /\ pc = "idle" /\ pc' \in {"idle", "check", "roll"}
         /\ OnlyLines(handed') = OnlyLines(handed) \o OnlyLines(text)
         /\ Len(OnlyLines(Output!Contents')) \in
              Len(OnlyLines(Output!Contents))..Len(OnlyLines(handed'))
<1>1. /\ handed' = handed \o text /\ UNCHANGED <<now, lastRoll_>>
      /\ Output!Accept(text) /\ pc = "idle" /\ pc' \in {"idle", "check", "roll"}
  BY DEF OutputAppend, Output!AppendText, Output!Truncate, Output!DiskMayFill,
         Output!clock, Output!marks
<1>2. O!Names /\ O!Accept(text)
  BY <1>1, OutputIsO DEF Built
<1>3. O!Names'
  <2>1. lines' \in Nat
    BY DEF Built, O!Names
  <2> QED
    BY <1>1, <1>2, <2>1, AsyncLogFileAssumption, O!AcceptKeepsNames
<1>4. PICK pre \in Seq(Nat), rest \in Seq(Nat) :
        pre \o rest = stdio \o text /\ O!Contents' = O!Contents \o pre /\ stdio' = rest
  BY <1>2, AsyncLogFileAssumption, O!AcceptSplits
<1>5. /\ O!Contents \in Seq(Nat) /\ stdio \in Seq(Nat)
      /\ handed = O!Contents \o stdio /\ handed \in Seq(Nat)
  BY <1>2, AsyncLogFileAssumption, O!LogTypes DEF Built, O!Log
<1>6. O!Contents' = Output!Contents' /\ O!Contents = Output!Contents
  BY DEF O!Contents, Output!Contents, O!FlattenSeq, Output!FlattenSeq
<1>7. O!Contents' \in Seq(Nat)
  BY <1>4, <1>5, ConcatProperties
<1>8. handed' = O!Contents' \o rest
  <2> DEFINE c == O!Contents
  <2>1. c \in Texts /\ stdio \in Texts /\ text \in Texts
    BY <1>5 DEF Texts
  <2>2. c \in Texts /\ pre \in Texts /\ rest \in Texts
    BY <1>5 DEF Texts
  <2> HIDE DEF c
  <2>3. (c \o stdio) \o text = c \o (stdio \o text)
    BY <2>1, Regrouped, Zenon
  <2>4. (c \o pre) \o rest = c \o (pre \o rest)
    BY <2>2, Regrouped, Zenon
  <2> QED
    BY <1>1, <1>4, <1>5, <2>3, <2>4 DEF c
<1>9. OnlyLines(handed') = OnlyLines(handed) \o OnlyLines(text)
  BY <1>1, <1>5, OnlyOfConcat
<1>10. /\ Len(OnlyLines(O!Contents)) \in Nat /\ Len(OnlyLines(O!Contents')) \in Nat
       /\ Len(OnlyLines(O!Contents)) <= Len(OnlyLines(O!Contents'))
  BY <1>4, <1>5, CountsGrow
<1>11. /\ Len(OnlyLines(handed')) \in Nat
       /\ Len(OnlyLines(O!Contents')) <= Len(OnlyLines(handed'))
  BY <1>4, <1>7, <1>8, CountsGrow
<1>12. handed' = O!Log'
  BY <1>4, <1>8 DEF O!Log
<1>13. Len(OnlyLines(O!Contents')) \in Len(OnlyLines(O!Contents))..Len(OnlyLines(handed'))
  BY <1>10, <1>11
<1>14. Len(OnlyLines(Output!Contents')) \in
         Len(OnlyLines(Output!Contents))..Len(OnlyLines(handed'))
  BY <1>6, <1>13
<1> QED
  BY <1>1, <1>3, <1>5, <1>9, <1>12, <1>14

(* Line 97: the notice is no line, and the file the logger sees is as it   *)
(* was.                                                                    *)
LEMMA ShedStep ==
  ASSUME Shape, P!Accounted, Shed
  PROVE  Shape' /\ P!Next
<1>1. /\ bpc = "shed" /\ bpc' = "write" /\ pc = "idle" /\ lines' = lines
      /\ lines \in Nat /\ Built
  BY DEF Shed, Shape, P!Accounted, P!Inv, P!TypeOK
<1>2. CASE Overloaded
  <2>1. Notice /\ OutputAppend(<<0>>, NoticeLen) /\ <<0>> \in Seq(Nat)
    BY <1>2 DEF Shed, Notice
  <2>2. /\ O!Names' /\ handed' = O!Log' /\ handed \in Seq(Nat)
        /\ pc' \in {"idle", "check", "roll"}
        /\ OnlyLines(handed') = OnlyLines(handed) \o OnlyLines(<<0>>)
        /\ Len(OnlyLines(Output!Contents')) \in
              Len(OnlyLines(Output!Contents))..Len(OnlyLines(handed'))
    BY <1>1, <2>1, HandedOver
  <2>3. OnlyLines(handed') = OnlyLines(handed)
    BY <2>2, OnlyOfLines, PartsType, ConcatEmptySeq
  <2>4. P!Shed
    BY <1>2, <2>2, <2>3 DEF Shed, Overloaded, P!Shed, P!Announce, P!Kept, P!MayFlush,
       P!LinesInAll, Pipeline!LinesInAll, P!LinesIn, Pipeline!LinesIn, P!front
  <2> QED
    BY <1>1, <2>2, <2>4 DEF Shape, Built, Early, P!Next, P!BackEnd
<1>3. CASE ~Overloaded
  <2>1. UNCHANGED <<fileVars, handed>> /\ UNCHANGED <<notices, dropped, buffersToWrite>>
    BY <1>3 DEF Shed
  <2>2. Shape'
    BY <1>1, <2>1, MemoryKeepsShape DEF Early
  <2>3. Output!Contents' = Output!Contents
    BY <2>1 DEF fileVars, Output!Contents
  <2>4. P!Shed
    BY <1>3, <2>1, <2>3 DEF Shed, Overloaded, P!Shed, P!front
  <2> QED
    BY <2>2, <2>4 DEF P!Next, P!BackEnd
<1> QED
  BY <1>2, <1>3

(* Lines 113 to 116.                                                       *)
LEMMA WriteBufferStep ==
  ASSUME Shape, P!Accounted, WriteBuffer
  PROVE  Shape' /\ P!Next
<1> DEFINE text == buffersToWrite[pos].data
<1>1. /\ bpc = "write" /\ pos <= Len(buffersToWrite) /\ lines' = lines /\ bpc' = bpc
      /\ OutputAppend(text, buffersToWrite[pos].length)
  BY DEF WriteBuffer
<1>2. Built
  BY <1>1 DEF Shape, OutputAppend, Output!AppendText
<1>3. text \in Seq(Nat \ {0})
  <2>1. /\ buffersToWrite \in Seq([data : Seq(Nat), length : Nat]) /\ pos \in Nat \ {0}
        /\ lines \in Nat
    BY DEF P!Accounted, P!Inv, P!TypeOK, P!Buf!Buffer
  <2>2. P!Held \subseteq 1..lines
    BY DEF P!Accounted, P!NoSilentLoss
  <2>3. buffersToWrite[pos] \in [data : Seq(Nat), length : Nat] /\ text \in Seq(Nat)
    <3>1. \A S, q : q \in Seq(S) /\ pos \in 1..Len(q) => q[pos] \in S
      OBVIOUS
    <3>2. pos \in 1..Len(buffersToWrite)
      BY <1>1, <2>1
    <3> QED
      BY <2>1, <3>1, <3>2
  <2>4. P!LinesIn(buffersToWrite[pos]) \subseteq P!Held
    <3>1. P!Batch[1] = buffersToWrite[pos] /\ 1 \in DOMAIN P!Batch
      BY <1>1, <2>1, SMTT(30) DEF P!Batch
    <3> QED
      BY <3>1 DEF P!Held, P!LinesInAll
  <2>5. \A i \in DOMAIN text : text[i] \in P!LinesIn(buffersToWrite[pos])
    <3>1. buffersToWrite[pos] # NoBuffer
      BY <2>3, AsyncLogFileAssumption
    <3> QED
      BY <3>1 DEF P!LinesIn
  <2>6. \A i \in 1..Len(text) : text[i] \in Nat \ {0}
    <3>1. DOMAIN text = 1..Len(text)
      BY <2>3
    <3> HIDE DEF text
    <3>2. \A i \in DOMAIN text : text[i] \in 1..lines
      BY <2>2, <2>4, <2>5, Zenon
    <3>3. \A k \in 1..lines : k \in Nat \ {0}
      BY <2>1
    <3> QED
      BY <3>1, <3>2, <3>3, Zenon
  <2> HIDE DEF text
  <2> QED
    BY <2>3, <2>6
<1> HIDE DEF text
<1>4. /\ O!Names' /\ handed' = O!Log' /\ handed \in Seq(Nat)
      /\ pc' \in {"idle", "check", "roll"}
      /\ OnlyLines(handed') = OnlyLines(handed) \o OnlyLines(text)
      /\ Len(OnlyLines(Output!Contents')) \in
            Len(OnlyLines(Output!Contents))..Len(OnlyLines(handed'))
  <2>1. text \in Seq(Nat)
    BY <1>3
  <2> QED
    BY <1>1, <1>2, <2>1, HandedOver
<1>5. OnlyLines(handed') = OnlyLines(handed) \o text
  BY <1>3, <1>4, OnlyOfLines
<1>6. P!WriteBuffer
  BY <1>4, <1>5 DEF text, WriteBuffer, P!WriteBuffer, P!MayFlush, P!front, P!fate
<1> QED
  BY <1>1, <1>4, <1>6 DEF Shape, Built, Early, P!Next, P!BackEnd

(* What the LogFile does on its own moves what it holds to disk, or not.   *)
LEMMA OnItsOwn ==
  ASSUME Built, pc # "dead", pc' # "dead", UNCHANGED <<handed, lines, now>>,
         \/ Output!RollFile
         \/ Output!FlushFile /\ UNCHANGED lastRoll_
         \/ UNCHANGED <<disk, stdio, lastRoll_>>
  PROVE  /\ O!Names' /\ handed' = O!Log'
         /\ Output!Contents' = Output!Contents \/ Output!Contents' = handed
<1>1. O!Names /\ handed = O!Log
  BY DEF Built
<1>2. O!Contents' = Output!Contents' /\ O!Contents = Output!Contents
  BY DEF O!Contents, Output!Contents, O!FlattenSeq, Output!FlattenSeq
<1>3. lines' \in Nat /\ stdio \in Seq(Nat)
  BY <1>1 DEF O!Names
<1>4. CASE Output!RollFile
  <2>1. O!RollFile
    BY <1>4, OutputIsO
  <2>2. O!Names'
    BY <1>1, <2>1, AsyncLogFileAssumption, O!RollKeepsNames
  <2>3. O!Settles \/ O!LosesBuffer
    BY <1>1, <2>1, AsyncLogFileAssumption, O!RollMoves
  <2> QED
    BY <1>1, <1>2, <2>2, <2>3, OutputIsO DEF O!Settles, O!LosesBuffer
<1>5. CASE Output!FlushFile /\ UNCHANGED lastRoll_
  <2>1. O!FlushFile /\ O!FlushOk
    BY <1>5, OutputIsO
  <2>2. O!Names'
    <3>1. disk' = O!Flushed(disk, stdio) /\ stdio' = << >>
      BY <2>1 DEF O!FlushOk
    <3>2. stdio' \in Seq(Nat)
      BY <3>1
    <3> QED
      BY <1>1, <1>3, <1>5, <3>1, <3>2, AsyncLogFileAssumption, O!WriteKeepsNames
  <2>3. O!Settles \/ O!LosesBuffer
    BY <1>1, <2>1, AsyncLogFileAssumption, O!FlushMoves
  <2> QED
    BY <1>1, <1>2, <2>2, <2>3, OutputIsO DEF O!Settles, O!LosesBuffer
<1>6. CASE UNCHANGED <<disk, stdio, lastRoll_>>
  BY <1>1, <1>2, <1>6 DEF O!Names, O!NamesFresh, O!Log, O!Contents
<1> QED
  BY <1>4, <1>5, <1>6

(* Lines 67 and 73 to 81 of LogFile.cc.                                    *)
LEMMA InsideStep ==
  ASSUME Shape, P!Accounted, InsideAppend
  PROVE  Shape' /\ [P!Next]_(P!vars)
<1>1. /\ pc \in {"check", "roll"} /\ pc' \in {"idle", "roll"}
      /\ UNCHANGED <<memVars, handed, now>> /\ bpc = "write" /\ Built
  BY DEF InsideAppend, Output!Check, Output!Roll, Output!clock, Shape
<1>2. UNCHANGED <<lines, bpc>>
  BY <1>1 DEF memVars
<1>3. \/ Output!RollFile
      \/ Output!FlushFile /\ UNCHANGED lastRoll_
      \/ UNCHANGED <<disk, stdio, lastRoll_>>
  BY DEF InsideAppend, Output!Check, Output!Roll
<1>4. /\ O!Names' /\ handed' = O!Log'
      /\ Output!Contents' = Output!Contents \/ Output!Contents' = handed
  BY <1>1, <1>2, <1>3, OnItsOwn
<1>5. Shape'
  BY <1>1, <1>2, <1>4 DEF Shape, Built
<1>6. Len(OnlyLines(Output!Contents)) \in 0..Len(OnlyLines(handed))
  BY DEF P!Accounted, P!Inv, P!TypeOK
<1>7. OnlyLines(handed) \in Seq(Nat) /\ OnlyLines(handed') = OnlyLines(handed)
  BY <1>1 DEF P!Accounted, P!Inv, P!TypeOK
<1>8. CASE Len(OnlyLines(Output!Contents')) = Len(OnlyLines(Output!Contents))
  BY <1>1, <1>5, <1>7, <1>8
     DEF memVars, P!vars, P!front, P!back, P!output, P!fate
<1>9. CASE Len(OnlyLines(Output!Contents')) # Len(OnlyLines(Output!Contents))
  <2>1. Len(OnlyLines(Output!Contents')) = Len(OnlyLines(handed))
    BY <1>4, <1>9
  <2>2. P!OutputFlushes
    BY <1>1, <1>6, <1>7, <1>9, <2>1
       DEF P!OutputFlushes, P!MayFlush, memVars, P!front, P!back, P!fate
  <2> QED
    BY <1>5, <2>2 DEF P!Next, P!BackEnd
<1> QED
  BY <1>8, <1>9

(* Lines 117 and 143 of AsyncLogging.cc.                                   *)
LEMMA FlushStep ==
  ASSUME Shape, P!Accounted, Flush
  PROVE  Shape' /\ P!Next
<1>1. /\ pc = "idle" /\ pc' = "idle" /\ UNCHANGED <<lines, handed, now, lastRoll_>>
      /\ Output!FlushFile /\ bpc \in {"write", "exit"} /\ bpc' \in {"recycle", "done"} /\ Built
  BY DEF Flush, Output!FlushCall, Output!clock, Output!marks, Shape
<1>2. O!Names' /\ handed' = O!Log'
  BY <1>1, OnItsOwn
<1>3. Output!Contents' = handed
  <2>1. O!FlushOk
    BY <1>1, OutputIsO
  <2>2. disk' = O!Flushed(disk, stdio) /\ stdio' = << >>
    BY <2>1 DEF O!FlushOk
  <2>3. O!Names /\ handed = O!Log
    BY <1>1 DEF Built
  <2>4. O!Contents' = O!Log
    BY <2>2, <2>3, AsyncLogFileAssumption, O!WrittenOut
  <2>5. O!Contents' = Output!Contents'
    BY DEF O!Contents, Output!Contents, O!FlattenSeq, Output!FlattenSeq
  <2> QED
    BY <2>3, <2>4, <2>5
<1>4. P!Flush \/ P!FinalFlush
  BY <1>1, <1>3 DEF Flush, P!Flush, P!FinalFlush, P!FlushAll, P!front, P!back, P!fate
<1>5. Shape'
  BY <1>1, <1>2 DEF Shape, Built, Early
<1> QED
  BY <1>4, <1>5 DEF P!Next, P!BackEnd

(* The clock, and the death of the process.                                *)
LEMMA OutsideStep ==
  ASSUME Shape, Tick \/ Crash \/ UNCHANGED vars
  PROVE  Shape' /\ UNCHANGED P!vars
<1>1. /\ UNCHANGED <<memVars, handed, disk>>
      /\ \/ UNCHANGED <<stdio, pc, lastRoll_>> /\ now' \in {now, now + 1}
         \/ pc' = "dead"
  BY DEF Tick, Crash, Output!Tick, Output!Crash, Output!marks, Output!stream, vars, fileVars
<1>2. UNCHANGED P!vars
  BY <1>1 DEF memVars, P!vars, P!front, P!back, P!output, P!fate, Output!Contents
<1>3. UNCHANGED <<lines, bpc>>
  BY <1>1 DEF memVars
<1>4. CASE UNCHANGED <<stdio, pc, lastRoll_>> /\ now' \in {now, now + 1}
  <2>1. now \in Nat \ {0} => now' \in Nat \ {0}
    BY <1>4
  <2>2. O!Names => O!Names'
    BY <1>1, <1>3, <1>4, <2>1 DEF O!Names, O!NamesFresh
  <2>3. O!Log' = O!Log
    BY <1>1, <1>4 DEF O!Log, O!Contents
  <2> QED
    BY <1>1, <1>2, <1>3, <1>4, <2>1, <2>2, <2>3 DEF Shape, Unbuilt, Built
<1> QED
  BY <1>1, <1>2, <1>4 DEF Shape

-----------------------------------------------------------------------------
(* Every step of the two together is one of the logger's or none.          *)
Sound == Shape /\ P!Accounted

LEMMA SoundInit == Init => Sound /\ Pipeline!Init
<1> SUFFICES ASSUME Init PROVE Sound /\ Pipeline!Init
  OBVIOUS
<1>1. Pipeline!Init /\ bpc = "none"
  BY DEF Init, Pipeline!Init
<1>2. Shape
  BY <1>1 DEF Init, Shape, Unbuilt, Early
<1>3. P!Init
  BY <1>1, InitIsP
<1>4. P!Accounted
  BY <1>3, AsyncLogFileAssumption, P!AccountedInit DEF P!Buf!Buffer
<1> QED
  BY <1>1, <1>2, <1>4 DEF Sound

LEMMA SoundNext ==
  ASSUME Sound, [Next]_vars
  PROVE  Sound' /\ [P!Next]_(P!vars) /\ [Pipeline!Next]_(Pipeline!vars)
<1>1. Shape' /\ [P!Next]_(P!vars)
  <2>1. CASE FrontEnd \/ Owner \/ BackEndInMemory
    BY <2>1, InMemoryStep DEF Sound
  <2>2. CASE Alive /\ Construct
    <3>1. pc = "none"
      BY <2>2 DEF Alive, Construct, Pipeline!BackendInit, Sound, Shape, Built, Early
    <3> QED
      BY <2>2, <3>1, ConstructStep DEF Sound
  <2>3. CASE Shed
    BY <2>3, ShedStep DEF Sound
  <2>4. CASE WriteBuffer
    BY <2>4, WriteBufferStep DEF Sound
  <2>5. CASE InsideAppend
    BY <2>5, InsideStep DEF Sound
  <2>6. CASE Flush
    BY <2>6, FlushStep DEF Sound
  <2>7. CASE Tick \/ Crash \/ UNCHANGED vars
    BY <2>7, OutsideStep DEF Sound
  <2> QED
    BY <2>1, <2>2, <2>3, <2>4, <2>5, <2>6, <2>7 DEF Next, BackEnd, Over
<1>2. P!Accounted /\ P!Inv
  BY DEF Sound, P!Accounted
<1>3. P!Inv'
  BY <1>1, <1>2, AsyncLogFileAssumption, P!InvNext DEF P!Buf!Buffer
<1>4. P!Accounted'
  BY <1>1, <1>2, <1>3, AsyncLogFileAssumption, P!AccountedNext DEF P!Buf!Buffer
<1> QED
  BY <1>1, <1>4, NextIsP DEF Sound

LEMMA SoundInvariant == Spec => []Sound
<1>1. Init => Sound
  BY SoundInit
<1>2. Sound /\ [Next]_vars => Sound'
  BY SoundNext
<1> QED
  BY <1>1, <1>2, PTL DEF Spec

(* Over a LogFile that buffers what it is given, flushes and rolls when it *)
(* likes, with a clock that runs and a process that may die, the logger is *)
(* the AsyncLogging of the other module, so all that is proved about that  *)
(* one holds (AsyncLogging.cc:65-144 over LogFile.cc:46-105).              *)
THEOREM LoggerOverLogFile == Spec => ImplementsAsyncLogging
<1>1. Init => Pipeline!Init
  BY SoundInit
<1>2. Sound /\ [Next]_vars => [Pipeline!Next]_(Pipeline!vars)
  BY SoundNext
<1> QED
  BY <1>1, <1>2, SoundInvariant, PTL DEF Spec, ImplementsAsyncLogging, Pipeline!Spec

-----------------------------------------------------------------------------
(* The lines and the entries they are among.                               *)
Entries(s) == {s[i] : i \in DOMAIN s}

Rising(s) == \A i, j \in DOMAIN s : i < j /\ s[i] # 0 /\ s[j] # 0 => s[i] < s[j]

LEMMA EntriesOfAppend ==
  ASSUME NEW s \in Seq(Nat), NEW e \in Nat
  PROVE  /\ Entries(Append(s, e)) = Entries(s) \cup {e}
         /\ Entries(s) \subseteq Nat
         /\ P!Ascending(Append(s, e)) => P!Ascending(s) /\ \A x \in Entries(s) : x < e
         /\ Rising(s) /\ (e # 0 => \A x \in Entries(s) \ {0} : x < e)
              => Rising(Append(s, e))
<1> DEFINE r == Append(s, e)
<1>1. /\ DOMAIN r = 1..(Len(s) + 1) /\ DOMAIN s = 1..Len(s) /\ Len(s) \in Nat
      /\ r[Len(s) + 1] = e /\ \A i \in DOMAIN s : r[i] = s[i] /\ s[i] \in Nat
  OBVIOUS
<1> HIDE DEF r
<1>2. \A i \in DOMAIN r : i \in DOMAIN s \/ i = Len(s) + 1
  BY <1>1
<1>3. Entries(r) = Entries(s) \cup {e}
  <2>1. Entries(r) \subseteq Entries(s) \cup {e}
    BY <1>1, <1>2 DEF Entries
  <2>2. Entries(s) \subseteq Entries(r)
    BY <1>1 DEF Entries
  <2>3. e \in Entries(r)
    <3>1. Len(s) + 1 \in DOMAIN r
      BY <1>1
    <3> QED
      BY <1>1, <3>1 DEF Entries
  <2> QED
    BY <2>1, <2>2, <2>3
<1>4. Entries(s) \subseteq Nat
  BY <1>1 DEF Entries
<1>5. P!Ascending(r) => P!Ascending(s) /\ \A x \in Entries(s) : x < e
  <2>1. ASSUME P!Ascending(r) PROVE P!Ascending(s)
    <3>1. \A i \in DOMAIN s : i \in DOMAIN r
      BY <1>1
    <3> QED
      BY <1>1, <2>1, <3>1 DEF P!Ascending
  <2>2. ASSUME P!Ascending(r), NEW i \in DOMAIN s PROVE s[i] < e
    <3>1. i \in DOMAIN r /\ Len(s) + 1 \in DOMAIN r /\ i < Len(s) + 1
      BY <1>1
    <3>2. r[i] < r[Len(s) + 1]
      BY <2>2, <3>1 DEF P!Ascending
    <3> QED
      BY <1>1, <3>2
  <2> QED
    BY <2>1, <2>2 DEF Entries
<1>6. ASSUME Rising(s), e # 0 => \A x \in Entries(s) \ {0} : x < e
      PROVE  Rising(r)
  <2>1. ASSUME NEW i \in DOMAIN r, NEW j \in DOMAIN r, i < j, r[i] # 0, r[j] # 0
        PROVE  r[i] < r[j]
    <3>1. i \in DOMAIN s
      BY <1>1, <1>2, <2>1
    <3>2. CASE j \in DOMAIN s
      BY <1>1, <1>6, <2>1, <3>1, <3>2 DEF Rising
    <3>3. CASE j = Len(s) + 1
      BY <1>1, <1>6, <2>1, <3>1, <3>3 DEF Entries
    <3> QED
      BY <1>2, <3>2, <3>3
  <2> QED
    BY <2>1 DEF Rising
<1> QED
  BY <1>3, <1>4, <1>5, <1>6 DEF r

LEMMA LinesAmong ==
  ASSUME NEW s \in Seq(Nat)
  PROVE  /\ Entries(OnlyLines(s)) = Entries(s) \ {0}
         /\ P!Ascending(OnlyLines(s)) => Rising(s)
<1> DEFINE Good(u) == /\ Entries(OnlyLines(u)) = Entries(u) \ {0}
                      /\ P!Ascending(OnlyLines(u)) => Rising(u)
           T == {n \in Nat : \A u \in Seq(Nat) : Len(u) = n => Good(u)}
<1>1. 0 \in T
  <2>1. ASSUME NEW u \in Seq(Nat), Len(u) = 0 PROVE Good(u)
    <3>1. u = << >> /\ OnlyLines(u) = << >>
      BY <2>1, OnlyOfLines
    <3> QED
      BY <3>1 DEF Entries, Rising
  <2> QED
    BY <2>1
<1>2. ASSUME NEW n \in Nat, n \in T PROVE n + 1 \in T
  <2>1. ASSUME NEW u \in Seq(Nat), Len(u) = n + 1 PROVE Good(u)
    <3>1. PICK h \in Seq(Nat), e \in Nat : u = Append(h, e)
      <4>1. u # << >>
        BY <2>1
      <4> QED
        BY <4>1, SequenceEmptyOrAppend
    <3>2. Len(h) = n
      BY <2>1, <3>1
    <3>3. Good(h)
      BY <1>2, <3>2
    <3>4. OnlyLines(u) = OnlyLines(h) \o Part(e) /\ OnlyLines(h) \in Seq(Nat)
      BY <3>1, OnlyOfAppend, PartsType
    <3>5. /\ Entries(u) = Entries(h) \cup {e} /\ Entries(h) \subseteq Nat
          /\ Rising(h) /\ (e # 0 => \A x \in Entries(h) \ {0} : x < e) => Rising(u)
      BY <3>1, EntriesOfAppend
    <3>6. CASE e = 0
      <4>1. OnlyLines(u) = OnlyLines(h)
        BY <3>4, <3>6, ConcatEmptySeq DEF Part
      <4> QED
        BY <3>3, <3>5, <3>6, <4>1
    <3>7. CASE e # 0
      <4>1. OnlyLines(u) = Append(OnlyLines(h), e)
        BY <3>4, <3>7 DEF Part
      <4>2. /\ Entries(OnlyLines(u)) = Entries(OnlyLines(h)) \cup {e}
            /\ P!Ascending(OnlyLines(u)) =>
                 P!Ascending(OnlyLines(h)) /\ \A x \in Entries(OnlyLines(h)) : x < e
        BY <3>4, <4>1, EntriesOfAppend
      <4> QED
        BY <3>3, <3>5, <3>7, <4>2
    <3> QED
      BY <3>6, <3>7
  <2> HIDE DEF Good
  <2> QED
    BY <2>1
<1>3. Nat \subseteq T
  <2> HIDE DEF T
  <2> QED
    BY <1>1, <1>2, NumberInduction
<1> HIDE DEF Good
<1>4. Good(s)
  BY <1>3
<1> QED
  BY <1>4 DEF Good

(* As many different entries as there is room for.                         *)
LEMMA FewEntries ==
  ASSUME NEW s \in Seq(Nat)
  PROVE  IsFiniteSet(Entries(s)) /\ Cardinality(Entries(s)) <= Len(s)
<1>1. Len(s) \in Nat /\ DOMAIN s = 1..Len(s) /\ s \in [1..Len(s) -> Entries(s)]
  BY DEF Entries
<1>2. s \in Surjection(1..Len(s), Entries(s))
  BY <1>1 DEF Surjection, Entries
<1>3. IsFiniteSet(1..Len(s)) /\ Cardinality(1..Len(s)) = Len(s)
  BY <1>1, FS_Interval
<1> QED
  BY <1>2, <1>3, FS_Surjection

-----------------------------------------------------------------------------
(* Behind every dropped line stands its notice: all that is handed over    *)
(* before the notice was logged earlier than the line, and what was logged *)
(* earlier and is handed over after it came in the two buffers that were   *)
(* kept, whose lines are V.                                                *)
Noticed(t, i, V) ==
  /\ handed[i] = 0 /\ \A k \in 1..i : handed[k] < t
  /\ IsFiniteSet(V) /\ Cardinality(V) <= 2 * (kLargeBuffer - 1)
  /\ \A k \in DOMAIN handed : i < k /\ handed[k] \in 1..(t - 1) => handed[k] \in V
  /\ \A x \in P!Held : x < t => x \in V

Explained ==
  \A t \in dropped : \E i \in DOMAIN handed, V \in SUBSET Nat : Noticed(t, i, V)

(* A crash may cut off the end of what was handed over, and nothing else.  *)
Kept ==
  /\ handed \in Seq(Nat) /\ Output!Contents \in Seq(Nat)
  /\ \E rest \in Seq(Nat) : handed = Output!Contents \o rest

(* What is handed over later takes nothing from it.                        *)
LEMMA StillNoticed ==
  ASSUME lines \in Nat, NEW t \in Nat, t <= lines, NEW i \in DOMAIN handed,
         NEW V \in SUBSET Nat, Noticed(t, i, V), handed \in Seq(Nat),
         NEW text \in Seq(Nat), handed' = handed \o text,
         Entries(text) \subseteq P!Held \cup {0}, P!Held' \subseteq P!Held \cup {lines + 1}
  PROVE  i \in DOMAIN handed' /\ Noticed(t, i, V)'
<1> DEFINE n == Len(handed)
           r == handed \o text
<1>1. /\ n \in Nat /\ Len(text) \in Nat /\ DOMAIN handed = 1..n /\ DOMAIN r = 1..(n + Len(text))
      /\ \A k \in 1..n : r[k] = handed[k]
  OBVIOUS
<1>2. \A k \in DOMAIN r : k \in 1..n \/ r[k] \in Entries(text)
  <2>1. ASSUME NEW k \in DOMAIN r, k \notin 1..n PROVE r[k] \in Entries(text)
    <3>1. r[k] = text[k - n] /\ k - n \in 1..Len(text)
      BY <1>1, <2>1
    <3> QED
      BY <3>1 DEF Entries
  <2> QED
    BY <2>1
<1>3. handed' = r
  OBVIOUS
<1> HIDE DEF r, n
<1>4. i \in DOMAIN r /\ r[i] = 0 /\ \A k \in 1..i : r[k] < t
  BY <1>1 DEF Noticed
<1>5. \A k \in DOMAIN r : i < k /\ r[k] \in 1..(t - 1) => r[k] \in V
  <2>1. ASSUME NEW k \in DOMAIN r, i < k, r[k] \in 1..(t - 1) PROVE r[k] \in V
    <3>1. CASE k \in 1..n
      BY <1>1, <2>1, <3>1 DEF Noticed
    <3>2. CASE r[k] \in Entries(text)
      <4>1. r[k] # 0 /\ r[k] < t
        BY <2>1
      <4>2. r[k] \in P!Held
        BY <3>2, <4>1
      <4> QED
        BY <4>1, <4>2 DEF Noticed
    <3> QED
      BY <1>2, <3>1, <3>2
  <2> QED
    BY <2>1
<1>6. \A x \in P!Held' : x < t => x \in V
  <2>1. ~(lines + 1 < t)
    OBVIOUS
  <2> QED
    BY <2>1 DEF Noticed
<1> QED
  BY <1>3, <1>4, <1>5, <1>6 DEF Noticed

(* Lines 97 to 110: the notice and the two buffers.                        *)
LEMMA NewlyNoticed ==
  ASSUME Shape, P!Accounted, P!AllFilled, P!Accounted', handed \in Seq(Nat), Overloaded, Shed,
         P!Held' \subseteq P!Held \cup {lines + 1},
         NEW t \in dropped', t \notin dropped
  PROVE  \E i \in DOMAIN handed', V \in SUBSET Nat : Noticed(t, i, V)'
<1> DEFINE q    == buffersToWrite
           gone == SubSeq(q, 3, Len(q))
           V    == Entries(q[1].data) \cup Entries(q[2].data)
           n    == Len(handed)
<1>1. /\ q \in Seq([data : Seq(Nat), length : Nat]) /\ Len(q) \in Nat /\ Len(q) >= 3 /\ pos = 1
      /\ lines \in Nat /\ bpc = "shed"
  <2>1. q \in Seq([data : Seq(Nat), length : Nat]) /\ lines \in Nat
    BY DEF P!Accounted, P!Inv, P!TypeOK, P!Buf!Buffer
  <2>2. bpc = "shed" /\ pos = 1
    BY DEF Shed, P!Accounted, P!Inv, P!Spares
  <2>3. Len(q) > MaxBuffers /\ MaxBuffers \in Nat /\ MaxBuffers >= 2
    BY AsyncLogFileAssumption DEF Overloaded
  <2>4. Len(q) \in Nat
    BY <2>1
  <2> QED
    BY <2>1, <2>2, <2>3, <2>4
<1>2. q[1] \in [data : Seq(Nat), length : Nat] /\ q[2] \in [data : Seq(Nat), length : Nat]
  <2>1. \A S, r : r \in Seq(S) => \A j \in 1..Len(r) : r[j] \in S
    OBVIOUS
  <2>2. 1 \in 1..Len(q) /\ 2 \in 1..Len(q)
    BY <1>1
  <2> QED
    BY <1>1, <2>1, <2>2
<1>3. P!Batch = q
  BY <1>1, SMTT(30) DEF P!Batch
<1>4. /\ handed' = Append(handed, 0) /\ n \in Nat
      /\ dropped' = dropped \cup P!LinesInAll(gone)
  <2>1. handed' = handed \o <<0>>
    BY DEF Shed, Notice, OutputAppend
  <2>2. handed' = Append(handed, 0) /\ n \in Nat
    BY <2>1
  <2>3. dropped' = dropped \cup P!LinesInAll(gone)
    BY DEF Shed, Pipeline!LinesInAll, Pipeline!LinesIn, P!LinesInAll, P!LinesIn
  <2> QED
    BY <2>2, <2>3
<1> HIDE DEF V
<1>50. DOMAIN gone = 1..(Len(q) - 2) /\ \A j \in 1..(Len(q) - 2) : gone[j] = q[j + 2]
  <2>1. \A S : \A r \in Seq(S) : Len(r) >= 3 =>
          /\ DOMAIN SubSeq(r, 3, Len(r)) = 1..(Len(r) - 2)
          /\ \A j \in 1..(Len(r) - 2) : SubSeq(r, 3, Len(r))[j] = r[j + 2]
    OBVIOUS
  <2> QED
    BY <1>1, <2>1
<1> HIDE DEF gone
<1>5. t \in P!LinesInAll(gone)
  BY <1>4
<1>6. PICK m \in 3..Len(q) : t \in P!LinesIn(q[m])
  <2>1. PICK j \in DOMAIN gone : t \in P!LinesIn(gone[j])
    BY <1>5 DEF P!LinesInAll
  <2>2. gone[j] = q[j + 2] /\ j + 2 \in 3..Len(q)
    <3>1. j \in 1..(Len(q) - 2) /\ gone[j] = q[j + 2]
      BY <1>50
    <3>2. \A l \in Nat : j \in 1..(l - 2) => j + 2 \in 3..l
      OBVIOUS
    <3>3. Len(q) \in Nat
      BY <1>1
    <3> QED
      BY <3>1, <3>2, <3>3
  <2> QED
    BY <2>1, <2>2
<1>7. DOMAIN q = 1..Len(q) /\ t \in P!LinesInAll(q)
  <2>1. DOMAIN q = 1..Len(q) /\ m \in DOMAIN q
    BY <1>1
  <2> QED
    BY <1>6, <2>1 DEF P!LinesInAll
<1>8. /\ t \in P!Held /\ P!Held \subseteq 1..lines /\ t \in Nat \ {0} /\ t <= lines
  BY <1>1, <1>3, <1>7 DEF P!Held, P!Accounted, P!NoSilentLoss
<1>9. \A k \in 1..n : handed[k] < t
  <2>1. ASSUME NEW k \in 1..n PROVE handed[k] < t
    <3>1. handed[k] \in Entries(handed)
      BY DEF Entries
    <3>2. CASE handed[k] = 0
      BY <1>8, <3>2
    <3>3. CASE handed[k] # 0
      <4>1. handed[k] \in Entries(OnlyLines(handed))
        BY <3>1, <3>3, LinesAmong
      <4>2. P!Below(Entries(OnlyLines(handed)), P!Held)
        BY DEF P!Accounted, P!Ordered, P!Written, Entries
      <4> QED
        BY <1>8, <4>1, <4>2 DEF P!Below
    <3> QED
      BY <3>2, <3>3
  <2> QED
    BY <2>1
<1>10. V \in SUBSET Nat /\ IsFiniteSet(V) /\ Cardinality(V) <= 2 * (kLargeBuffer - 1)
  <2>1. /\ q[1].data \in Seq(Nat) /\ q[2].data \in Seq(Nat)
        /\ Len(q[1].data) < kLargeBuffer /\ Len(q[2].data) < kLargeBuffer
    <3>1. /\ Len(q[1].data) <= q[1].length /\ q[1].length < kLargeBuffer
          /\ Len(q[2].data) <= q[2].length /\ q[2].length < kLargeBuffer
      <4>1. 1 \in DOMAIN q /\ 2 \in DOMAIN q
        BY <1>1, <1>7
      <4> QED
        BY <4>1 DEF P!AllFilled, P!Filled
    <3>2. q[1].length \in Nat /\ q[2].length \in Nat
      BY <1>2
    <3>3. q[1].data \in Seq(Nat) /\ q[2].data \in Seq(Nat)
      BY <1>2
    <3>4. Len(q[1].data) \in Nat /\ Len(q[2].data) \in Nat
      BY <3>3
    <3> QED
      BY <3>1, <3>2, <3>3, <3>4, AsyncLogFileAssumption
  <2> DEFINE A == Entries(q[1].data)
             B == Entries(q[2].data)
  <2>2. /\ IsFiniteSet(A) /\ Cardinality(A) <= Len(q[1].data)
        /\ IsFiniteSet(B) /\ Cardinality(B) <= Len(q[2].data)
    BY <2>1, FewEntries
  <2>3. A \subseteq Nat /\ B \subseteq Nat
    <3>1. \A s \in Seq(Nat) : \A k \in DOMAIN s : s[k] \in Nat
      OBVIOUS
    <3> QED
      BY <2>1, <3>1 DEF Entries
  <2> HIDE DEF A, B
  <2>4. /\ IsFiniteSet(A \cup B) /\ IsFiniteSet(A \cap B)
        /\ Cardinality(A \cup B) = Cardinality(A) + Cardinality(B) - Cardinality(A \cap B)
    BY <2>2, FS_Union, FS_Intersection
  <2>5. Cardinality(A) \in Nat /\ Cardinality(B) \in Nat /\ Cardinality(A \cap B) \in Nat
    BY <2>2, <2>4, FS_CardinalityType
  <2>6. Len(q[1].data) \in Nat /\ Len(q[2].data) \in Nat
    BY <2>1
  <2>7. Cardinality(A \cup B) <= 2 * (kLargeBuffer - 1)
    BY <2>1, <2>2, <2>4, <2>5, <2>6, AsyncLogFileAssumption
  <2> QED
    BY <2>3, <2>4, <2>7 DEF A, B, V
<1>11. \A x \in P!Held' : x < t => x \in V
  <2>1. ASSUME NEW x \in P!Held', x < t PROVE x \in V
    <3>1. x \in P!Held /\ x \in Nat
      <4>1. ~(lines + 1 < t)
        BY <1>1, <1>8
      <4> QED
        BY <1>8, <2>1, <4>1
    <3>2. x \notin P!LinesInAll(gone)
      <4>1. P!Held' \cap dropped' = {}
        BY DEF P!Accounted, P!NoSilentLoss
      <4> QED
        BY <1>4, <2>1, <4>1
    <3>3. x \in P!LinesInAll(q)
      <4>1. P!Below(P!LinesInAll(q), P!LinesInAll(buffers_) \cup P!LinesIn(currentBuffer_))
        BY <1>3 DEF P!Accounted, P!Ordered
      <4>2. ~(t < x)
        BY <1>8, <2>1, <3>1
      <4> QED
        BY <1>3, <1>7, <3>1, <4>1, <4>2 DEF P!Held, P!Below
    <3>4. PICK j \in 1..Len(q) : x \in P!LinesIn(q[j])
      BY <1>7, <3>3 DEF P!LinesInAll
    <3>5. ~(j >= 3)
      <4>1. ASSUME j >= 3 PROVE FALSE
        <5>1. gone[j - 2] = q[j] /\ j - 2 \in DOMAIN gone
          <6>1. j - 2 \in 1..(Len(q) - 2) /\ (j - 2) + 2 = j
            <7>1. \A l \in Nat : \A k \in 1..l : k >= 3 => k - 2 \in 1..(l - 2) /\ (k - 2) + 2 = k
              OBVIOUS
            <7>2. Len(q) \in Nat
              BY <1>1
            <7> QED
              BY <4>1, <7>1, <7>2
          <6>2. gone[j - 2] = q[(j - 2) + 2] /\ j - 2 \in DOMAIN gone
            BY <1>50, <6>1
          <6> QED
            BY <6>1, <6>2
        <5> QED
          BY <3>2, <3>4, <5>1 DEF P!LinesInAll
      <4> QED
        BY <4>1
    <3>6. j = 1 \/ j = 2
      BY <1>1, <3>5
    <3>7. P!LinesIn(q[j]) \subseteq Entries(q[j].data)
      BY DEF P!LinesIn, Entries
    <3> QED
      BY <3>4, <3>6, <3>7 DEF V
  <2> QED
    BY <2>1
<1> HIDE DEF q
<1>12. /\ DOMAIN handed' = 1..(n + 1) /\ handed'[n + 1] = 0
       /\ \A k \in 1..n : handed'[k] = handed[k]
  <2>1. handed' = Append(handed, 0)
    BY <1>4
  <2> QED
    BY <2>1
<1>13. PICK i \in Nat, W \in SUBSET Nat : i = n + 1 /\ W = V
  BY <1>4, <1>10
<1>14. \A k \in 1..i : handed'[k] < t
  BY <1>4, <1>8, <1>9, <1>12, <1>13
<1>15. \A k \in DOMAIN handed' : ~(i < k)
  BY <1>4, <1>12, <1>13
<1>16. i \in DOMAIN handed' /\ handed'[i] = 0
  BY <1>4, <1>12, <1>13
<1>17. IsFiniteSet(W) /\ Cardinality(W) <= 2 * (kLargeBuffer - 1)
       /\ \A x \in P!Held' : x < t => x \in W
  BY <1>10, <1>11, <1>13
<1>18. Noticed(t, i, W)'
  BY <1>14, <1>15, <1>16, <1>17 DEF Noticed
<1> QED
  BY <1>13, <1>16, <1>18

(* Every other step drops nothing, and hands over what the batch holds.    *)
LEMMA OthersDropNothing ==
  ASSUME Sound, Kept, [Next]_vars, ~(Shed /\ Overloaded)
  PROVE  /\ dropped' = dropped
         /\ \E text \in Seq(Nat) : /\ handed' = handed \o text
                                  /\ Entries(text) \subseteq P!Held \cup {0}
<1>1. CASE WriteBuffer
  <2> DEFINE text == buffersToWrite[pos].data
  <2>1. /\ buffersToWrite \in Seq([data : Seq(Nat), length : Nat]) /\ pos \in Nat \ {0}
        /\ lines \in Nat
    BY DEF Sound, P!Accounted, P!Inv, P!TypeOK, P!Buf!Buffer
  <2>2. pos \in 1..Len(buffersToWrite)
    BY <1>1, <2>1 DEF WriteBuffer
  <2>3. buffersToWrite[pos] \in [data : Seq(Nat), length : Nat] /\ text \in Seq(Nat)
    <3>1. \A S, q : q \in Seq(S) /\ pos \in 1..Len(q) => q[pos] \in S
      OBVIOUS
    <3> QED
      BY <2>1, <2>2, <3>1
  <2>4. P!LinesIn(buffersToWrite[pos]) \subseteq P!Held
    <3>1. P!Batch[1] = buffersToWrite[pos] /\ 1 \in DOMAIN P!Batch
      BY <2>1, <2>2, SMTT(30) DEF P!Batch
    <3> QED
      BY <3>1 DEF P!Held, P!LinesInAll
  <2>5. Entries(text) = P!LinesIn(buffersToWrite[pos])
    <3>1. buffersToWrite[pos] # NoBuffer
      BY <2>3, AsyncLogFileAssumption
    <3> QED
      BY <3>1 DEF P!LinesIn, Entries
  <2>6. handed' = handed \o text /\ dropped' = dropped
    BY <1>1 DEF WriteBuffer, OutputAppend
  <2> HIDE DEF text
  <2> QED
    BY <2>3, <2>4, <2>5, <2>6
<1>2. ASSUME handed' = handed, dropped' = dropped
      PROVE  /\ dropped' = dropped
             /\ \E text \in Seq(Nat) : /\ handed' = handed \o text
                                      /\ Entries(text) \subseteq P!Held \cup {0}
  <2>1. << >> \in Seq(Nat) /\ handed \o << >> = handed
    BY ConcatEmptySeq DEF Kept
  <2>2. Entries(<< >>) = {}
    BY DEF Entries
  <2> QED
    BY <1>2, <2>1, <2>2
<1>3. CASE FrontEnd \/ Owner \/ BackEndInMemory
  <2>1. dropped' = dropped
    BY <1>3 DEF FrontEnd, Owner, BackEndInMemory, Pipeline!FrontEnd, Pipeline!AppendInPlace,
       Pipeline!AppendSwitch, Pipeline!Owner, Pipeline!Start, Pipeline!Started,
       Pipeline!StopFlag, Pipeline!StopNotify, Pipeline!StopJoin, Pipeline!CountDown,
       Pipeline!LoopTest, Pipeline!SwapNow, Pipeline!SwapAfterWait, Pipeline!SwapBuffers,
       Pipeline!WaitForSeconds, Pipeline!TimedOut, Pipeline!Recycle, Pipeline!fate
  <2> QED
    BY <1>2, <1>3, <2>1 DEF FrontEnd, Owner, BackEndInMemory
<1>4. CASE Construct
  BY <1>2, <1>4 DEF Construct, Pipeline!BackendInit, Pipeline!fate
<1>5. CASE Shed
  BY <1>2, <1>5 DEF Shed
<1>6. CASE InsideAppend \/ Tick \/ Crash \/ UNCHANGED vars
  BY <1>2, <1>6 DEF InsideAppend, Tick, Crash, memVars, vars
<1>7. CASE Flush
  BY <1>2, <1>7 DEF Flush
<1> QED
  BY <1>1, <1>3, <1>4, <1>5, <1>6, <1>7 DEF Next, BackEnd, Over

LEMMA ExplainedNext ==
  ASSUME Sound, Sound', Kept, P!AllFilled, Explained, [Next]_vars
  PROVE  Explained'
<1>1. P!Held' \subseteq P!Held \cup {lines + 1}
  <2>1. P!Accounted /\ P!Inv' /\ [P!Next]_(P!vars)
    BY SoundNext DEF Sound, P!Accounted
  <2>2. [P!Pipe!Next]_(P!Pipe!pipeVars)
    BY <2>1, AsyncLogFileAssumption, P!AccountedNext DEF P!Buf!Buffer
  <2> QED
    BY <2>2 DEF P!Pipe!Next, P!Pipe!pipeVars, P!Pipe!Take, P!Pipe!Turn, P!Pipe!Give,
       P!Pipe!Lose, P!Pipe!Sync
<1>2. /\ handed \in Seq(Nat) /\ lines \in Nat
      /\ dropped \subseteq Nat /\ \A t \in dropped : t <= lines
  <2>1. lines \in Nat /\ dropped \subseteq 1..lines
    BY DEF Sound, P!Accounted, P!Inv, P!TypeOK, P!NoSilentLoss
  <2> QED
    BY <2>1 DEF Kept
<1>3. ASSUME NEW t \in dropped, NEW text \in Seq(Nat), handed' = handed \o text,
             Entries(text) \subseteq P!Held \cup {0}
      PROVE  \E i \in DOMAIN handed', V \in SUBSET Nat : Noticed(t, i, V)'
  <2>1. PICK i \in DOMAIN handed, V \in SUBSET Nat : Noticed(t, i, V)
    BY DEF Explained
  <2>2. i \in DOMAIN handed' /\ Noticed(t, i, V)'
    BY <1>1, <1>2, <1>3, <2>1, StillNoticed
  <2> QED
    BY <2>2
<1>4. CASE Shed /\ Overloaded
  <2>1. <<0>> \in Seq(Nat) /\ Entries(<<0>>) = {0} /\ handed' = handed \o <<0>>
    BY <1>4 DEF Entries, Shed, Notice, OutputAppend
  <2>2. ASSUME NEW t \in dropped'
        PROVE  \E i \in DOMAIN handed', V \in SUBSET Nat : Noticed(t, i, V)'
    <3>1. CASE t \in dropped
      BY <1>3, <2>1, <3>1
    <3>2. CASE t \notin dropped
      BY <1>1, <1>2, <1>4, <2>2, <3>2, NewlyNoticed DEF Sound
    <3> QED
      BY <3>1, <3>2
  <2> QED
    BY <2>2 DEF Explained
<1>5. CASE ~(Shed /\ Overloaded)
  <2>1. PICK text \in Seq(Nat) : /\ handed' = handed \o text
                                 /\ Entries(text) \subseteq P!Held \cup {0}
    BY <1>5, OthersDropNothing
  <2>2. dropped' = dropped
    BY <1>5, OthersDropNothing
  <2> QED
    BY <1>3, <2>1, <2>2 DEF Explained
<1> QED
  BY <1>4, <1>5

-----------------------------------------------------------------------------
(* What the reader of the files finds.                                     *)

LEMMA AliveKeeps == ASSUME Sound, pc # "dead" PROVE Kept
<1>1. CASE pc = "none"
  <2>1. Output!Contents = << >> /\ handed = << >>
    BY <1>1 DEF Sound, Shape, Unbuilt, Output!Contents, FlattenSeq, Output!FlattenSeq
  <2>2. << >> \in Seq(Nat) /\ << >> \o << >> = << >>
    OBVIOUS
  <2> QED
    BY <2>1, <2>2 DEF Kept
<1>2. CASE pc # "none"
  <2>1. O!Names /\ handed = O!Log
    BY <1>2 DEF Sound, Shape, Built
  <2>2. O!Contents \in Seq(Nat) /\ stdio \in Seq(Nat) /\ O!Log \in Seq(Nat)
    BY <2>1, AsyncLogFileAssumption, O!LogTypes
  <2> QED
    BY <2>1, <2>2, OutputIsO DEF Kept, O!Log
<1> QED
  BY <1>1, <1>2

LEMMA KeptNext ==
  ASSUME Kept, [Next]_vars, pc' = "dead"
  PROVE  Kept'
<1>1. UNCHANGED <<handed, disk>>
  BY DEF Next, Alive, FrontEnd, Owner, BackEnd, BackEndInMemory, Construct, Output!Construct,
     Shed, Notice, WriteBuffer, OutputAppend, Output!AppendText, InsideAppend, Output!Check,
     Output!Roll, Flush, Output!FlushCall, Tick, Output!Tick, Crash, Output!Crash, Over,
     vars, fileVars, memVars, Output!stream
<1>2. Output!Contents' = Output!Contents
  BY <1>1 DEF Output!Contents
<1> QED
  BY <1>1, <1>2 DEF Kept

LEMMA GapsFollow ==
  ASSUME Sound, Kept, Explained
  PROVE  GapsExplained
<1>1. PICK rest \in Seq(Nat) : handed = OnDisk \o rest
  BY DEF Kept, OnDisk
<1>2. OnDisk \in Seq(Nat) /\ handed \in Seq(Nat)
  BY DEF Kept, OnDisk
<1>3. /\ Len(OnDisk) \in Nat /\ DOMAIN OnDisk = 1..Len(OnDisk) /\ Len(handed) \in Nat
      /\ DOMAIN handed = 1..Len(handed) /\ Len(OnDisk) <= Len(handed)
      /\ \A k \in DOMAIN OnDisk : handed[k] = OnDisk[k] /\ handed[k] \in Nat
  BY <1>1, <1>2, ConcatProperties, LenProperties
<1>4. IsPrefix(OnDisk, handed)
  BY <1>1, <1>2, AsyncLogFileAssumption, O!PrefixOfConcat DEF IsPrefix, O!IsPrefix
<1>5. lines \in Nat /\ P!Ascending(OnlyLines(handed)) /\ P!Below(P!Written, P!Held)
  BY DEF Sound, P!Accounted, P!Inv, P!TypeOK, P!Ordered
<1>6. Rising(handed) /\ P!Written = Entries(handed) \ {0}
  BY <1>2, <1>5, LinesAmong DEF P!Written, Entries
<1>7. ASSUME NEW t \in 1..lines, NEW j \in DOMAIN OnDisk,
             t < OnDisk[j], t \notin Range(OnDisk), t \notin Pipeline!Refused
      PROVE  \E i \in 1..(j - 1) :
               /\ OnDisk[i] = 0
               /\ Cardinality({k \in i..j : OnDisk[k] # 0 /\ OnDisk[k] < t})
                    <= 2 * (kLargeBuffer - 1)
  <2>1. /\ t \in Nat /\ t # 0 /\ j \in 1..Len(OnDisk) /\ j \in DOMAIN handed
        /\ handed[j] = OnDisk[j] /\ handed[j] \in Nat /\ handed[j] # 0
    BY <1>3, <1>5, <1>7
  <2>2. t \notin Entries(handed)
    <3>1. ASSUME NEW m \in DOMAIN handed, handed[m] = t PROVE FALSE
      <4>1. ~(j < m)
        BY <1>6, <1>7, <2>1, <3>1 DEF Rising
      <4>2. m \in DOMAIN OnDisk
        BY <1>3, <2>1, <4>1
      <4> QED
        BY <1>3, <1>7, <3>1, <4>2 DEF Range
    <3> QED
      BY <3>1 DEF Entries
  <2>3. t \notin P!Written /\ handed[j] \in P!Written
    BY <1>6, <2>1, <2>2 DEF Entries
  <2>4. t \notin P!Held
    BY <1>5, <1>7, <2>1, <2>3 DEF P!Below
  <2>5. t \in dropped
    BY <1>7, <2>3, <2>4 DEF Sound, P!Accounted, P!NoSilentLoss, P!Refused, Pipeline!Refused
  <2>6. PICK i \in DOMAIN handed, V \in SUBSET Nat : Noticed(t, i, V)
    BY <2>5 DEF Explained
  <2>7. i \in 1..(j - 1) /\ i \in DOMAIN OnDisk /\ OnDisk[i] = 0
    <3>1. ~(j <= i)
      <4>1. ASSUME j <= i PROVE FALSE
        <5>1. j \in 1..i
          BY <2>1, <2>6, <4>1, <1>3
        <5>2. handed[j] < t
          BY <2>6, <5>1 DEF Noticed
        <5> QED
          BY <1>7, <2>1, <5>2
      <4> QED
        BY <4>1
    <3>2. i \in 1..(j - 1) /\ i \in DOMAIN OnDisk
      BY <1>3, <2>1, <2>6, <3>1
    <3> QED
      BY <1>3, <2>6, <3>2 DEF Noticed
  <2> DEFINE S == {k \in i..j : OnDisk[k] # 0 /\ OnDisk[k] < t}
             f == [k \in S |-> OnDisk[k]]
  <2>8. \A k \in S : k \in DOMAIN OnDisk /\ k \in Nat /\ OnDisk[k] \in Nat
    <3>1. ASSUME NEW k \in S PROVE k \in DOMAIN OnDisk /\ k \in Nat /\ OnDisk[k] \in Nat
      <4>1. k \in i..j /\ i \in 1..(j - 1) /\ j \in 1..Len(OnDisk) /\ Len(OnDisk) \in Nat
        BY <1>3, <2>1, <2>7
      <4>2. k \in 1..Len(OnDisk)
        <5> HIDE DEF S
        <5> QED
          BY <4>1
      <4> QED
        BY <1>2, <1>3, <4>2
    <3> QED
      BY <3>1
  <2>9. \A k \in S : OnDisk[k] \in V
    <3>1. ASSUME NEW k \in S PROVE OnDisk[k] \in V
      <4>1. k \in DOMAIN handed /\ handed[k] = OnDisk[k] /\ k \in i..j
        BY <1>3, <2>8
      <4>2. i < k
        BY <2>7, <4>1
      <4>3. handed[k] \in 1..(t - 1)
        BY <2>1, <2>8, <4>1
      <4> QED
        BY <2>6, <4>1, <4>2, <4>3 DEF Noticed
    <3> QED
      BY <3>1
  <2>10. ASSUME NEW k \in S, NEW m \in S, OnDisk[k] = OnDisk[m] PROVE k = m
    <3>1. /\ k \in DOMAIN handed /\ m \in DOMAIN handed /\ handed[k] # 0 /\ handed[m] # 0
          /\ handed[k] = handed[m] /\ handed[k] \in Nat /\ k \in Nat /\ m \in Nat
      BY <1>3, <2>8, <2>10
    <3>2. ~(k < m) /\ ~(m < k)
      BY <1>6, <3>1 DEF Rising
    <3> QED
      BY <3>1, <3>2
  <2>11. f \in Injection(S, V)
    <3> HIDE DEF S
    <3> QED
      BY <2>9, <2>10 DEF Injection, IsInjective
  <2>12. IsFiniteSet(V) /\ Cardinality(V) <= 2 * (kLargeBuffer - 1)
    BY <2>6 DEF Noticed
  <2> HIDE DEF f, S
  <2>13. IsFiniteSet(S) /\ Cardinality(S) <= Cardinality(V)
    BY <2>11, <2>12, FS_Injection
  <2>14. Cardinality(S) \in Nat /\ Cardinality(V) \in Nat
    BY <2>12, <2>13, FS_CardinalityType
  <2>15. Cardinality(S) <= 2 * (kLargeBuffer - 1)
    BY <2>12, <2>13, <2>14, AsyncLogFileAssumption
  <2> QED
    BY <2>7, <2>15 DEF S
<1> QED
  BY <1>4, <1>7 DEF GapsExplained

(* Whatever is on disk at any moment, a crash in the middle of a roll      *)
(* included, is the beginning of what was handed over, and every gap in it *)
(* is a refused line or has its notice above it with at most two buffers   *)
(* between them (AsyncLogging.cc:97-117, LogFile.cc:54-105): for every     *)
(* capacity, threshold, roll size and interval.                            *)
THEOREM EveryGapIsExplained == Spec => []GapsExplained
<1>1. Init => P!AllFilled /\ Explained /\ ~(pc = "dead")
  <2> SUFFICES ASSUME Init PROVE P!AllFilled /\ Explained /\ ~(pc = "dead")
    OBVIOUS
  <2>1. P!Init
    BY InitIsP DEF Init
  <2>2. P!AllFilled
    BY <2>1, AsyncLogFileAssumption, P!AllFilledInit DEF P!Buf!Buffer
  <2> QED
    BY <2>1, <2>2 DEF Init, P!Init, Explained
<1>2. Sound /\ P!AllFilled /\ [Next]_vars => P!AllFilled'
  <2> SUFFICES ASSUME Sound, P!AllFilled, [Next]_vars PROVE P!AllFilled'
    OBVIOUS
  <2>1. P!Inv /\ [P!Next]_(P!vars)
    BY SoundNext DEF Sound, P!Accounted
  <2> QED
    BY <2>1, AsyncLogFileAssumption, P!AllFilledNext DEF P!Buf!Buffer
<1>3. Sound /\ Sound' /\ Kept /\ P!AllFilled /\ Explained /\ [Next]_vars => Explained'
  BY ExplainedNext
<1>4. Sound /\ ~(pc = "dead") => Kept
  BY AliveKeeps
<1>5. Kept /\ (pc = "dead")' /\ [Next]_vars => Kept'
  BY KeptNext
<1>6. Sound /\ Kept /\ Explained => GapsExplained
  BY GapsFollow
<1> QED
  BY <1>1, <1>2, <1>3, <1>4, <1>5, <1>6, SoundInvariant, PTL DEF Spec
=============================================================================
