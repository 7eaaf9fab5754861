--------------------------- MODULE LogFile_proofs ---------------------------
(***************************************************************************)
(* Theorems about LogFile, for every roll size, flush interval, check      *)
(* count, period length, and whatever fails.                               *)
(***************************************************************************)
EXTENDS LogFile, SequenceTheorems, WellFoundedInduction, TLAPS

-----------------------------------------------------------------------------
(* The names.                                                              *)

FileRecord == [name : [at : Nat, pid : Nat], lines : Seq(Nat)]

(* The names process p has used up to second t, and all older processes'.  *)
Taken(n, p, t) == n.pid < p \/ (n.pid = p /\ n.at <= t)

(* The files of this process are no younger than lastRoll_, those of other *)
(* processes have smaller pids.                                            *)
Names ==
  /\ now \in Nat \ {0} /\ pid \in Nat /\ lastRoll_ \in Nat
  /\ disk \in Seq(FileRecord) /\ disk # << >>
  /\ stdio \in Seq(Nat) /\ lines \in Nat
  /\ \A i \in DOMAIN disk : Taken(disk[i].name, pid, lastRoll_)
  /\ NamesFresh

(* The types of a name.                                                    *)
LEMMA NameTypes ==
  ASSUME NEW d \in Seq(FileRecord)
  PROVE  \A i \in DOMAIN d : d[i].name.pid \in Nat /\ d[i].name.at \in Nat
<1>1. \A i \in DOMAIN d : d[i] \in FileRecord
  OBVIOUS
<1>2. QED
  BY <1>1 DEF FileRecord

(* Writing to the open file changes no name.                               *)
LEMMA FlushedKeepsNames ==
  ASSUME NEW d \in Seq(FileRecord), d # << >>, NEW s \in Seq(Nat)
  PROVE  /\ Flushed(d, s) \in Seq(FileRecord) /\ Flushed(d, s) # << >>
         /\ Len(Flushed(d, s)) = Len(d)
         /\ \A i \in DOMAIN d : Flushed(d, s)[i].name = d[i].name
<1>1. Len(d) \in 1..Len(d) /\ DOMAIN d = 1..Len(d)
  OBVIOUS
<1>2. d[Len(d)] \in FileRecord
  BY <1>1
<1>3. [d[Len(d)] EXCEPT !.lines = @ \o s] \in FileRecord
  <2>1. d[Len(d)].lines \o s \in Seq(Nat)
    BY <1>2 DEF FileRecord
  <2>2. QED
    BY <1>2, <2>1 DEF FileRecord
<1>4. Flushed(d, s) = [d EXCEPT ![Len(d)] = [d[Len(d)] EXCEPT !.lines = @ \o s]]
  BY DEF Flushed
<1>5. Flushed(d, s) \in Seq(FileRecord) /\ Len(Flushed(d, s)) = Len(d)
  BY <1>1, <1>3, <1>4
<1>6. ASSUME NEW i \in DOMAIN d PROVE Flushed(d, s)[i].name = d[i].name
  BY <1>1, <1>2, <1>4 DEF FileRecord
<1>7. QED
  BY <1>1, <1>5, <1>6

(* A file with a later second, or a new pid, joins the others.             *)
LEMMA OpenKeepsNames ==
  ASSUME NEW d \in Seq(FileRecord), NEW e \in FileRecord,
         \A i, j \in DOMAIN d : d[i].name = d[j].name => i = j,
         \A i \in DOMAIN d : d[i].name # e.name
  PROVE  /\ Append(d, e) \in Seq(FileRecord) /\ Append(d, e) # << >>
         /\ \A i, j \in DOMAIN Append(d, e) :
              Append(d, e)[i].name = Append(d, e)[j].name => i = j
         /\ \A i \in DOMAIN Append(d, e) : i \in DOMAIN d \/ Append(d, e)[i] = e
         /\ \A i \in DOMAIN d : Append(d, e)[i] = d[i]
<1> DEFINE r == Append(d, e)
<1>1. /\ r \in Seq(FileRecord) /\ r # << >> /\ Len(d) \in Nat
      /\ DOMAIN d = 1..Len(d) /\ DOMAIN r = 1..(Len(d) + 1)
      /\ r[Len(d) + 1] = e /\ \A i \in DOMAIN d : r[i] = d[i]
  <2> DEFINE S == FileRecord
  <2>1. d \in Seq(S) /\ e \in S
    OBVIOUS
  <2> HIDE DEF S
  <2>2. r \in Seq(S) /\ r # << >> /\ Len(r) = Len(d) + 1 /\ r[Len(d) + 1] = e
        /\ \A i \in 1..Len(d) : r[i] = d[i]
    BY <2>1, AppendProperties
  <2>3. QED
    BY <2>1, <2>2 DEF S
<1> HIDE DEF r
<1>2. \A i \in DOMAIN r : i \in DOMAIN d \/ i = Len(d) + 1
  BY <1>1
<1>3. \A i, j \in DOMAIN r : r[i].name = r[j].name => i = j
  BY <1>1, <1>2
<1>4. QED
  BY <1>1, <1>2, <1>3 DEF r

(* rollFile() keeps the names apart.                                       *)
LEMMA RollKeepsNames ==
  ASSUME Names, RollFile, UNCHANGED <<now, pid, lines>>
  PROVE  Names'
<1>1. CASE ~NewSecond
  BY <1>1 DEF RollFile, Names, NamesFresh, stream, marks
<1>2. CASE NewSecond
  <2>1. now > lastRoll_ /\ lastRoll_' = now /\ stdio' = << >>
    BY <1>2 DEF NewSecond, RollFile, CloseAndOpen
  <2>2. Open \in FileRecord /\ Open.name = [at |-> now, pid |-> pid]
    BY DEF Open, FileRecord, Names
  <2>3. PICK d \in {disk, Flushed(disk, stdio)} : disk' = Append(d, Open)
    BY <1>2 DEF RollFile, CloseAndOpen, Closed
  <2>4. /\ d \in Seq(FileRecord) /\ DOMAIN d = DOMAIN disk
        /\ \A i \in DOMAIN d : d[i].name = disk[i].name
    <3>1. CASE d = disk
      BY <3>1 DEF Names
    <3>2. CASE d = Flushed(disk, stdio)
      <4>1. d \in Seq(FileRecord) /\ Len(d) = Len(disk)
            /\ \A i \in DOMAIN disk : d[i].name = disk[i].name
        BY <3>2, FlushedKeepsNames DEF Names
      <4>2. DOMAIN d = 1..Len(d) /\ DOMAIN disk = 1..Len(disk)
        BY <4>1 DEF Names
      <4>3. QED
        BY <4>1, <4>2
    <3>3. QED
      BY <2>3, <3>1, <3>2
  <2>5. \A i \in DOMAIN d : d[i].name # Open.name
    <3>1. ASSUME NEW i \in DOMAIN d, d[i].name = Open.name PROVE FALSE
      <4>1. disk[i].name.pid = pid /\ disk[i].name.at = now
        BY <2>2, <2>4, <3>1
      <4>2. QED
        BY <2>1, <2>4, <4>1 DEF Taken, Names
    <3>2. QED
      BY <3>1
  <2>6. \A i, j \in DOMAIN d : d[i].name = d[j].name => i = j
    BY <2>4 DEF Names, NamesFresh
  <2>7. /\ disk' \in Seq(FileRecord) /\ disk' # << >> /\ NamesFresh'
        /\ \A i \in DOMAIN disk' : i \in DOMAIN d \/ disk'[i] = Open
        /\ \A i \in DOMAIN d : disk'[i] = d[i]
    BY <2>2, <2>3, <2>4, <2>5, <2>6, OpenKeepsNames DEF NamesFresh
  <2>8. \A i \in DOMAIN disk' : Taken(disk'[i].name, pid, now)
    <3>1. \A i \in DOMAIN d : Taken(disk'[i].name, pid, lastRoll_)
      <4>1. \A i \in DOMAIN d : disk'[i].name = disk[i].name /\ i \in DOMAIN disk
        BY <2>4, <2>7
      <4>2. \A i \in DOMAIN disk : Taken(disk[i].name, pid, lastRoll_)
        BY DEF Names
      <4>3. QED
        BY <4>1, <4>2
    <3>2. \A i \in DOMAIN disk' : disk'[i].name.at \in Nat
      BY <2>7, NameTypes
    <3>3. QED
      BY <2>1, <2>2, <2>7, <3>1, <3>2 DEF Taken, Names
  <2>9. QED
    BY <2>1, <2>7, <2>8 DEF Names
<1>3. QED
  BY <1>1, <1>2

(* A step that only writes to the open file, or not even that.             *)
LEMMA WriteKeepsNames ==
  ASSUME Names, NEW s \in Seq(Nat), disk' \in {disk, Flushed(disk, s)},
         stdio' \in Seq(Nat), lines' \in Nat, UNCHANGED <<now, pid, lastRoll_>>
  PROVE  Names'
<1>1. CASE disk' = disk
  BY <1>1 DEF Names, NamesFresh
<1>2. CASE disk' = Flushed(disk, s)
  <2>1. /\ disk' \in Seq(FileRecord) /\ disk' # << >> /\ Len(disk') = Len(disk)
        /\ \A i \in DOMAIN disk : disk'[i].name = disk[i].name
    BY <1>2, FlushedKeepsNames DEF Names
  <2>2. DOMAIN disk' = DOMAIN disk
    BY <2>1 DEF Names
  <2>3. QED
    BY <2>1, <2>2 DEF Names, NamesFresh
<1>3. QED
  BY <1>1, <1>2

(* Text that is buffered, or pushed to the file in part.                   *)
LEMMA AcceptKeepsNames ==
  ASSUME Names, NEW text \in Seq(Nat), Accept(text),
         lines' \in Nat, UNCHANGED <<now, pid, lastRoll_>>
  PROVE  Names'
<1> DEFINE all == stdio \o text
<1>1. all \in Seq(Nat)
  BY DEF Names
<1>2. PICK k \in 0..Len(all) :
        disk' = Flushed(disk, SubSeq(all, 1, k)) /\ stdio' = SubSeq(all, k + 1, Len(all))
  BY DEF Accept
<1> HIDE DEF all
<1>3. Len(all) \in Nat /\ \A i \in 1..Len(all) : all[i] \in Nat
  BY <1>1
<1>4. SubSeq(all, 1, k) \in Seq(Nat) /\ SubSeq(all, k + 1, Len(all)) \in Seq(Nat)
  BY <1>1, <1>2, <1>3
<1>5. QED
  BY <1>2, <1>4, WriteKeepsNames

LEMMA NamesInvariant == Spec => []Names
<1>1. Init => Names
  <2> SUFFICES ASSUME Init PROVE Names
    OBVIOUS
  <2>1. disk = <<Open>> /\ Open = [name |-> [at |-> 1, pid |-> 1], lines |-> << >>]
    BY DEF Init, Open
  <2>2. Open \in FileRecord
    BY <2>1 DEF FileRecord
  <2>3. DOMAIN disk = {1} /\ disk[1] = Open /\ disk \in Seq(FileRecord) /\ disk # << >>
    BY <2>1, <2>2
  <2>4. QED
    BY <2>1, <2>3 DEF Taken, Init, Names, NamesFresh
<1>2. Names /\ [Next]_vars => Names'
  <2> SUFFICES ASSUME Names, [Next]_vars PROVE Names'
    OBVIOUS
  <2> USE DEF clock, marks, stream, ghosts
  <2>1. ASSUME NEW len \in LineLen, AppendLine(len) PROVE Names'
    <3>1. /\ lines' = lines + 1 /\ lines' \in Nat /\ UNCHANGED <<now, pid, lastRoll_>>
          /\ Accept(<<lines + 1>>) \/ Truncate
      BY <2>1 DEF AppendLine, AppendText, Names
    <3>2. stdio \in Seq(Nat) /\ <<lines + 1>> \in Seq(Nat)
      BY <3>1 DEF Names
    <3>3. CASE Truncate
      BY <3>1, <3>2, <3>3, WriteKeepsNames DEF Truncate
    <3>4. CASE Accept(<<lines + 1>>)
      BY <3>1, <3>2, <3>4, AcceptKeepsNames
    <3>5. QED
      BY <3>1, <3>3, <3>4
  <2>2. CASE Check \/ FlushCall
    <3>1. /\ UNCHANGED <<now, pid, lastRoll_, lines>>
          /\ disk' \in {disk, Flushed(disk, stdio)} /\ stdio' \in {stdio, << >>}
      BY <2>2 DEF Check, FlushCall, FlushFile, FlushOk, FlushFails
    <3>2. stdio \in Seq(Nat) /\ << >> \in Seq(Nat) /\ lines' \in Nat
      BY <3>1 DEF Names
    <3>3. QED
      BY <3>1, <3>2, WriteKeepsNames
  <2>3. CASE Roll \/ RollCall
    BY <2>3, RollKeepsNames DEF Roll, RollCall
  <2>4. CASE Tick \/ StepBack \/ UNCHANGED vars
    BY <2>4 DEF Tick, StepBack, vars, Names, NamesFresh
  <2>5. CASE Crash
    BY <2>5 DEF Crash, Names, NamesFresh
  <2>6. CASE Restart
    <3> DEFINE e == [name |-> [at |-> now, pid |-> pid'], lines |-> << >>]
    <3>1. /\ disk' = Append(disk, e) /\ pid' = pid + 1 /\ lastRoll_' = now
          /\ stdio' = << >> /\ UNCHANGED <<now, lines>>
      BY <2>6 DEF Restart, Construct
    <3>2. e \in FileRecord /\ e.name.pid = pid + 1 /\ e.name.at = now
      BY <3>1 DEF FileRecord, Names
    <3> HIDE DEF e
    <3>3. \A i \in DOMAIN disk : disk[i].name.pid < pid + 1 /\ disk[i].name # e.name
      <4>1. \A i \in DOMAIN disk : disk[i].name.pid \in Nat
        BY NameTypes DEF Names
      <4>2. QED
        BY <3>2, <4>1 DEF Taken, Names
    <3>4. /\ disk' \in Seq(FileRecord) /\ disk' # << >> /\ NamesFresh'
          /\ \A i \in DOMAIN disk' : i \in DOMAIN disk \/ disk'[i] = e
          /\ \A i \in DOMAIN disk : disk'[i] = disk[i]
      BY <3>1, <3>2, <3>3, OpenKeepsNames DEF Names, NamesFresh
    <3>5. \A i \in DOMAIN disk' : Taken(disk'[i].name, pid', lastRoll_')
      <4>1. now \in Nat
        BY DEF Names
      <4>2. ASSUME NEW i \in DOMAIN disk'
            PROVE  Taken(disk'[i].name, pid', lastRoll_')
        <5>1. CASE i \in DOMAIN disk
          BY <3>1, <3>3, <3>4, <5>1 DEF Taken
        <5>2. CASE disk'[i] = e
          BY <3>1, <3>2, <4>1, <5>2 DEF Taken
        <5>3. QED
          BY <3>4, <5>1, <5>2
      <4>3. QED
        BY <4>2
    <3>6. now' \in Nat \ {0} /\ pid' \in Nat /\ lastRoll_' \in Nat
          /\ stdio' \in Seq(Nat) /\ lines' \in Nat
      BY <3>1 DEF Names
    <3>7. QED
      BY <3>4, <3>5, <3>6 DEF Names
  <2>7. QED
    BY <2>1, <2>2, <2>3, <2>4, <2>5, <2>6 DEF Next, Step
<1>3. QED
  BY <1>1, <1>2, PTL DEF Spec

(* No file name is ever used twice: fopen() in append mode always creates. *)
THEOREM NamesAreFresh == Spec => []NamesFresh
<1>1. Names => NamesFresh
  BY DEF Names
<1>2. QED
  BY <1>1, NamesInvariant, PTL

-----------------------------------------------------------------------------
(* The clock.                                                              *)

(* Periods follow one another.                                             *)
LEMMA PeriodsAscend ==
  ASSUME NEW a \in Nat, NEW b \in Nat, a <= b
  PROVE  PeriodOf(a) \in Nat /\ PeriodOf(b) \in Nat /\ PeriodOf(a) <= PeriodOf(b)
<1> DEFINE k == kRollPerSeconds_
<1>1. k \in Nat \ {0}
  BY LogFileAssumption
<1> HIDE DEF k
<1>2. a \div k \in Nat /\ b \div k \in Nat /\ a \div k <= b \div k
  BY <1>1
<1>3. \A x, y \in Nat : x <= y => x * k \in Nat /\ y * k \in Nat /\ x * k <= y * k
  BY <1>1
<1>4. QED
  BY <1>2, <1>3 DEF PeriodOf, k

(* What holds besides the two properties when the clock only advances.     *)
Marks ==
  /\ now \in Nat /\ lastRoll_ \in Nat /\ excess \in Nat /\ late \in Nat
  /\ writtenBytes_ \in Nat
  /\ count_ \in 0..(checkEveryN_ - 1)
  /\ lastRoll_ <= now
  /\ startOfPeriod_ = PeriodOf(lastRoll_)
  /\ late > 0 => PeriodOf(now) > startOfPeriod_
  /\ pc = "idle" => late <= count_
  /\ pc = "check" => writtenBytes_ <= rollSize_
  /\ excess > 0 => excess = 1 /\ now > lastRoll_ /\ pc \in {"roll", "dead"}
  /\ FewLateLines /\ OneLineTooMany

(* A roll, asked for or needed, when append() may be left afterwards.      *)
LEMMA RollKeepsMarks ==
  ASSUME Marks, RollFile, pc' = "idle", UNCHANGED <<now, count_>>
  PROVE  Marks'
<1>1. CASE NewSecond
  BY <1>1, LogFileAssumption
     DEF Marks, RollFile, CloseAndOpen, FewLateLines, OneLineTooMany
<1>2. CASE ~NewSecond
  <2>1. now = lastRoll_ /\ late = 0 /\ excess = 0
    BY <1>2, PeriodsAscend DEF Marks, NewSecond
  <2>2. UNCHANGED <<marks, late, excess>>
    BY <1>2 DEF RollFile
  <2>3. writtenBytes_' = writtenBytes_
    BY <1>2 DEF RollFile, stream
  <2>4. FewLateLines' /\ OneLineTooMany'
    BY <2>1, <2>2, LogFileAssumption DEF Marks, marks, FewLateLines, OneLineTooMany
  <2>5. QED
    BY <2>1, <2>2, <2>3, <2>4 DEF Marks, marks
<1>3. QED
  BY <1>1, <1>2

Steady == SteadyClock => Marks

(* With a clock that is never set back the marks keep what they mean.      *)
LEMMA SteadyInvariant == Spec => []Steady
<1> USE LogFileAssumption DEF FewLateLines, OneLineTooMany
<1>1. Init => Steady
  <2> SUFFICES ASSUME Init PROVE Marks
    BY DEF Steady
  <2>1. now = 1 /\ late = 0 /\ count_ = 0 /\ lastRoll_ = 1 /\ excess = 0 /\ pc = "idle"
        /\ startOfPeriod_ = PeriodOf(lastRoll_) /\ writtenBytes_ = 0
    BY DEF Init
  <2>2. QED
    BY <2>1 DEF Marks
<1>2. Steady /\ [Next]_vars => Steady'
  <2> SUFFICES ASSUME Marks, SteadyClock, [Next]_vars PROVE Marks'
    <3>1. [Next]_vars => (SteadyClock' <=> SteadyClock)
      BY DEF Next, vars, SteadyClock
    <3>2. QED
      BY <3>1 DEF Steady
  <2> USE DEF clock, marks, stream, ghosts
  <2>1. ASSUME NEW len \in LineLen, AppendLine(len) PROVE Marks'
    <3>1. /\ UNCHANGED <<now, startOfPeriod_, lastRoll_>>
          /\ writtenBytes_' \in Nat /\ writtenBytes_' > writtenBytes_ /\ excess = 0
          /\ excess' = IF writtenBytes_ > rollSize_ /\ now # lastRoll_ THEN 1 ELSE 0
          /\ late' = IF PeriodOf(now) # startOfPeriod_ THEN late + 1 ELSE late
          /\ pc = "idle"
      BY <2>1 DEF AppendLine, AppendText, Marks
    <3>2. late' > 0 => PeriodOf(now) > startOfPeriod_
      BY <3>1, PeriodsAscend DEF Marks
    <3>3. late' \in Nat /\ late' <= count_ + 1 /\ count_ + 1 <= checkEveryN_
      BY <3>1 DEF Marks
    <3>4. CASE writtenBytes_' > rollSize_
      <4>1. pc' = "roll" /\ count_' = count_
        BY <2>1, <3>4 DEF AppendLine, AppendText
      <4>2. QED
        BY <3>1, <3>2, <3>3, <4>1 DEF Marks
    <3>5. CASE ~(writtenBytes_' > rollSize_)
      <4>1. \/ pc' = "check" /\ count_' = 0
            \/ pc' = "idle" /\ count_' = count_ + 1 /\ count_ + 1 < checkEveryN_
        BY <2>1, <3>5 DEF AppendLine, AppendText, CheckDue, Marks
      <4>2. writtenBytes_' <= rollSize_
        BY <3>1, <3>5
      <4>3. QED
        BY <3>1, <3>2, <3>3, <4>1, <4>2 DEF Marks
    <3>6. QED
      BY <3>4, <3>5
  <2>2. CASE Check
    <3>1. UNCHANGED <<now, lastRoll_, excess, late, count_, startOfPeriod_, writtenBytes_>>
          /\ (pc' = "roll" \/ (pc' = "idle" /\ PeriodOf(now) = startOfPeriod_)) /\ pc = "check"
      BY <2>2 DEF Check
    <3>2. PeriodOf(now) = startOfPeriod_ => late = 0
      BY PeriodsAscend DEF Marks
    <3>3. QED
      BY <3>1, <3>2 DEF Marks
  <2>3. CASE Roll \/ RollCall
    BY <2>3, RollKeepsMarks DEF Roll, RollCall
  <2>4. CASE FlushCall \/ UNCHANGED vars
    BY <2>4 DEF FlushCall, vars, Marks
  <2>5. CASE Tick
    <3>1. PeriodOf(now) <= PeriodOf(now + 1) /\ PeriodOf(now) \in Nat /\ PeriodOf(now + 1) \in Nat
      BY PeriodsAscend DEF Marks
    <3>2. startOfPeriod_ \in Nat
      BY PeriodsAscend DEF Marks
    <3>3. QED
      BY <2>5, <3>1, <3>2 DEF Tick, Marks
  <2>6. CASE StepBack
    BY <2>6 DEF StepBack
  <2>7. CASE Crash
    BY <2>7 DEF Crash, Marks
  <2>8. CASE Restart
    BY <2>8 DEF Restart, Construct, Marks
  <2>9. QED
    BY <2>1, <2>2, <2>3, <2>4, <2>5, <2>6, <2>7, <2>8 DEF Next, Step
<1>3. QED
  BY <1>1, <1>2, PTL DEF Spec

(* A file holds at most checkEveryN_ lines that came after its period.     *)
THEOREM LateLinesBounded == Spec => []FewLateLines
<1>1. Steady => FewLateLines
  BY DEF Steady, Marks, FewLateLines
<1>2. QED
  BY <1>1, SteadyInvariant, PTL

(* Once the second of its creation is over, a file that is already larger  *)
(* than rollSize_ takes one line more, and append() does not return        *)
(* before it has rolled.                                                   *)
THEOREM OneLineBeyond == Spec => []OneLineTooMany
<1>1. Steady => OneLineTooMany
  BY DEF Steady, Marks, OneLineTooMany
<1>2. QED
  BY <1>1, SteadyInvariant, PTL

-----------------------------------------------------------------------------
(* What the concatenation of sequences is, one sequence at a time.         *)

(* Induction, for a set of numbers: a least number outside cannot be.      *)
LEMMA Induction ==
  ASSUME NEW T, 0 \in T, \A n \in Nat : n \in T => n + 1 \in T
  PROVE  Nat \subseteq T
<1> DEFINE Bad == Nat \ T
           R == OpToRel(<, Nat)
<1> SUFFICES ASSUME Bad # {} PROVE FALSE
  OBVIOUS
<1>1. IsWellFoundedOn(R, Nat)
  BY NatLessThanWellFounded
<1>2. Bad \subseteq Nat
  OBVIOUS
<1>3. \A x, y \in Nat : x < y => <<x, y>> \in R
  BY DEF OpToRel
<1> HIDE DEF R
<1> HIDE DEF Bad
<1>4. PICK m \in Bad : \A k \in Bad : ~(<<k, m>> \in R)
  BY <1>1, <1>2, WFMin
<1>5. \A k \in Bad : ~(k < m)
  BY <1>2, <1>3, <1>4
<1> QED
  BY <1>2, <1>5 DEF Bad

(* The concatenations of 1, 2, ... of the sequences in q.                  *)
Sums(q, n, f) ==
  /\ f \in [1..n -> Seq(Nat)]
  /\ \A i \in 1..n : f[i] = IF i = 1 THEN q[1] ELSE f[i - 1] \o q[i]

LEMMA SumsExist ==
  ASSUME NEW q \in Seq(Seq(Nat))
  PROVE  \A n \in 0..Len(q) : \E f : Sums(q, n, f)
<1> DEFINE T == {n \in Nat : n <= Len(q) => \E f : Sums(q, n, f)}
<1>1. 0 \in T
  <2>1. Sums(q, 0, [i \in {} |-> << >>])
    BY DEF Sums
  <2> QED
    BY <2>1
<1>2. ASSUME NEW n \in Nat, n \in T PROVE n + 1 \in T
  <2> SUFFICES ASSUME n + 1 <= Len(q) PROVE \E f : Sums(q, n + 1, f)
    OBVIOUS
  <2>1. PICK f : Sums(q, n, f)
    BY <1>2
  <2> DEFINE next == IF n = 0 THEN q[1] ELSE f[n] \o q[n + 1]
             g == [i \in 1..(n + 1) |-> IF i = n + 1 THEN next ELSE f[i]]
  <2>2. q[n + 1] \in Seq(Nat) /\ q[1] \in Seq(Nat)
    BY <1>2
  <2>3. next \in Seq(Nat)
    BY <2>1, <2>2 DEF Sums
  <2> HIDE DEF next
  <2>4. g \in [1..(n + 1) -> Seq(Nat)]
    BY <2>1, <2>3 DEF Sums
  <2>5. ASSUME NEW i \in 1..(n + 1)
        PROVE  g[i] = IF i = 1 THEN q[1] ELSE g[i - 1] \o q[i]
    <3>1. CASE i = n + 1
      BY <3>1 DEF next
    <3>2. CASE i # n + 1
      <4>1. i \in 1..n /\ g[i] = f[i] /\ (i # 1 => g[i - 1] = f[i - 1])
        BY <3>2
      <4> QED
        BY <2>1, <4>1 DEF Sums
    <3> QED
      BY <3>1, <3>2
  <2> HIDE DEF g
  <2>6. Sums(q, n + 1, g)
    BY <2>4, <2>5 DEF Sums
  <2> QED
    BY <2>6
<1>3. Nat \subseteq T
  <2> HIDE DEF T
  <2> QED
    BY <1>1, <1>2, Induction
<1> QED
  BY <1>3

(* Two sequences that are alike up to n.                                   *)
Alike(q, r, n) == \A i \in 1..n : q[i] = r[i]

LEMMA SumsAgree ==
  ASSUME NEW q \in Seq(Seq(Nat)), NEW r \in Seq(Seq(Nat)),
         NEW m \in Nat, NEW n \in Nat, m <= n,
         Alike(q, r, m),
         NEW f, Sums(q, m, f), NEW g, Sums(r, n, g)
  PROVE  Alike(f, g, m)
<1> DEFINE T == {i \in Nat : i \in 1..m => f[i] = g[i]}
<1>1. 0 \in T
  OBVIOUS
<1>2. ASSUME NEW i \in Nat, i \in T PROVE i + 1 \in T
  <2>1. i + 1 \in 1..m => i + 1 \in 1..n /\ q[i + 1] = r[i + 1] /\ q[1] = r[1]
    BY DEF Alike
  <2>2. i + 1 \in 1..m =>
          /\ f[i + 1] = IF i + 1 = 1 THEN q[1] ELSE f[i] \o q[i + 1]
          /\ g[i + 1] = IF i + 1 = 1 THEN r[1] ELSE g[i] \o r[i + 1]
    <3>1. (i + 1) - 1 = i
      OBVIOUS
    <3> QED
      BY <2>1, <3>1 DEF Sums
  <2>3. i + 1 \in 1..m => i = 0 \/ f[i] = g[i]
    BY <1>2
  <2> QED
    BY <2>1, <2>2, <2>3
<1>3. Nat \subseteq T
  <2> HIDE DEF T
  <2> QED
    BY <1>1, <1>2, Induction
<1> QED
  BY <1>3 DEF Alike

LEMMA FlattenIsSum ==
  ASSUME NEW q \in Seq(Seq(Nat)), q # << >>, NEW f, Sums(q, Len(q), f)
  PROVE  FlattenSeq(q) = f[Len(q)]
<1> DEFINE n == Len(q)
           Rec(h) == h = [i \in 1..Len(q) |-> IF i = 1 THEN q[i] ELSE h[i - 1] \o q[i]]
           c == CHOOSE h : Rec(h)
<1>1. n \in Nat \ {0}
  OBVIOUS
<1>2. FlattenSeq(q) = c[n]
  BY <1>1 DEF FlattenSeq
<1>3. Rec(f)
  <2>1. DOMAIN f = 1..n
    BY DEF Sums
  <2>2. f = [i \in 1..n |-> f[i]]
    BY DEF Sums
  <2>3. \A i \in 1..n : f[i] = IF i = 1 THEN q[i] ELSE f[i - 1] \o q[i]
    BY DEF Sums
  <2> QED
    BY <2>2, <2>3
<1>4. Rec(c)
  <2> HIDE DEF Rec
  <2> QED
    BY <1>3
<1>5. DOMAIN c = 1..n /\ \A i \in 1..n : c[i] = IF i = 1 THEN q[i] ELSE c[i - 1] \o q[i]
  <2> HIDE DEF c
  <2> QED BY <1>4
<1> HIDE DEF c
<1> DEFINE T == {i \in Nat : i \in 1..n => c[i] = f[i]}
<1>6. 0 \in T
  OBVIOUS
<1>7. ASSUME NEW i \in Nat, i \in T PROVE i + 1 \in T
  <2>1. i + 1 \in 1..n =>
          /\ f[i + 1] = IF i + 1 = 1 THEN q[1] ELSE f[i] \o q[i + 1]
          /\ c[i + 1] = IF i + 1 = 1 THEN q[1] ELSE c[i] \o q[i + 1]
    <3>1. (i + 1) - 1 = i
      OBVIOUS
    <3> QED
      BY <1>5, <3>1 DEF Sums
  <2>2. i + 1 \in 1..n => i = 0 \/ f[i] = c[i]
    BY <1>7
  <2> QED
    BY <2>1, <2>2
<1>8. Nat \subseteq T
  <2> HIDE DEF T
  <2> QED
    BY <1>6, <1>7, Induction
<1> QED
  BY <1>1, <1>2, <1>8

LEMMA FlattenType ==
  ASSUME NEW q \in Seq(Seq(Nat))
  PROVE  FlattenSeq(q) \in Seq(Nat)
<1>1. CASE q = << >>
  BY <1>1 DEF FlattenSeq
<1>2. CASE q # << >>
  <2>1. Len(q) \in 0..Len(q) /\ Len(q) \in 1..Len(q)
    BY <1>2
  <2>2. PICK f : Sums(q, Len(q), f)
    BY <2>1, SumsExist
  <2> QED
    BY <1>2, <2>1, <2>2, FlattenIsSum DEF Sums
<1> QED
  BY <1>1, <1>2

LEMMA FlattenAppend ==
  ASSUME NEW q \in Seq(Seq(Nat)), NEW e \in Seq(Nat)
  PROVE  FlattenSeq(Append(q, e)) = FlattenSeq(q) \o e
<1> DEFINE S == Seq(Nat)
           r == Append(q, e)
           n == Len(q)
<1>1. /\ r \in Seq(S) /\ r # << >> /\ Len(r) = n + 1 /\ n \in Nat
      /\ r[n + 1] = e /\ \A i \in 1..n : r[i] = q[i]
  <2>1. q \in Seq(S) /\ e \in S
    OBVIOUS
  <2> HIDE DEF S
  <2> QED
    BY <2>1, AppendProperties
<1> HIDE DEF r
<1>2. /\ n \in 0..Len(q) /\ n + 1 \in 0..Len(r) /\ n + 1 \in 1..(n + 1)
      /\ (n + 1) - 1 = n /\ n <= n + 1 /\ n + 1 \in Nat
  BY <1>1
<1>3. PICK g : Sums(r, n + 1, g)
  BY <1>1, <1>2, SumsExist
<1>4. FlattenSeq(r) = g[n + 1]
  BY <1>1, <1>3, FlattenIsSum
<1>5. CASE n = 0
  <2>1. g[n + 1] = e
    BY <1>1, <1>2, <1>3, <1>5 DEF Sums
  <2>2. q = << >> /\ FlattenSeq(q) = << >>
    BY <1>5 DEF FlattenSeq
  <2> QED
    BY <1>4, <2>1, <2>2 DEF r
<1>6. CASE n # 0
  <2>1. PICK f : Sums(q, n, f)
    BY <1>2, SumsExist
  <2>2. FlattenSeq(q) = f[n]
    BY <1>6, <2>1, FlattenIsSum
  <2>3. f[n] = g[n]
    <3>1. Alike(q, r, n)
      BY <1>1 DEF Alike
    <3>2. Alike(f, g, n)
      BY <1>1, <1>2, <1>3, <2>1, <3>1, SumsAgree
    <3> QED
      BY <1>1, <1>6, <3>2 DEF Alike
  <2>4. g[n + 1] = g[n] \o e
    <3>1. n + 1 # 1
      BY <1>1, <1>6
    <3> QED
      BY <1>1, <1>2, <1>3, <3>1 DEF Sums
  <2> QED
    BY <1>4, <2>2, <2>3, <2>4 DEF r
<1> QED
  BY <1>5, <1>6

-----------------------------------------------------------------------------
(* What the files hold.                                                    *)

TextOf(d) == FlattenSeq([i \in DOMAIN d |-> d[i].lines])

LEMMA TextType ==
  ASSUME NEW d \in Seq(FileRecord)
  PROVE  [i \in DOMAIN d |-> d[i].lines] \in Seq(Seq(Nat)) /\ TextOf(d) \in Seq(Nat)
<1>1. [i \in DOMAIN d |-> d[i].lines] \in Seq(Seq(Nat))
  <2>1. \A i \in 1..Len(d) : d[i].lines \in Seq(Nat)
    <3>1. \A i \in 1..Len(d) : d[i] \in FileRecord
      OBVIOUS
    <3>2. QED
      BY <3>1 DEF FileRecord
  <2>2. DOMAIN d = 1..Len(d) /\ Len(d) \in Nat
    OBVIOUS
  <2>3. QED
    BY <2>1, <2>2
<1>2. QED
  BY <1>1, FlattenType DEF TextOf

(* A new file's lines come after all the others.                           *)
LEMMA TextOfAppend ==
  ASSUME NEW d \in Seq(FileRecord), NEW e \in FileRecord
  PROVE  TextOf(Append(d, e)) = TextOf(d) \o e.lines
<1> DEFINE S  == FileRecord
           T  == Seq(Nat)
           n  == Len(d)
           r  == Append(d, e)
           ld == [i \in DOMAIN d |-> d[i].lines]
           lr == [i \in DOMAIN r |-> r[i].lines]
<1>1. e.lines \in T /\ ld \in Seq(T)
  BY TextType DEF FileRecord
<1>2. /\ n \in Nat /\ DOMAIN d = 1..n /\ DOMAIN r = 1..(n + 1)
      /\ r[n + 1] = e /\ \A i \in 1..n : r[i] = d[i]
  <2>1. d \in Seq(S) /\ e \in S
    OBVIOUS
  <2> HIDE DEF S
  <2>2. r \in Seq(S) /\ Len(r) = Len(d) + 1 /\ r[Len(d) + 1] = e
        /\ \A i \in 1..Len(d) : r[i] = d[i]
    BY <2>1, AppendProperties
  <2>3. QED
    BY <2>1, <2>2
<1>3. Len(ld) = n
  BY <1>2
<1>4. /\ Append(ld, e.lines) \in Seq(T) /\ Len(Append(ld, e.lines)) = n + 1
      /\ Append(ld, e.lines)[n + 1] = e.lines
      /\ \A i \in 1..n : Append(ld, e.lines)[i] = ld[i]
  <2> HIDE DEF T, ld
  <2> QED
    BY <1>1, <1>3, AppendProperties
<1>5. lr = Append(ld, e.lines)
  <2> HIDE DEF r
  <2>1. lr = [i \in 1..(n + 1) |-> r[i].lines]
    BY <1>2
  <2>2. \A i \in 1..n : ld[i] = r[i].lines
    BY <1>2
  <2> DEFINE a == Append(ld, e.lines)
  <2>3. /\ Len(a) = n + 1 /\ a \in Seq(T) /\ a[n + 1] = r[n + 1].lines
        /\ \A i \in 1..n : a[i] = r[i].lines
    BY <1>2, <1>4, <2>2
  <2> HIDE DEF a, ld
  <2>4. ASSUME NEW i \in 1..(n + 1) PROVE a[i] = r[i].lines
    <3> HIDE DEF n
    <3>1. i \in 1..n \/ i = n + 1
      BY <1>2
    <3>2. QED
      BY <2>3, <3>1
  <2>5. a = [i \in 1..(n + 1) |-> a[i]]
    <3>1. a \in [1..Len(a) -> T]
      BY <2>3, LenProperties
    <3>2. a \in [1..(n + 1) -> T]
      BY <2>3, <3>1
    <3> HIDE DEF T
    <3>3. QED
      BY <3>2
  <2>6. a = lr
    BY <2>1, <2>4, <2>5
  <2> QED
    BY <2>6 DEF a
<1>6. FlattenSeq(Append(ld, e.lines)) = FlattenSeq(ld) \o e.lines
  BY <1>1, FlattenAppend
<1>7. QED
  BY <1>5, <1>6 DEF TextOf

LEMMA Regrouped == \A x, y, z \in Seq(Nat) : x \o (y \o z) = (x \o y) \o z
<1> DEFINE S == Nat
<1> HIDE DEF S
<1>1. \A x, y, z \in Seq(S) : x \o (y \o z) = (x \o y) \o z
  BY ConcatAssociative
<1> QED
  BY <1>1 DEF S

(* Written text follows whatever is in the files.                          *)
LEMMA TextOfFlushed ==
  ASSUME NEW d \in Seq(FileRecord), d # << >>, NEW s \in Seq(Nat)
  PROVE  TextOf(Flushed(d, s)) = TextOf(d) \o s
<1> DEFINE S == FileRecord
<1>1. PICK h \in Seq(S), e \in S : d = Append(h, e)
  <2>1. d \in Seq(S) /\ d # << >>
    OBVIOUS
  <2> HIDE DEF S
  <2> QED
    BY <2>1, SequenceEmptyOrAppend
<1> DEFINE n  == Len(h)
           e2 == [e EXCEPT !.lines = @ \o s]
<1>2. e2 \in S /\ e2.lines = e.lines \o s /\ e.lines \in Seq(Nat)
  <2>1. e.lines \o s \in Seq(Nat) /\ e.lines \in Seq(Nat)
    BY DEF FileRecord
  <2> QED
    BY <2>1 DEF FileRecord
<1>3. Append(h, e2) = Flushed(d, s)
  <2> HIDE DEF e2
  <2> HIDE DEF S
  <2>1. /\ d \in Seq(S) /\ n \in Nat /\ Len(d) = n + 1 /\ d[n + 1] = e
        /\ \A i \in 1..n : d[i] = h[i]
    BY <1>1, AppendProperties
  <2>2. /\ Append(h, e2) \in Seq(S) /\ Len(Append(h, e2)) = n + 1
        /\ Append(h, e2)[n + 1] = e2 /\ \A i \in 1..n : Append(h, e2)[i] = h[i]
    BY <1>2, AppendProperties
  <2>3. Flushed(d, s) = [d EXCEPT ![n + 1] = e2]
    BY <2>1 DEF Flushed, e2
  <2>4. /\ Flushed(d, s) \in Seq(S) /\ Len(Flushed(d, s)) = n + 1
        /\ \A i \in 1..(n + 1) : Flushed(d, s)[i] = IF i = n + 1 THEN e2 ELSE d[i]
    BY <1>2, <2>1, <2>3, ExceptSeq
  <2>5. \A i \in 1..(n + 1) : Append(h, e2)[i] = Flushed(d, s)[i]
    BY <2>1, <2>2, <2>4
  <2> QED
    BY <2>2, <2>4, <2>5, SeqEqual
<1>4. TextOf(Append(h, e2)) = TextOf(h) \o (e.lines \o s)
  BY <1>2, TextOfAppend
<1>5. TextOf(d) = TextOf(h) \o e.lines
  BY <1>1, TextOfAppend
<1>6. TextOf(h) \in Seq(Nat)
  BY TextType
<1>7. TextOf(h) \o (e.lines \o s) = (TextOf(h) \o e.lines) \o s
  BY <1>2, <1>6, Regrouped
<1>8. QED
  BY <1>3, <1>4, <1>5, <1>7

(* An empty file adds nothing.                                             *)
LEMMA TextOfOpened ==
  ASSUME NEW d \in Seq(FileRecord), NEW e \in FileRecord, e.lines = << >>
  PROVE  TextOf(Append(d, e)) = TextOf(d)
<1>1. TextOf(d) \in Seq(Nat)
  BY TextType
<1>2. QED
  BY <1>1, TextOfAppend, ConcatEmptySeq

-----------------------------------------------------------------------------
(* The log, files and buffer together, and how a step moves it.            *)

Log == Contents \o stdio

(* A dead process has no buffer.                                           *)
Quiet == pc = "dead" => stdio = << >>

LEMMA LogTypes ==
  ASSUME Names
  PROVE  /\ Contents \in Seq(Nat) /\ Log \in Seq(Nat) /\ stdio \in Seq(Nat)
         /\ Contents = TextOf(disk) /\ Contents' = TextOf(disk')
         /\ Len(Log) = Len(Contents) + Len(stdio)
         /\ Len(Contents) \in Nat /\ Len(stdio) \in Nat
<1>1. Contents = TextOf(disk) /\ Contents' = TextOf(disk')
  BY DEF Contents, TextOf
<1>2. Contents \in Seq(Nat) /\ stdio \in Seq(Nat)
  BY <1>1, TextType DEF Names
<1>3. Log \in Seq(Nat) /\ Len(Log) = Len(Contents) + Len(stdio)
  BY <1>2, ConcatProperties DEF Log
<1>4. Len(Contents) \in Nat /\ Len(stdio) \in Nat
  BY <1>2, LenProperties
<1>5. QED
  BY <1>1, <1>2, <1>3, <1>4

(* A first part of the buffer and the text behind it goes to the file.     *)
LEMMA AcceptSplits ==
  ASSUME Names, NEW text \in Seq(Nat), Accept(text)
  PROVE  \E pre, rest \in Seq(Nat) :
           pre \o rest = stdio \o text /\ Contents' = Contents \o pre /\ stdio' = rest
<1> DEFINE all == stdio \o text
           n   == Len(all)
<1>1. PICK k \in 0..n :
        disk' = Flushed(disk, SubSeq(all, 1, k)) /\ stdio' = SubSeq(all, k + 1, n)
  BY DEF Accept
<1>2. all \in Seq(Nat) /\ n \in Nat
  BY LogTypes, ConcatProperties, LenProperties
<1> DEFINE pre  == SubSeq(all, 1, k)
           rest == SubSeq(all, k + 1, n)
<1>3. pre \in Seq(Nat) /\ rest \in Seq(Nat) /\ pre \o rest = all
  <2> HIDE DEF all
  <2>1. \A i \in 1..n : all[i] \in Nat
    BY <1>2
  <2>2. pre \in Seq(Nat) /\ rest \in Seq(Nat)
    BY <1>1, <1>2, <2>1
  <2>3. 1 \in 1..(n + 1) /\ k \in (1 - 1)..n /\ n \in k..n
    BY <1>1, <1>2
  <2>4. SubSeq(all, 1, k) \o SubSeq(all, k + 1, n) = SubSeq(all, 1, n)
    BY <1>2, <2>3, ConcatAdjacentSubSeq
  <2>5. SubSeq(all, 1, n) = all
    BY <1>2, SubSeqFull
  <2>6. QED
    BY <2>2, <2>4, <2>5
<1> HIDE DEF pre, rest
<1>4. Contents' = Contents \o pre /\ stdio' = rest
  BY <1>1, <1>3, TextOfFlushed, LogTypes DEF pre, rest, Names
<1> QED
  BY <1>3, <1>4

LEMMA AcceptGrows ==
  ASSUME Names, NEW text \in Seq(Nat), Accept(text)
  PROVE  Log' = Log \o text /\ Len(Contents') \in Len(Contents)..Len(Log')
<1> DEFINE all == stdio \o text
<1>1. PICK pre \in Seq(Nat), rest \in Seq(Nat) :
        pre \o rest = all /\ Contents' = Contents \o pre /\ stdio' = rest
  BY AcceptSplits
<1>2. all \in Seq(Nat)
  BY LogTypes
<1>3. Contents \o all = Log \o text
  <2>1. Contents \in Seq(Nat)
    BY LogTypes
  <2>2. stdio \in Seq(Nat)
    BY LogTypes
  <2> QED
    BY <2>1, <2>2, Regrouped DEF Log
<1> HIDE DEF all
<1>4. Log' = Contents \o all
  <2>1. Contents \o (pre \o rest) = (Contents \o pre) \o rest
    <3>1. Contents \in Seq(Nat)
      BY LogTypes
    <3>2. QED
      BY <1>1, <3>1, Regrouped
  <2>2. QED
    BY <1>1, <2>1 DEF Log
<1>5. Len(Contents') \in Len(Contents)..Len(Log')
  <2>1. Len(Contents') = Len(Contents) + Len(pre) /\ Contents' \in Seq(Nat)
    BY <1>1, LogTypes, ConcatProperties
  <2>2. Len(Log') = Len(Contents') + Len(rest)
    BY <1>1, <2>1, ConcatProperties DEF Log
  <2>3. Len(pre) \in Nat /\ Len(rest) \in Nat /\ Len(Contents) \in Nat
    BY <1>1, LogTypes, LenProperties
  <2>4. QED
    BY <2>1, <2>2, <2>3
<1>6. QED
  BY <1>4, <1>3, <1>5

(* fflush() that works, and fclose() behind it.                            *)
LEMMA WrittenOut ==
  ASSUME Names, stdio' = << >>,
         \/ disk' = Flushed(disk, stdio)
         \/ disk' = Append(Flushed(disk, stdio), Open)
  PROVE  Contents' = Log /\ Log' = Log
<1>1. TextOf(Flushed(disk, stdio)) = Log /\ Flushed(disk, stdio) \in Seq(FileRecord)
  BY TextOfFlushed, FlushedKeepsNames, LogTypes DEF Names, Log
<1>2. Open \in FileRecord /\ Open.lines = << >>
  BY DEF Open, FileRecord, Names
<1>3. Contents' = Log
  BY <1>1, <1>2, TextOfOpened, LogTypes
<1>4. QED
  BY <1>3, LogTypes, ConcatEmptySeq DEF Log

(* A buffer that is thrown away.                                           *)
LEMMA ThrownAway ==
  ASSUME Names, stdio' = << >>, disk' = disk \/ disk' = Append(disk, Open)
  PROVE  Contents' = Contents /\ Log' = Contents
<1>1. Open \in FileRecord /\ Open.lines = << >>
  BY DEF Open, FileRecord, Names
<1>2. Contents' = Contents
  BY <1>1, TextOfOpened, LogTypes DEF Names
<1>3. QED
  BY <1>2, LogTypes, ConcatEmptySeq DEF Log

(* A line joins; nothing moves but what is durable; the buffer is lost to  *)
(* a crash or to a disk that fails; the next process begins.               *)
Grows ==
  /\ lines' = lines + 1 /\ Log' = Log \o <<lines + 1>>
  /\ Len(Contents') \in Len(Contents)..Len(Log')
  /\ pc # "dead" /\ pc' # "dead"

Settles ==
  /\ lines' \in {lines, lines + 1} /\ Log' = Log
  /\ Contents' = Contents \/ (Contents' = Log /\ pc # "dead")
  /\ (pc' = "dead") = (pc = "dead")

LosesBuffer ==
  /\ lines' = lines /\ Log' = Contents /\ Contents' = Contents
  /\ pc # "dead" /\ (pc' = "dead" \/ DiskMayFill)

Revives ==
  /\ UNCHANGED lines /\ Log' = Log /\ Contents' = Contents
  /\ pc = "dead" /\ pc' # "dead"

LEMMA RollMoves ==
  ASSUME Names, RollFile, UNCHANGED lines, pc # "dead", pc' # "dead"
  PROVE  Settles \/ LosesBuffer
<1>1. CASE ~NewSecond
  BY <1>1 DEF RollFile, Settles, stream, Log, Contents
<1>2. CASE NewSecond
  <2>1. /\ stdio' = << >>
        /\ \/ disk' = Append(Flushed(disk, stdio), Open)
           \/ DiskMayFill /\ disk' = Append(disk, Open)
    BY <1>2 DEF RollFile, CloseAndOpen, Closed
  <2>2. CASE disk' = Append(Flushed(disk, stdio), Open)
    BY <2>1, <2>2, WrittenOut DEF Settles
  <2>3. CASE DiskMayFill /\ disk' = Append(disk, Open)
    BY <2>1, <2>3, ThrownAway DEF LosesBuffer
  <2>4. QED
    BY <2>1, <2>2, <2>3
<1>3. QED
  BY <1>1, <1>2

LEMMA FlushMoves ==
  ASSUME Names, FlushFile, UNCHANGED lines, pc # "dead", pc' # "dead"
  PROVE  Settles \/ LosesBuffer
<1>1. CASE FlushOk
  BY <1>1, WrittenOut DEF FlushOk, Settles
<1>2. CASE FlushFails
  <2>1. CASE stdio' = stdio
    BY <1>2, <2>1 DEF FlushFails, Settles, Log, Contents
  <2>2. CASE stdio' = << >>
    BY <1>2, <2>2, ThrownAway DEF FlushFails, LosesBuffer
  <2>3. QED
    BY <1>2, <2>1, <2>2 DEF FlushFails
<1>3. QED
  BY <1>1, <1>2 DEF FlushFile

LEMMA LogMoves ==
  ASSUME Names, Quiet, [Next]_vars
  PROVE  /\ Grows \/ Settles \/ LosesBuffer \/ Revives
         /\ Quiet' /\ UNCHANGED faults
<1> USE DEF clock, marks, stream, ghosts
<1>1. ASSUME NEW len \in LineLen, AppendLine(len)
      PROVE  (Grows \/ Settles) /\ Quiet'
  <2>1. /\ lines' = lines + 1 /\ pc # "dead" /\ pc' # "dead"
        /\ Accept(<<lines + 1>>) \/ Truncate
    BY <1>1 DEF AppendLine, AppendText
  <2>2. <<lines + 1>> \in Seq(Nat)
    BY DEF Names
  <2>3. CASE Accept(<<lines + 1>>)
    BY <2>1, <2>2, <2>3, AcceptGrows DEF Grows, Quiet
  <2>4. CASE Truncate
    BY <2>1, <2>4 DEF Truncate, Settles, Quiet, Log, Contents
  <2>5. QED
    BY <2>1, <2>3, <2>4
<1>2. ASSUME Check PROVE (Settles \/ LosesBuffer) /\ Quiet'
  <2>1. /\ UNCHANGED lines /\ pc # "dead" /\ pc' # "dead"
        /\ FlushFile \/ UNCHANGED <<stdio, disk>>
    BY <1>2 DEF Check
  <2>2. CASE UNCHANGED <<stdio, disk>>
    BY <2>1, <2>2 DEF Settles, Quiet, Log, Contents
  <2>3. QED
    BY <2>1, <2>2, FlushMoves DEF Quiet
<1>3. ASSUME FlushCall PROVE (Settles \/ LosesBuffer) /\ Quiet'
  BY <1>3, FlushMoves DEF FlushCall, Quiet
<1>4. ASSUME Roll \/ RollCall PROVE (Settles \/ LosesBuffer) /\ Quiet'
  BY <1>4, RollMoves DEF Roll, RollCall, Quiet
<1>5. ASSUME Tick \/ StepBack \/ UNCHANGED vars PROVE Settles /\ Quiet'
  BY <1>5 DEF Tick, StepBack, vars, Settles, Quiet, Log, Contents
<1>6. ASSUME Crash PROVE LosesBuffer /\ Quiet'
  BY <1>6, ThrownAway DEF Crash, LosesBuffer, Quiet
<1>7. ASSUME Restart PROVE Revives /\ Quiet'
  <2> DEFINE e == [name |-> [at |-> now, pid |-> pid'], lines |-> << >>]
  <2>1. /\ pc = "dead" /\ pc' # "dead" /\ UNCHANGED lines /\ disk' = Append(disk, e)
        /\ stdio = << >> /\ stdio' = << >> /\ pid' = pid + 1
    BY <1>7 DEF Restart, Construct, Quiet
  <2>2. e \in FileRecord /\ e.lines = << >>
    BY <2>1 DEF FileRecord, Names
  <2>3. Contents' = Contents
    BY <2>1, <2>2, TextOfOpened, LogTypes DEF Names
  <2>4. QED
    BY <2>1, <2>3 DEF Revives, Quiet, Log
<1>8. UNCHANGED faults
  BY DEF Next, vars
<1>9. QED
  BY <1>1, <1>2, <1>3, <1>4, <1>5, <1>6, <1>7, <1>8 DEF Next, Step

(* Ascending, and no line is from the future.                              *)
Ascending(s) == \A i, j \in 1..Len(s) : i < j => s[i] < s[j]
Ordered == Ascending(Log) /\ \A i \in 1..Len(Log) : Log[i] <= lines

LogInv == Names /\ Quiet /\ Ordered

LEMMA MovesKeepOrder ==
  ASSUME LogInv, Grows \/ Settles \/ LosesBuffer \/ Revives
  PROVE  Ordered'
<1>1. /\ Log \in Seq(Nat) /\ Contents \in Seq(Nat) /\ stdio \in Seq(Nat) /\ lines \in Nat
      /\ Len(Contents) \in Nat /\ Len(Log) \in Nat /\ Len(Contents) <= Len(Log)
      /\ \A i \in 1..Len(Log) : Log[i] \in Nat
  BY LogTypes DEF LogInv, Names
<1>2. CASE Grows
  <2> DEFINE n == Len(Log)
  <2>1. /\ Log' = Log \o <<lines + 1>> /\ lines' = lines + 1
        /\ <<lines + 1>> \in Seq(Nat) /\ Len(<<lines + 1>>) = 1
        /\ <<lines + 1>>[1] = lines + 1
    BY <1>1, <1>2 DEF Grows
  <2>2. /\ Len(Log') = n + 1 /\ Log'[n + 1] = lines + 1
        /\ \A i \in 1..n : Log'[i] = Log[i]
    <3>1. /\ Len(Log') = n + 1
          /\ \A i \in 1..(n + 1) :
               Log'[i] = IF i <= n THEN Log[i] ELSE <<lines + 1>>[i - n]
      BY <1>1, <2>1, ConcatProperties
    <3>2. (n + 1) - n = 1 /\ n + 1 \in 1..(n + 1) /\ ~(n + 1 <= n)
      BY <1>1
    <3>3. Log'[n + 1] = lines + 1
      BY <2>1, <3>1, <3>2
    <3>4. QED
      BY <1>1, <3>1, <3>3
  <2> HIDE DEF n
  <2>3. n \in Nat /\ \A i \in 1..(n + 1) : i \in 1..n \/ i = n + 1
    BY <1>1 DEF n
  <2>4. /\ \A i \in 1..n : Log[i] <= lines /\ Log[i] \in Nat
        /\ \A i, j \in 1..n : i < j => Log[i] < Log[j]
    BY <1>1 DEF LogInv, Ordered, Ascending, n
  <2>5. \A i \in 1..(n + 1) : Log'[i] <= lines'
    BY <1>1, <2>1, <2>2, <2>3, <2>4
  <2>6. ASSUME NEW i \in 1..(n + 1), NEW j \in 1..(n + 1), i < j
        PROVE  Log'[i] < Log'[j]
    <3>1. i \in 1..n /\ Log'[i] = Log[i]
      BY <2>2, <2>3, <2>6
    <3>2. CASE j \in 1..n
      BY <2>2, <2>4, <2>6, <3>1, <3>2
    <3>3. CASE j = n + 1
      BY <1>1, <2>2, <2>4, <3>1, <3>3
    <3>4. QED
      BY <2>3, <3>2, <3>3
  <2>7. QED
    BY <2>2, <2>5, <2>6 DEF Ordered, Ascending
<1>3. CASE Settles \/ Revives
  BY <1>1, <1>3 DEF Settles, Revives, LogInv, Ordered, Ascending
<1>4. CASE LosesBuffer
  <2>1. \A i \in 1..Len(Contents) : i \in 1..Len(Log) /\ Log[i] = Contents[i]
    BY <1>1, ConcatProperties DEF Log
  <2>2. Log' = Contents /\ lines' = lines
    BY <1>4 DEF LosesBuffer
  <2>3. QED
    BY <2>1, <2>2 DEF LogInv, Ordered, Ascending
<1>5. QED
  BY <1>2, <1>3, <1>4

LEMMA EmptyAtFirst ==
  ASSUME Init
  PROVE  Contents = << >> /\ Log = << >> /\ stdio = << >> /\ pc = "idle" /\ lines = 0
<1>1. /\ disk = Append(<< >>, Open) /\ stdio = << >> /\ pc = "idle" /\ lines = 0
      /\ Open = [name |-> [at |-> 1, pid |-> 1], lines |-> << >>]
  BY DEF Init, Open
<1>2. Open \in FileRecord /\ << >> \in Seq(FileRecord) /\ Open.lines = << >>
  BY <1>1 DEF FileRecord
<1>3. Contents = TextOf(<< >>)
  BY <1>1, <1>2, TextOfOpened DEF Contents, TextOf
<1>4. TextOf(<< >>) = << >>
  BY DEF TextOf, FlattenSeq
<1>5. QED
  BY <1>1, <1>3, <1>4 DEF Log

LEMMA LogInvariant == Spec => []LogInv
<1>1. Init => Quiet /\ Ordered
  BY EmptyAtFirst DEF Quiet, Ordered, Ascending
<1>2. LogInv /\ Names' /\ [Next]_vars => LogInv'
  BY LogMoves, MovesKeepOrder DEF LogInv
<1>3. Spec => []Names
  BY NamesInvariant
<1>4. Init /\ Names => LogInv
  BY <1>1 DEF LogInv
<1>5. QED
  BY <1>2, <1>3, <1>4, PTL DEF Spec

(* For every roll size, interval and period, whatever rolls, fails or dies *)
(* (LogFile.cc:61-105): the lines that are left are in the order of their  *)
(* appends, and none is there twice.                                       *)
THEOREM LinesStayInOrder == Spec => []LinesInOrder
<1>1. LogInv => LinesInOrder
  <2> SUFFICES ASSUME LogInv PROVE LinesInOrder
    OBVIOUS
  <2>1. DOMAIN Log = 1..Len(Log)
    BY LogTypes, LenProperties DEF LogInv
  <2>2. QED
    BY <2>1 DEF LogInv, Ordered, Ascending, LinesInOrder, Log
<1>2. QED
  BY <1>1, LogInvariant, PTL

-----------------------------------------------------------------------------
(* The refinement of DurableLog.                                           *)

LEMMA PrefixOfConcat ==
  ASSUME NEW s \in Seq(Nat), NEW t \in Seq(Nat)
  PROVE  IsPrefix(s, s \o t)
<1>1. /\ Len(s) \in Nat /\ Len(t) \in Nat /\ Len(s \o t) = Len(s) + Len(t)
      /\ s \o t \in Seq(Nat)
  BY ConcatProperties, LenProperties
<1>2. SubSeq(s, 1, Len(s)) = SubSeq(s \o t, 1, Len(s))
  <2>1. CASE s = << >>
    BY <2>1, SubSeqEmpty
  <2>2. CASE s # << >>
    <3>1. 1 \in 1..Len(s) /\ Len(s) \in 1..Len(s)
      BY <1>1, <2>2
    <3>2. QED
      BY <3>1, SubSeqOfConcat1
  <2>3. QED
    BY <2>1, <2>2
<1>3. QED
  BY <1>1, <1>2 DEF IsPrefix

LEMMA MovesAreDurable ==
  ASSUME Names, Grows \/ Settles \/ LosesBuffer \/ Revives, UNCHANGED faults
  PROVE  [Durable!Next]_(Durable!logVars)
<1> USE DEF Durable!Next, Durable!logVars
<1>1. /\ Log \in Seq(Nat) /\ Contents \in Seq(Nat) /\ stdio \in Seq(Nat) /\ lines \in Nat
      /\ Len(Contents) \in Nat /\ Len(Log) \in Nat /\ Len(Contents) <= Len(Log)
  BY LogTypes DEF Names
<1>2. DiskMayFill' = DiskMayFill
  BY DEF DiskMayFill
<1>3. CASE Grows
  <2>1. <<lines + 1>> \in Seq(Nat) /\ Len(<<lines + 1>>) = 1
    BY <1>1
  <2>2. IsPrefix(Log, Log') /\ Len(Log') = Len(Log) + 1
    BY <1>1, <1>3, <2>1, PrefixOfConcat, ConcatProperties DEF Grows
  <2>3. /\ pc # "dead" /\ Len(Contents') \in Len(Contents)..Len(Log')
        /\ UNCHANGED <<pc # "dead", DiskMayFill>>
    BY <1>2, <1>3 DEF Grows
  <2>4. QED
    BY <2>2, <2>3 DEF Durable!Write, Durable!IsPrefix, IsPrefix, Log
<1>4. CASE Settles
  <2>1. CASE Contents' = Contents
    BY <1>2, <1>4, <2>1 DEF Settles, Log
  <2>2. CASE Contents' = Log /\ pc # "dead"
    <3>1. Len(Log) \in Len(Contents)..Len(Log)
      BY <1>1
    <3>2. Durable!Sync
      BY <1>2, <1>4, <2>2, <3>1 DEF Settles, Durable!Sync, Log
    <3>3. QED
      BY <3>2
  <2>3. QED
    BY <1>4, <2>1, <2>2 DEF Settles
<1>5. CASE LosesBuffer
  <2>1. IsPrefix(Contents, Log)
    BY <1>1, PrefixOfConcat DEF Log
  <2>2. Durable!LoseTail
    <3>1. /\ IsPrefix(Log', Log) /\ Len(Log') >= Len(Contents)
          /\ UNCHANGED <<Len(Contents), DiskMayFill>>
      BY <1>1, <1>2, <1>5, <2>1 DEF LosesBuffer
    <3>2. QED
      BY <3>1 DEF Durable!LoseTail, Durable!IsPrefix, IsPrefix, Log
  <2>3. Durable!Fail \/ Durable!Crash
    BY <1>2, <1>5, <2>2 DEF LosesBuffer, Durable!Fail, Durable!Crash
  <2>4. QED
    BY <2>3
<1>6. CASE Revives
  <2>1. Durable!Restart
    BY <1>2, <1>6 DEF Revives, Durable!Restart, Log
  <2>2. QED
    BY <2>1
<1>7. QED
  BY <1>3, <1>4, <1>5, <1>6

(* Every step of LogFile, through every roll, failed write and death of    *)
(* the process, is a step of DurableLog or leaves it alone (LogFile.cc:    *)
(* 54-105): no flushed line is ever lost, and no hole appears.             *)
THEOREM LogFileIsDurable == Spec => ImplementsDurableLog
<1>1. Init => Durable!Init
  BY EmptyAtFirst DEF Durable!Init, Log, DiskMayFill
<1>2. LogInv /\ [Next]_vars => [Durable!Next]_(Durable!logVars)
  BY LogMoves, MovesAreDurable DEF LogInv
<1>3. QED
  BY <1>1, <1>2, LogInvariant, PTL DEF Spec, ImplementsDurableLog, Durable!Spec
=============================================================================
