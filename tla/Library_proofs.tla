--------------------------- MODULE Library_proofs ---------------------------
(***************************************************************************)
(* Theorems about the parts a log line is made with, for any values of     *)
(* their constants.  Each part's module is extended as it stands, and no   *)
(* theorem of one uses another's.                                          *)
(*                                                                         *)
(* Logging: the cursor of a line stays inside its buffer, a line's time    *)
(* text is the one of its second, a fatal line is flushed.  Date and       *)
(* UtcTime agree with the calendar on every day of every year, and Date    *)
(* repeats every 400 years.  The digits of a number denote it, a timed     *)
(* wait lasts as long as it should, a small file is read whole and in      *)
(* order, an object in a ptr_vector has one owner, the comparisons of      *)
(* StringPiece are one order; a TimeZone applies the zone in force, and    *)
(* local time comes back; a quantity fits, rounded to the nearest text.    *)
(***************************************************************************)
EXTENDS Logging, Calendar, Convert, TimedWait, SmallFile, PtrVector,
        StringPiece, TimeZone, Units, SequenceTheorems, WellFoundedInduction, TLAPS

-----------------------------------------------------------------------------
(* Logging: types.                                                         *)

Streams == [data : Seq(Nat), length : 0..(kSmallBuffer - 1)]

Statements ==
  [id : Nat, level : LogLevels \cup {TRACE}, second : Nat,
   stamp : [second : Nat, zone : Zones], suffix : Zones, stream_ : Streams,
   pieces : Nat, said : Nat, free : Int, sink : Sinks, flushed : Sinks]

Types ==
  /\ now \in Nat /\ latest \in Nat /\ now <= latest
  /\ begun \in Nat /\ zoneSet \in Nat /\ zoneSet <= latest
  /\ g_output \in Sinks /\ g_flush \in Sinks /\ g_logTimeZone \in Zones
  /\ t_lastSecond \in [Threads -> Nat]
  /\ t_time \in [Threads -> [second : Nat, zone : Zones]]
  /\ pc \in [Threads -> {"idle", "format", "header", "stream", "output", "flush",
                         "abort", "aborted"}]
  /\ impl \in [Threads -> Statements]
  /\ buffered \in [Sinks -> SUBSET Nat] /\ durable \in SUBSET Nat

(* A text is copied whole, and only when the cursor stays inside.          *)
LEMMA TextKeepsInside ==
  ASSUME NEW b \in Streams, NEW piece \in Nat, NEW len \in Nat
  PROVE  Text(b, piece, len) \in Streams
<1>1. Append(b.data, piece) \in Seq(Nat)
  BY DEF Streams
<1>2. CASE kSmallBuffer - b.length > len
  <2>1. b.length + len \in 0..(kSmallBuffer - 1)
    BY <1>2, StreamAssumption DEF Streams
  <2> QED
    BY <1>1, <1>2, <2>1 DEF Text, Buf!append, Buf!avail, Streams
<1>3. CASE ~(kSmallBuffer - b.length > len)
  BY <1>3 DEF Text, Buf!append, Buf!avail
<1> QED
  BY <1>2, <1>3

(* A number is converted in place, kMaxNumericSize bytes being free.       *)
LEMMA NumberKeepsInside ==
  ASSUME NEW b \in Streams, NEW piece \in Nat, NEW len \in NumberLen
  PROVE  Number(b, piece, len) \in Streams
<1>1. Append(b.data, piece) \in Seq(Nat)
  BY DEF Streams
<1>2. CASE kSmallBuffer - b.length >= kMaxNumericSize
  <2>1. b.length + len \in 0..(kSmallBuffer - 1)
    BY <1>2, StreamAssumption, LoggingAssumption DEF Streams
  <2> QED
    BY <1>1, <1>2, <2>1 DEF Number, NumberFits, Buf!avail, Streams
<1>3. CASE ~(kSmallBuffer - b.length >= kMaxNumericSize)
  BY <1>3 DEF Number, NumberFits, Buf!avail
<1> QED
  BY <1>2, <1>3

LEMMA TrailerKeepsInside ==
  ASSUME NEW b \in Streams, NEW len \in NumberLen
  PROVE  Trailer(b, len) \in Streams
<1>1. BaseLen \in Nat /\ {Dash, Basename, Colon, LineNo, Newline} \subseteq Nat
  BY LoggingAssumption DEF Dash, Basename, Colon, LineNo, Newline
<1>2. Text(b, Dash, 3) \in Streams
  BY <1>1, TextKeepsInside
<1>3. Text(Text(b, Dash, 3), Basename, BaseLen) \in Streams
  BY <1>1, <1>2, TextKeepsInside
<1>4. Text(Text(Text(b, Dash, 3), Basename, BaseLen), Colon, 1) \in Streams
  BY <1>1, <1>3, TextKeepsInside
<1>5. Number(Text(Text(Text(b, Dash, 3), Basename, BaseLen), Colon, 1), LineNo, len)
        \in Streams
  BY <1>1, <1>4, NumberKeepsInside
<1> QED
  BY <1>1, <1>5, TextKeepsInside DEF Trailer

LEMMA NoStatementIsOne == NoStatement \in Statements
<1>1. << >> \in Seq(Nat) /\ 0 \in 0..(kSmallBuffer - 1)
  BY StreamAssumption
<1>2. NoText \in Streams
  BY <1>1 DEF NoText, Buf!Empty, Streams
<1> QED
  BY <1>2, LoggingAssumption DEF NoStatement, Statements, TRACE

(* Whatever comes, it comes as a piece of some length.                     *)
LEMMA StreamedOne ==
  ASSUME NEW t \in Threads, impl[t].stream_ \in Streams, Stream(t)
  PROVE  \E b \in Streams, len \in Nat : StreamIn(t, b, len)
<1>0. Operand \in Nat /\ TextLen \subseteq Nat /\ NumberLen \subseteq Nat
  BY LoggingAssumption, StreamAssumption DEF Operand
<1>1. ASSUME NEW len \in TextLen, StreamIn(t, Text(impl[t].stream_, Operand, len), len)
      PROVE  \E b \in Streams, l \in Nat : StreamIn(t, b, l)
  <2>1. Text(impl[t].stream_, Operand, len) \in Streams /\ len \in Nat
    BY <1>0, TextKeepsInside
  <2> QED
    BY <1>1, <2>1 DEF StreamIn
<1>2. ASSUME NEW len \in NumberLen, StreamIn(t, Number(impl[t].stream_, Operand, len), len)
      PROVE  \E b \in Streams, l \in Nat : StreamIn(t, b, l)
  <2>1. Number(impl[t].stream_, Operand, len) \in Streams /\ len \in Nat
    BY <1>0, NumberKeepsInside
  <2> QED
    BY <1>2, <2>1 DEF StreamIn
<1> QED
  BY <1>1, <1>2 DEF Stream

LEMMA TypesStart == Init => Types
<1> SUFFICES ASSUME Init PROVE Types
  OBVIOUS
<1> QED
  BY NoStatementIsOne, LoggingAssumption DEF Init, Types

LEMMA StatementKeepsTypes ==
  ASSUME Types, NEW t \in Threads, Statement(t)
  PROVE  Types'
<1> USE DEF Types, Goto, clock, globals, cache, sinks
<1>0. impl[t] \in Statements /\ impl[t].stream_ \in Streams /\ impl[t].id \in Nat
  BY DEF Statements
<1>1. ASSUME NEW level \in LogLevels, Construct(t, level) PROVE Types'
  <2>1. [NoStatement EXCEPT !.id = begun + 1, !.level = level, !.second = now] \in Statements
    <3>1. begun + 1 \in Nat /\ now \in Nat /\ level \in LogLevels \cup {TRACE}
      OBVIOUS
    <3> QED
      BY <3>1, NoStatementIsOne DEF Statements
  <2> QED
    BY <1>1, <2>1 DEF Construct
<1>2. ASSUME CacheTime(t) PROVE Types'
  <2>1. impl[t].second \in Nat
           /\ [second |-> impl[t].second, zone |-> g_logTimeZone] \in [second : Nat, zone : Zones]
    BY <1>0 DEF Statements
  <2>2. t_lastSecond' \in [Threads -> Nat] /\ t_time' \in [Threads -> [second : Nat, zone : Zones]]
    BY <1>2, <2>1 DEF CacheTime
  <2> QED
    BY <1>2, <2>2 DEF CacheTime
<1>3. ASSUME AddHeader(t) PROVE Types'
  <2>1. Text(impl[t].stream_, Header, HeaderLen) \in Streams
    BY <1>0, TextKeepsInside, LoggingAssumption DEF Header
  <2> DEFINE new == [impl[t] EXCEPT !.stamp = t_time[t], !.suffix = g_logTimeZone,
                       !.stream_ = Text(impl[t].stream_, Header, HeaderLen),
                       !.said = HeaderLen]
  <2>2. new \in Statements
    BY <1>0, <2>1, LoggingAssumption DEF Statements
  <2>3. impl' = [impl EXCEPT ![t] = new]
    BY <1>3 DEF AddHeader
  <2>4. UNCHANGED <<clock, globals, cache, sinks, begun>> /\ pc' = [pc EXCEPT ![t] = "stream"]
    BY <1>3 DEF AddHeader
  <2> HIDE DEF new
  <2> QED
    BY <2>2, <2>3, <2>4
<1>4. ASSUME Stream(t) PROVE Types'
  <2>1. PICK b \in Streams, len \in Nat : StreamIn(t, b, len)
    BY <1>0, <1>4, StreamedOne
  <2>2. [impl[t] EXCEPT !.stream_ = b, !.pieces = @ + 1, !.said = @ + len] \in Statements
    <3>1. impl[t].pieces \in Nat /\ impl[t].said \in Nat
      BY <1>0 DEF Statements
    <3>2. impl[t].pieces + 1 \in Nat /\ impl[t].said + len \in Nat
      BY <3>1
    <3> QED
      BY <1>0, <3>2 DEF Statements
  <2> QED
    BY <1>4, <2>1, <2>2 DEF Stream, StreamIn
<1>5. ASSUME Finish(t) PROVE Types'
  <2>1. PICK len \in NumberLen :
          impl' = [impl EXCEPT ![t].stream_ = Trailer(@, len),
                               ![t].free = Free(impl[t].stream_)]
    BY <1>5 DEF Finish
  <2>2. Trailer(impl[t].stream_, len) \in Streams
    BY <1>0, TrailerKeepsInside
  <2>3. Free(impl[t].stream_) \in Int
    BY <1>0, StreamAssumption DEF Free, Buf!avail, Streams
  <2>4. [impl[t] EXCEPT !.stream_ = Trailer(@, len), !.free = Free(impl[t].stream_)]
          \in Statements
    BY <1>0, <2>2, <2>3 DEF Statements
  <2> QED
    BY <1>5, <2>1, <2>4 DEF Finish
<1>6. ASSUME Output(t) PROVE Types'
  <2>1. [impl[t] EXCEPT !.sink = g_output] \in Statements
    BY <1>0 DEF Statements
  <2> QED
    BY <1>0, <1>6, <2>1 DEF Output
<1>7. ASSUME FatalFlush(t) PROVE Types'
  <2>1. [impl[t] EXCEPT !.flushed = g_flush] \in Statements
    BY <1>0 DEF Statements
  <2> QED
    BY <1>7, <2>1 DEF FatalFlush, FlushedBy
<1>8. ASSUME FatalAbort(t) PROVE Types'
  BY <1>8 DEF FatalAbort
<1> QED
  BY <1>1, <1>2, <1>3, <1>4, <1>5, <1>6, <1>7, <1>8 DEF Statement

LEMMA TypesGoOn == Types /\ [Next]_vars => Types'
<1> SUFFICES ASSUME Types, [Next]_vars PROVE Types'
  OBVIOUS
<1> USE DEF Types, clock, globals, cache, sinks
<1>1. CASE SetLogLevel \/ SetOutput \/ SetFlush
  BY <1>1 DEF SetLogLevel, SetOutput, SetFlush
<1>2. CASE SetTimeZone
  BY <1>2 DEF SetTimeZone
<1>3. CASE Tick \/ StepBack
  <2>1. /\ now' \in Nat /\ latest' \in Nat /\ now' <= latest' /\ latest <= latest'
        /\ UNCHANGED <<globals, cache, pc, impl, sinks, begun>>
    BY <1>3 DEF Tick, StepBack
  <2> QED
    BY <2>1
<1>4. CASE UNCHANGED vars
  BY <1>4 DEF vars
<1> QED
  BY <1>1, <1>2, <1>3, <1>4, StatementKeepsTypes DEF Next, Over

(* Whatever is written to a stream, and however little room is left, its   *)
(* cursor stays inside (LogStream.cc:62, 81 and 210, LogStream.h:41).      *)
THEOREM CursorStaysInside == Spec => []CursorInside
<1>1. Types => CursorInside
  BY DEF Types, Statements, Streams, CursorInside
<1> QED
  BY <1>1, TypesStart, TypesGoOn, PTL DEF Spec

-----------------------------------------------------------------------------
(* What finish() adds.                                                     *)

LEMMA FiveInARow ==
  ASSUME NEW d \in Seq(Nat), NEW m \in Nat \ {0}, Len(d) = m + 4
  PROVE  SubSeq(d, m, m + 4) = <<d[m], d[m + 1], d[m + 2], d[m + 3], d[m + 4]>>
<1> DEFINE s == SubSeq(d, m, m + 4)
           q == <<d[m], d[m + 1], d[m + 2], d[m + 3], d[m + 4]>>
<1>1. \A i \in m..(m + 4) : d[i] \in Nat
  OBVIOUS
<1>2. d[m] \in Nat /\ d[m + 1] \in Nat /\ d[m + 2] \in Nat /\ d[m + 3] \in Nat
      /\ d[m + 4] \in Nat
  BY <1>1
<1>3. /\ s \in Seq(Nat) /\ Len(s) = 5
      /\ s[1] = d[m] /\ s[2] = d[m + 1] /\ s[3] = d[m + 2] /\ s[4] = d[m + 3]
      /\ s[5] = d[m + 4]
  <2> DEFINE k == m + 4
  <2>1. m \in Int /\ k \in Int /\ m <= k /\ (k - m) + 1 = 5 /\ \A i \in m..k : d[i] \in Nat
    BY <1>1
  <2>2. /\ m + 1 - 1 = m /\ m + 2 - 1 = m + 1 /\ m + 3 - 1 = m + 2 /\ m + 4 - 1 = m + 3
        /\ m + 5 - 1 = m + 4
    OBVIOUS
  <2> HIDE DEF k
  <2>3. /\ SubSeq(d, m, k) \in Seq(Nat) /\ Len(SubSeq(d, m, k)) = 5
        /\ \A i \in 1..5 : SubSeq(d, m, k)[i] = d[m + i - 1]
    <3>1. /\ SubSeq(d, m, k) \in Seq(Nat)
          /\ Len(SubSeq(d, m, k)) = IF m <= k THEN k - m + 1 ELSE 0
          /\ \A i \in 1..(k - m + 1) : SubSeq(d, m, k)[i] = d[m + i - 1]
      BY <2>1, SMTT(30)
    <3> QED
      BY <2>1, <3>1
  <2> QED
    BY <2>2, <2>3 DEF k
<1>4. q \in Seq(Nat) /\ Len(q) = 5
  BY <1>2
<1> HIDE DEF s
<1>5. ASSUME NEW i \in 1..5 PROVE s[i] = q[i]
  <2>1. i = 1 \/ i = 2 \/ i = 3 \/ i = 4 \/ i = 5
    OBVIOUS
  <2>2. q[1] = d[m] /\ q[2] = d[m + 1] /\ q[3] = d[m + 2] /\ q[4] = d[m + 3]
        /\ q[5] = d[m + 4]
    OBVIOUS
  <2> HIDE DEF q
  <2> QED
    BY <1>3, <2>1, <2>2
<1>6. s = q
  BY <1>3, <1>4, <1>5, SeqEqual
<1> QED
  BY <1>6 DEF s

LEMMA TrailerIsWhole ==
  ASSUME NEW b \in Streams, NEW len \in NumberLen, Free(b) >= TrailerRoom
  PROVE  LET d == Trailer(b, len).data IN
           /\ SubSeq(d, Len(d) - 4, Len(d)) = <<Dash, Basename, Colon, LineNo, Newline>>
           /\ Len(d) = Len(b.data) + 5
<1> USE DEF Streams
<1> DEFINE b1 == Text(b, Dash, 3)
           b2 == Text(b1, Basename, BaseLen)
           b3 == Text(b2, Colon, 1)
           b4 == Number(b3, LineNo, len)
           b5 == Text(b4, Newline, 1)
           n  == Len(b.data)
<1>1. /\ BaseLen \in Nat /\ kSmallBuffer \in Nat /\ kMaxNumericSize \in Nat
      /\ kMaxNumericSize > 2 /\ len \in 1..(kMaxNumericSize - 2)
      /\ kSmallBuffer - b.length >= 4 + BaseLen + kMaxNumericSize
      /\ b.length \in Nat /\ b.data \in Seq(Nat) /\ n \in Nat
  BY StreamAssumption, LoggingAssumption DEF TrailerRoom, Free, Buf!avail
<1>2. b1 = [data |-> Append(b.data, Dash), length |-> b.length + 3]
  BY <1>1 DEF Text, Buf!append, Buf!avail
<1> HIDE DEF b1
<1>3. b2 = [data |-> Append(b1.data, Basename), length |-> b1.length + BaseLen]
  BY <1>1, <1>2 DEF Text, Buf!append, Buf!avail
<1> HIDE DEF b2
<1>4. b3 = [data |-> Append(b2.data, Colon), length |-> b2.length + 1]
  BY <1>1, <1>2, <1>3 DEF Text, Buf!append, Buf!avail
<1> HIDE DEF b3
<1>5. b4 = [data |-> Append(b3.data, LineNo), length |-> b3.length + len]
  BY <1>1, <1>2, <1>3, <1>4 DEF Number, NumberFits, Buf!avail
<1> HIDE DEF b4
<1>12. b4.length = b.length + 4 + BaseLen + len /\ kSmallBuffer - b4.length > 1
  <2>1. b1.length = b.length + 3 /\ b2.length = b1.length + BaseLen
    BY <1>2, <1>3
  <2>2. b3.length = b2.length + 1 /\ b4.length = b3.length + len
    BY <1>4, <1>5
  <2>3. b4.length = b.length + 4 + BaseLen + len
    BY <1>1, <2>1, <2>2
  <2>4. len <= kMaxNumericSize - 2 /\ b4.length \in Nat
    BY <1>1, <2>3
  <2> QED
    BY <1>1, <2>3, <2>4
<1>6. b5 = [data |-> Append(b4.data, Newline), length |-> b4.length + 1]
  BY <1>12 DEF Text, Buf!append, Buf!avail
<1>7. b5 = Trailer(b, len)
  BY DEF Trailer, b1, b2, b3, b4
<1> HIDE DEF b5
<1> DEFINE d == b5.data
<1>8. d = Append(Append(Append(Append(Append(b.data, Dash), Basename), Colon), LineNo),
                 Newline)
  BY <1>2, <1>3, <1>4, <1>5, <1>6
<1>9. /\ d \in Seq(Nat) /\ Len(d) = n + 5
      /\ d[n + 1] = Dash /\ d[n + 2] = Basename /\ d[n + 3] = Colon /\ d[n + 4] = LineNo
      /\ d[n + 5] = Newline
  BY <1>1, <1>8 DEF Dash, Basename, Colon, LineNo, Newline
<1> HIDE DEF d, n
<1>10. SubSeq(d, n + 1, n + 5) = <<d[n + 1], d[n + 2], d[n + 3], d[n + 4], d[n + 5]>>
  <2>1. n + 1 \in Nat \ {0} /\ Len(d) = (n + 1) + 4
    BY <1>1, <1>9
  <2>2. SubSeq(d, n + 1, (n + 1) + 4) =
          <<d[n + 1], d[(n + 1) + 1], d[(n + 1) + 2], d[(n + 1) + 3], d[(n + 1) + 4]>>
    BY <1>9, <2>1, FiveInARow
  <2>3. /\ (n + 1) + 1 = n + 2 /\ (n + 1) + 2 = n + 3 /\ (n + 1) + 3 = n + 4
        /\ (n + 1) + 4 = n + 5
    BY <1>1
  <2> QED
    BY <2>2, <2>3
<1>11. Len(d) - 4 = n + 1
  BY <1>1, <1>9
<1> QED
  BY <1>7, <1>9, <1>10, <1>11 DEF d, n

(* What fits together with the trailer is taken, text or number.           *)
LEMMA GoesIn ==
  ASSUME NEW b \in Streams, NEW piece \in Nat, NEW len \in Nat,
         b.length + len + TrailerRoom <= kSmallBuffer
  PROVE  LET c == [data |-> Append(b.data, piece), length |-> b.length + len] IN
           Text(b, piece, len) = c /\ Number(b, piece, len) = c
<1>1. /\ kSmallBuffer \in Nat /\ kMaxNumericSize \in Nat /\ BaseLen \in Nat
      /\ b.length \in Nat /\ TrailerRoom = 4 + BaseLen + kMaxNumericSize
  BY StreamAssumption, LoggingAssumption DEF Streams, TrailerRoom
<1>2. kSmallBuffer - b.length > len /\ kSmallBuffer - b.length >= kMaxNumericSize
  BY <1>1
<1> QED
  BY <1>2 DEF Text, Number, NumberFits, Buf!append, Buf!avail

(* As long as there is room for the trailer too, nothing was left out and  *)
(* the cursor stands behind all that was given.                            *)
AllIn(t) ==
  /\ pc[t] \in {"format", "header"} => impl[t].stream_ = NoText /\ impl[t].pieces = 0
  /\ impl[t].said + TrailerRoom <= kSmallBuffer =>
       /\ pc[t] = "stream" => /\ impl[t].stream_.length = impl[t].said
                              /\ Len(impl[t].stream_.data) = 1 + impl[t].pieces
       /\ Finished(t) => Len(impl[t].stream_.data) = 1 + impl[t].pieces + 5

TrailerIn(t) ==
  Finished(t) /\ impl[t].free >= TrailerRoom =>
    LET d == impl[t].stream_.data IN
      SubSeq(d, Len(d) - 4, Len(d)) = <<Dash, Basename, Colon, LineNo, Newline>>

LinesIn == \A t \in Threads : AllIn(t) /\ TrailerIn(t)

LEMMA HeaderGoesIn ==
  ASSUME Types, LinesIn, NEW t \in Threads, AddHeader(t)
  PROVE  AllIn(t)' /\ TrailerIn(t)'
<1> USE DEF Types, Goto
<1>1. impl[t] \in Statements /\ impl[t].stream_ = NoText /\ impl[t].pieces = 0
  BY DEF AddHeader, LinesIn, AllIn
<1>2. /\ impl'[t].stream_ = Text(NoText, Header, HeaderLen) /\ impl'[t].said = HeaderLen
      /\ impl'[t].pieces = 0 /\ pc'[t] = "stream"
  BY <1>1 DEF AddHeader, Statements
<1>3. Text(NoText, Header, HeaderLen) = [data |-> <<Header>>, length |-> HeaderLen]
  BY LoggingAssumption, StreamAssumption DEF Text, NoText, Buf!append, Buf!avail, Buf!Empty
<1>4. Len(<<Header>>) = 1
  BY DEF Header
<1> QED
  BY <1>2, <1>3, <1>4 DEF AllIn, TrailerIn, Finished

LEMMA OperandGoesIn ==
  ASSUME Types, LinesIn, NEW t \in Threads, Stream(t)
  PROVE  AllIn(t)' /\ TrailerIn(t)'
<1> USE DEF Types, Goto
<1>0. /\ impl[t] \in Statements /\ impl[t].stream_ \in Streams /\ impl[t].said \in Nat
      /\ impl[t].pieces \in Nat
  BY DEF Statements
<1>1. PICK len \in Nat :
        \/ StreamIn(t, Text(impl[t].stream_, Operand, len), len)
        \/ StreamIn(t, Number(impl[t].stream_, Operand, len), len)
  BY LoggingAssumption DEF Stream
<1> DEFINE b == impl[t].stream_
           c == [data |-> Append(b.data, Operand), length |-> b.length + len]
<1>2. /\ impl'[t].stream_ = Text(b, Operand, len) \/ impl'[t].stream_ = Number(b, Operand, len)
      /\ impl'[t].pieces = impl[t].pieces + 1 /\ impl'[t].said = impl[t].said + len
      /\ pc[t] = "stream" /\ pc'[t] = "stream"
  <2>1. pc[t] = "stream" /\ pc'[t] = "stream"
    BY DEF Stream
  <2>2. ASSUME NEW x, StreamIn(t, x, len)
        PROVE  /\ impl'[t].stream_ = x /\ impl'[t].pieces = impl[t].pieces + 1
               /\ impl'[t].said = impl[t].said + len
    BY <1>0, <2>2 DEF StreamIn, Statements
  <2> QED
    BY <1>1, <2>1, <2>2
<1>3. ASSUME impl[t].said + len + TrailerRoom <= kSmallBuffer
      PROVE  /\ impl'[t].stream_.length = impl'[t].said
             /\ Len(impl'[t].stream_.data) = 1 + impl'[t].pieces
  <2>1. TrailerRoom \in Nat /\ kSmallBuffer \in Nat /\ Operand \in Nat
    BY StreamAssumption, LoggingAssumption DEF TrailerRoom, Operand
  <2>2. impl[t].said + TrailerRoom <= kSmallBuffer
    BY <1>0, <1>3, <2>1
  <2>3. b.length = impl[t].said /\ Len(b.data) = 1 + impl[t].pieces
    BY <1>2, <2>2 DEF LinesIn, AllIn
  <2>4. impl'[t].stream_ = c
    BY <1>0, <1>2, <1>3, <2>1, <2>3, GoesIn
  <2>5. Len(c.data) = Len(b.data) + 1
    BY <1>0, <2>1 DEF Streams
  <2> QED
    BY <1>0, <1>2, <2>3, <2>4, <2>5
<1> QED
  BY <1>2, <1>3 DEF AllIn, TrailerIn, Finished

LEMMA TrailerGoesIn ==
  ASSUME Types, LinesIn, NEW t \in Threads, Finish(t)
  PROVE  AllIn(t)' /\ TrailerIn(t)'
<1> USE DEF Types, Goto
<1>0. /\ impl[t] \in Statements /\ impl[t].stream_ \in Streams /\ impl[t].said \in Nat
      /\ impl[t].pieces \in Nat
  BY DEF Statements
<1> DEFINE b == impl[t].stream_
<1>1. PICK len \in NumberLen :
        impl' = [impl EXCEPT ![t].stream_ = Trailer(@, len), ![t].free = Free(impl[t].stream_)]
  BY DEF Finish
<1>2. /\ impl'[t].stream_ = Trailer(b, len) /\ impl'[t].free = Free(b)
      /\ impl'[t].said = impl[t].said /\ impl'[t].pieces = impl[t].pieces
      /\ pc[t] = "stream" /\ pc'[t] = "output"
  BY <1>0, <1>1 DEF Finish, Statements
<1>3. TrailerIn(t)'
  BY <1>0, <1>2, TrailerIsWhole DEF TrailerIn
<1>4. ASSUME impl[t].said + TrailerRoom <= kSmallBuffer
      PROVE  Len(Trailer(b, len).data) = 1 + impl[t].pieces + 5
  <2>1. b.length = impl[t].said /\ Len(b.data) = 1 + impl[t].pieces
    BY <1>2, <1>4 DEF LinesIn, AllIn
  <2>2. Free(b) >= TrailerRoom
    <3>1. TrailerRoom \in Nat /\ kSmallBuffer \in Nat
      BY StreamAssumption, LoggingAssumption DEF TrailerRoom
    <3> QED
      BY <1>0, <1>4, <2>1, <3>1 DEF Free, Buf!avail
  <2>3. Len(Trailer(b, len).data) = Len(b.data) + 5
    BY <1>0, <2>2, TrailerIsWhole
  <2> QED
    BY <2>1, <2>3
<1> QED
  BY <1>2, <1>3, <1>4 DEF AllIn

LEMMA LinesKept ==
  ASSUME Types, LinesIn, [Next]_vars
  PROVE  LinesIn'
<1> SUFFICES ASSUME NEW u \in Threads PROVE AllIn(u)' /\ TrailerIn(u)'
  BY DEF LinesIn
<1>0. AllIn(u) /\ TrailerIn(u)
  BY DEF LinesIn
<1>1. ASSUME UNCHANGED <<impl[u].free, impl[u].stream_, impl[u].said, impl[u].pieces>>,
             Finished(u)' => Finished(u), pc'[u] = "stream" => pc[u] = "stream",
             pc'[u] \in {"format", "header"} => pc[u] \in {"format", "header"}
      PROVE  AllIn(u)' /\ TrailerIn(u)'
  BY <1>0, <1>1 DEF AllIn, TrailerIn
<1>2. ASSUME NEW t \in Threads, Statement(t) PROVE AllIn(u)' /\ TrailerIn(u)'
  <2> USE DEF Types, Goto, Finished
  <2>1. impl[t] \in Statements /\ impl[u] \in Statements
    OBVIOUS
  <2>2. ASSUME NEW level \in LogLevels, Construct(t, level)
        PROVE  AllIn(u)' /\ TrailerIn(u)'
    <3>1. CASE u # t
      BY <1>1, <2>2, <3>1 DEF Construct
    <3>2. CASE u = t
      <4>1. impl'[u].stream_ = NoText /\ impl'[u].pieces = 0 /\ pc'[u] = "format"
        BY <2>2, <3>2 DEF Construct, NoStatement
      <4> QED
        BY <4>1 DEF AllIn, TrailerIn
    <3> QED
      BY <3>1, <3>2
  <2>3. CASE CacheTime(t)
    BY <1>1, <2>3 DEF CacheTime
  <2>4. CASE AddHeader(t) /\ u = t
    BY <2>4, HeaderGoesIn
  <2>5. CASE Stream(t) /\ u = t
    BY <2>5, OperandGoesIn
  <2>6. CASE Finish(t) /\ u = t
    BY <2>6, TrailerGoesIn
  <2>7. CASE (AddHeader(t) \/ Stream(t) \/ Finish(t)) /\ u # t
    BY <1>1, <2>7 DEF AddHeader, Stream, StreamIn, Finish
  <2>8. CASE Output(t)
    BY <1>1, <2>1, <2>8 DEF Output, Statements
  <2>9. CASE FatalFlush(t)
    BY <1>1, <2>1, <2>9 DEF FatalFlush, Statements
  <2>10. CASE FatalAbort(t)
    BY <1>1, <2>10 DEF FatalAbort
  <2> QED
    BY <1>2, <2>2, <2>3, <2>4, <2>5, <2>6, <2>7, <2>8, <2>9, <2>10 DEF Statement
<1>3. ASSUME \/ SetLogLevel \/ SetOutput \/ SetFlush \/ SetTimeZone \/ Tick \/ StepBack
             \/ UNCHANGED vars
      PROVE  AllIn(u)' /\ TrailerIn(u)'
  BY <1>1, <1>3
     DEF SetLogLevel, SetOutput, SetFlush, SetTimeZone, Tick, StepBack, vars, Finished
<1> QED
  BY <1>2, <1>3 DEF Next, Over

(* A statement whose header and operands leave room for what finish() adds *)
(* is in its line with every piece, and whatever the operands were, what   *)
(* finish() adds is whole where it finds that room                         *)
(* (Logging.cc:164-167, LogStream.h:38-45, LogStream.cc:240-246).          *)
THEOREM ShortLinesAreWhole == Spec => []ShortLinesWhole
<1>1. Init => LinesIn
  BY DEF Init, LinesIn, AllIn, TrailerIn, Finished
<1>2. Types /\ LinesIn /\ [Next]_vars => LinesIn'
  BY LinesKept
<1>3. LinesIn => ShortLinesWhole
  BY DEF LinesIn, AllIn, TrailerIn, ShortLinesWhole
<1> QED
  BY <1>1, <1>2, <1>3, TypesStart, TypesGoOn, PTL DEF Spec

-----------------------------------------------------------------------------
(* The time text.                                                          *)

(* The cache is of one second, and of an older zone only when that second  *)
(* is not after the zone was set.                                          *)
CacheOf(t) ==
  /\ t_time[t].second = t_lastSecond[t] /\ t_lastSecond[t] <= latest
  /\ t_time[t].zone # g_logTimeZone => t_lastSecond[t] <= zoneSet
  /\ impl[t].second <= latest
  /\ pc[t] = "header" => t_lastSecond[t] = impl[t].second

StampOf(t) ==
  Stamped(t) =>
    /\ impl[t].stamp.second = impl[t].second
    /\ impl[t].stamp.zone # impl[t].suffix => impl[t].second <= zoneSet

TimeKnown == \A t \in Threads : CacheOf(t) /\ StampOf(t)

LEMMA TimeKept ==
  ASSUME Types, TimeKnown, [Next]_vars
  PROVE  TimeKnown'
<1> USE DEF Types, Goto, clock, globals, cache
<1> SUFFICES ASSUME NEW u \in Threads PROVE (CacheOf(u) /\ StampOf(u))'
  BY DEF TimeKnown
<1>0. /\ CacheOf(u) /\ StampOf(u) /\ impl[u] \in Statements /\ impl[u].second \in Nat
      /\ t_lastSecond[u] \in Nat
  BY DEF TimeKnown, Statements
<1>1. ASSUME NEW t \in Threads, Statement(t) PROVE (CacheOf(u) /\ StampOf(u))'
  <2>1. UNCHANGED <<now, latest, g_logTimeZone, zoneSet>>
    BY <1>1
       DEF Statement, Construct, CacheTime, AddHeader, Stream, Finish, Output, FatalFlush,
           FatalAbort
  <2>2. ASSUME UNCHANGED <<t_lastSecond[u], t_time[u], impl[u].second, impl[u].stamp,
                           impl[u].suffix>>,
               pc'[u] = "header" => pc[u] = "header", Stamped(u)' => Stamped(u)
        PROVE  (CacheOf(u) /\ StampOf(u))'
    BY <1>0, <2>1, <2>2 DEF CacheOf, StampOf
  <2> USE DEF Stamped
  <2>3. ASSUME NEW level \in LogLevels, Construct(t, level) PROVE (CacheOf(u) /\ StampOf(u))'
    <3>1. CASE u # t
      BY <2>2, <2>3, <3>1 DEF Construct
    <3>2. CASE u = t
      <4>1. impl'[u].second = now /\ pc'[u] = "format" /\ UNCHANGED <<t_lastSecond, t_time>>
        BY <2>3, <3>2 DEF Construct, NoStatement
      <4> QED
        BY <1>0, <2>1, <4>1 DEF CacheOf, StampOf
    <3> QED
      BY <3>1, <3>2
  <2>4. CASE CacheTime(t)
    <3>1. CASE u # t
      BY <2>2, <2>4, <3>1 DEF CacheTime
    <3>2. CASE u = t
      <4>1. impl' = impl /\ pc'[u] = "header"
        BY <2>4, <3>2 DEF CacheTime
      <4>2. \/ /\ t_lastSecond'[u] = impl[u].second
               /\ t_time'[u] = [second |-> impl[u].second, zone |-> g_logTimeZone]
            \/ UNCHANGED <<t_lastSecond, t_time>> /\ t_lastSecond[u] = impl[u].second
        BY <2>4, <3>2 DEF CacheTime, NewSecond
      <4> QED
        BY <1>0, <2>1, <4>1, <4>2 DEF CacheOf, StampOf
    <3> QED
      BY <3>1, <3>2
  <2>5. CASE AddHeader(t)
    <3>1. CASE u # t
      BY <2>2, <2>5, <3>1 DEF AddHeader
    <3>2. CASE u = t
      <4>1. /\ impl'[u].stamp = t_time[u] /\ impl'[u].suffix = g_logTimeZone
            /\ impl'[u].second = impl[u].second
            /\ pc[u] = "header" /\ pc'[u] = "stream" /\ UNCHANGED <<t_lastSecond, t_time>>
        BY <1>0, <2>5, <3>2 DEF AddHeader, Statements
      <4> QED
        BY <1>0, <2>1, <4>1 DEF CacheOf, StampOf
    <3> QED
      BY <3>1, <3>2
  <2>6. CASE Stream(t) \/ Finish(t)
    <3>1. /\ UNCHANGED <<t_lastSecond, t_time>> /\ pc[t] = "stream"
          /\ pc' = [pc EXCEPT ![t] = "stream"] \/ pc' = [pc EXCEPT ![t] = "output"]
      BY <2>6 DEF Stream, Finish
    <3>2. UNCHANGED <<impl[u].second, impl[u].stamp, impl[u].suffix>>
      <4>1. \E b, n, f : \/ impl' = [impl EXCEPT ![t].stream_ = b, ![t].pieces = @ + 1,
                                                 ![t].said = @ + n]
                         \/ impl' = [impl EXCEPT ![t].stream_ = b, ![t].free = f]
        BY <2>6 DEF Stream, StreamIn, Finish
      <4>2. PICK b, n, f : \/ impl' = [impl EXCEPT ![t].stream_ = b, ![t].pieces = @ + 1,
                                                   ![t].said = @ + n]
                           \/ impl' = [impl EXCEPT ![t].stream_ = b, ![t].free = f]
        BY <4>1
      <4>3. DOMAIN impl = Threads /\ impl[t] \in Statements /\ impl[u] \in Statements
        OBVIOUS
      <4>4. impl'[u] \in {impl[u],
                          [impl[u] EXCEPT !.stream_ = b, !.pieces = @ + 1, !.said = @ + n],
                          [impl[u] EXCEPT !.stream_ = b, !.free = f]}
        BY <4>2, <4>3
      <4> QED
        BY <4>3, <4>4 DEF Statements
    <3> QED
      BY <2>2, <3>1, <3>2
  <2>7. CASE Output(t)
    BY <1>0, <2>2, <2>7 DEF Output, Statements
  <2>8. CASE FatalFlush(t)
    BY <1>0, <2>2, <2>8 DEF FatalFlush, Statements
  <2>9. CASE FatalAbort(t)
    BY <2>2, <2>9 DEF FatalAbort
  <2> QED
    BY <1>1, <2>3, <2>4, <2>5, <2>6, <2>7, <2>8, <2>9 DEF Statement
<1>2. CASE SetTimeZone
  <2>1. zoneSet' = latest /\ UNCHANGED <<latest, t_lastSecond, t_time, pc, impl>>
    BY <1>2 DEF SetTimeZone
  <2> QED
    BY <1>0, <2>1 DEF CacheOf, StampOf, Stamped
<1>3. CASE Tick \/ StepBack
  <2>1. latest' \in Nat /\ latest <= latest' /\ UNCHANGED <<g_logTimeZone, zoneSet, t_lastSecond, t_time, pc, impl>>
    BY <1>3 DEF Tick, StepBack
  <2> QED
    BY <1>0, <2>1 DEF CacheOf, StampOf, Stamped
<1>4. CASE SetLogLevel \/ SetOutput \/ SetFlush \/ UNCHANGED vars
  <2>1. UNCHANGED <<latest, g_logTimeZone, zoneSet, t_lastSecond, t_time, pc, impl>>
    BY <1>4 DEF SetLogLevel, SetOutput, SetFlush, vars
  <2> QED
    BY <1>0, <2>1 DEF CacheOf, StampOf, Stamped
<1> QED
  BY <1>1, <1>2, <1>3, <1>4 DEF Next, Over

(* However statements of a thread, changes of the zone and the clock, set  *)
(* back or not, are interleaved (Logging.cc:137-162): a line shows its own *)
(* second, and a zone that is not its suffix's only if the clock had shown *)
(* that second, or a later one, when the zone was set.                     *)
THEOREM TimeTextIsOwn == Spec => []TimeTextIsItsOwn
<1>1. Init => TimeKnown
  <2> SUFFICES ASSUME Init, NEW t \in Threads PROVE CacheOf(t) /\ StampOf(t)
    BY DEF TimeKnown
  <2> QED
    BY DEF Init, CacheOf, StampOf, Stamped, NoStatement
<1>2. Types /\ TimeKnown /\ [Next]_vars => TimeKnown'
  BY TimeKept
<1>3. TimeKnown => TimeTextIsItsOwn
  BY DEF TimeKnown, StampOf, TimeTextIsItsOwn
<1> QED
  BY <1>1, <1>2, <1>3, TypesStart, TypesGoOn, PTL DEF Spec

-----------------------------------------------------------------------------
(* The line of a FATAL statement.                                          *)

(* It is in its sink until somebody flushes that.                          *)
LineSafe(t) ==
  /\ pc[t] = "flush" => impl[t].id \in buffered[impl[t].sink] \cup durable
  /\ pc[t] \in {"abort", "aborted"} /\ impl[t].sink = impl[t].flushed =>
       impl[t].id \in durable

LinesSafe == \A t \in Threads : LineSafe(t)

LEMMA LinesKeptSafe ==
  ASSUME Types, LinesSafe, [Next]_vars
  PROVE  LinesSafe'
<1> USE DEF Types, Goto, sinks
<1> SUFFICES ASSUME NEW u \in Threads PROVE LineSafe(u)'
  BY DEF LinesSafe
<1>0. LineSafe(u) /\ impl[u] \in Statements /\ impl[u].sink \in Sinks
  BY DEF LinesSafe, Statements
<1>1. ASSUME UNCHANGED <<pc[u], impl[u]>>,
             \A s \in Sinks : buffered[s] \subseteq buffered'[s] \cup durable',
             durable \subseteq durable'
      PROVE  LineSafe(u)'
  BY <1>0, <1>1 DEF LineSafe
<1>2. ASSUME NEW t \in Threads, Statement(t) PROVE LineSafe(u)'
  <2>1. ASSUME pc'[u] \notin {"flush", "abort", "aborted"} PROVE LineSafe(u)'
    BY <2>1 DEF LineSafe
  <2>2. ASSUME NEW level \in LogLevels, Construct(t, level) PROVE LineSafe(u)'
    BY <1>1, <2>1, <2>2 DEF Construct
  <2>3. CASE CacheTime(t) \/ AddHeader(t) \/ Stream(t) \/ Finish(t)
    BY <1>1, <2>1, <2>3 DEF CacheTime, AddHeader, Stream, StreamIn, Finish
  <2>4. CASE Output(t)
    <3>1. CASE u # t
      BY <1>1, <2>4, <3>1 DEF Output
    <3>2. CASE u = t
      <4>1. /\ impl[u].id \in buffered'[g_output] /\ impl'[u].id = impl[u].id
            /\ impl'[u].sink = g_output /\ pc'[u] \in {"flush", "idle"}
        BY <1>0, <2>4, <3>2 DEF Output, Statements
      <4> QED
        BY <4>1 DEF LineSafe
    <3> QED
      BY <3>1, <3>2
  <2>5. CASE FatalFlush(t)
    <3>1. /\ durable' = durable \cup buffered[g_flush]
          /\ buffered' = [buffered EXCEPT ![g_flush] = {}]
          /\ impl' = [impl EXCEPT ![t].flushed = g_flush]
          /\ pc[t] = "flush" /\ pc' = [pc EXCEPT ![t] = "abort"]
      BY <2>5 DEF FatalFlush, FlushedBy
    <3>2. CASE u # t
      BY <1>1, <3>1, <3>2
    <3>3. CASE u = t
      <4>1. /\ pc'[u] = "abort" /\ impl'[u].id = impl[u].id /\ impl'[u].sink = impl[u].sink
            /\ impl'[u].flushed = g_flush
        BY <1>0, <3>1, <3>3 DEF Statements
      <4> QED
        BY <1>0, <3>1, <3>3, <4>1 DEF LineSafe
    <3> QED
      BY <3>2, <3>3
  <2>6. CASE FatalAbort(t)
    BY <1>0, <2>6 DEF FatalAbort, LineSafe
  <2> QED
    BY <1>2, <2>2, <2>3, <2>4, <2>5, <2>6 DEF Statement
<1>3. ASSUME \/ SetLogLevel \/ SetOutput \/ SetFlush \/ SetTimeZone \/ Tick \/ StepBack
             \/ UNCHANGED vars
      PROVE  LineSafe(u)'
  BY <1>1, <1>3 DEF SetLogLevel, SetOutput, SetFlush, SetTimeZone, Tick, StepBack, vars
<1> QED
  BY <1>2, <1>3 DEF Next, Over

(* Whatever other threads log, flush or set meanwhile: when the output and *)
(* the flush of a FATAL statement went to the same sink, its line is       *)
(* durable before the process aborts (Logging.cc:190-199).                 *)
THEOREM FatalLineIsFlushed == Spec => []FatalLineFlushed
<1>1. Init => LinesSafe
  BY DEF Init, LinesSafe, LineSafe
<1>2. Types /\ LinesSafe /\ [Next]_vars => LinesSafe'
  BY LinesKeptSafe
<1>3. LinesSafe => FatalLineFlushed
  BY DEF LinesSafe, LineSafe, FatalLineFlushed
<1> QED
  BY <1>1, <1>2, <1>3, TypesStart, TypesGoOn, PTL DEF Spec

-----------------------------------------------------------------------------
(* Division of numbers that are not negative.                              *)

LEMMA Quotient ==
  ASSUME NEW a \in Nat, NEW k \in Nat \ {0}
  PROVE  /\ a \div k \in Nat /\ a % k \in 0..(k - 1)
         /\ a = (a \div k) * k + (a % k)
OBVIOUS

(* The quotient is the only one with a remainder below the divisor.         *)
LEMMA Division ==
  ASSUME NEW q \in Nat, NEW k \in Nat \ {0}, NEW z \in Nat, z < k, NEW n \in Int,
         n = k * q + z
  PROVE  n \div k = q
<1>1. n \in Nat
  OBVIOUS
<1> DEFINE x == n \div k
           r == n % k
<1>2. x \in Nat /\ r \in 0..(k - 1) /\ n = x * k + r
  BY <1>1, Quotient
<1> HIDE DEF x, r
<1>3. k * (x - q) = z - r
  BY <1>2
<1>4. CASE x > q
  <2>1. x - q \in Nat /\ x - q >= 1
    BY <1>2, <1>4
  <2>2. k * (x - q) >= k
    BY <2>1
  <2> QED
    BY <1>2, <1>3, <2>2
<1>5. CASE x < q
  <2>1. q - x \in Nat /\ q - x >= 1
    BY <1>2, <1>5
  <2>2. k * (q - x) >= k /\ k * (q - x) = r - z
    BY <1>2, <2>1
  <2> QED
    BY <1>2, <2>2
<1> QED
  BY <1>2, <1>4, <1>5 DEF x

-----------------------------------------------------------------------------
(* Date.                                                                   *)

Months == 1..12

(* 400 years later a date's number is 146097 higher (Date.cc:21-28).       *)
THEOREM NumberRepeats ==
  ASSUME NEW year \in Int, year >= -4799, NEW month \in Months, NEW day \in Int
  PROVE  getJulianDayNumber(year + 400, month, day) =
         getJulianDayNumber(year, month, day) + 146097
<1> DEFINE a == (14 - month) \div 12
           y == year + 4800 - a
<1>1. a \in 0..1 /\ y \in Nat
  BY DEF Months
<1> HIDE DEF a, y
<1>2. /\ (y + 400) \div 4 = y \div 4 + 100
      /\ (y + 400) \div 100 = y \div 100 + 4
      /\ (y + 400) \div 400 = y \div 400 + 1
  BY <1>1
<1>3. year + 400 + 4800 - a = y + 400
  BY <1>1 DEF y
<1> QED
  BY <1>1, <1>2, <1>3 DEF getJulianDayNumber, a, y, Months

(* 146097 days later is the same day of the same month, 400 years on       *)
(* (Date.cc:31-44).                                                        *)
THEOREM DateRepeats ==
  ASSUME NEW n \in Int, n >= -32044
  PROVE  getYearMonthDay(n + 146097) =
         [getYearMonthDay(n) EXCEPT !.year = @ + 400]
<1> DEFINE a(x) == x + 32044
           b(x) == (4 * a(x) + 3) \div 146097
           c(x) == a(x) - (b(x) * 146097) \div 4
           d(k) == (4 * k + 3) \div 1461
           e(k) == k - (1461 * d(k)) \div 4
           m(k) == (5 * e(k) + 2) \div 153
           ymd(century, k) == [year  |-> century * 100 + d(k) - 4800 + m(k) \div 10,
                               month |-> m(k) + 3 - 12 * (m(k) \div 10),
                               day   |-> e(k) - (153 * m(k) + 2) \div 5 + 1]
<1>1. /\ getYearMonthDay(n) = ymd(b(n), c(n))
      /\ getYearMonthDay(n + 146097) = ymd(b(n + 146097), c(n + 146097))
  BY DEF getYearMonthDay
<1>2. b(n) \in Int /\ b(n + 146097) = b(n) + 4
  OBVIOUS
<1>3. c(n + 146097) = c(n)
  BY <1>2
<1>4. c(n) \in Int
  BY <1>2
<1>5. ASSUME NEW century \in Int, NEW k \in Int
      PROVE  ymd(century + 4, k) = [ymd(century, k) EXCEPT !.year = @ + 400]
  <2>1. d(k) \in Int /\ m(k) \in Int
    OBVIOUS
  <2> HIDE DEF d, e, m
  <2> QED
    BY <2>1
<1> HIDE DEF b, c, ymd
<1> QED
  BY <1>1, <1>2, <1>3, <1>4, <1>5

(* The week does not shift: 146097 days are a whole number of weeks, so    *)
(* weekDay() repeats as well (Date.h:99-102).                              *)
THEOREM WeekDayRepeats ==
  ASSUME NEW n \in Nat
  PROVE  weekDay(n + 146097) = weekDay(n)
BY DEF weekDay, kDaysPerWeek

-----------------------------------------------------------------------------
(* Calendar.                                                               *)

(* The days of a year before a month.                                      *)
DaysBefore(year, month) ==
  CASE month = 1 -> 0
    [] month = 2 -> 31
    [] OTHER -> 31 + DaysIn(year, 2) + (153 * (month - 3) + 2) \div 5

LEMMA DayNumbers ==
  ASSUME NEW year \in Nat, NEW month \in Months, NEW day \in Int
  PROVE  getJulianDayNumber(year, month, day) \in Int
BY DEF getJulianDayNumber, Months

(* Days before: getJulianDayNumber() counts them the same way.             *)
LEMMA NumberInYear ==
  ASSUME NEW year \in Nat, NEW month \in Months, NEW day \in Int
  PROVE  getJulianDayNumber(year, month, day) =
         getJulianDayNumber(year, 1, 1) + DaysBefore(year, month) + day - 1
<1> DEFINE y == year + 4800
           n(a, m) == day + (153 * m + 2) \div 5 + (y - a) * 365 + (y - a) \div 4
                      - (y - a) \div 100 + (y - a) \div 400 - 32045
<1>1. CASE month = 1
  BY <1>1 DEF getJulianDayNumber, DaysBefore
<1>2. CASE month = 2
  BY <1>2 DEF getJulianDayNumber, DaysBefore
<1>3. CASE month >= 3
  <2>1. (14 - month) \div 12 = 0
    BY <1>3 DEF Months
  <2>2. y \in Nat /\ y % 4 = year % 4 /\ y % 100 = year % 100 /\ y % 400 = year % 400
    OBVIOUS
  <2>3. IF IsLeap(year)
          THEN y \div 4 - y \div 100 + y \div 400 =
                 (y - 1) \div 4 - (y - 1) \div 100 + (y - 1) \div 400 + 1
          ELSE y \div 4 - y \div 100 + y \div 400 =
                 (y - 1) \div 4 - (y - 1) \div 100 + (y - 1) \div 400
    <3>1. y % 4 = 0 => y \div 4 = (y - 1) \div 4 + 1
      BY <2>2
    <3>2. y % 4 # 0 => y \div 4 = (y - 1) \div 4
      BY <2>2
    <3>3. y % 100 = 0 => y \div 100 = (y - 1) \div 100 + 1
      BY <2>2
    <3>4. y % 100 # 0 => y \div 100 = (y - 1) \div 100
      BY <2>2
    <3>5. y % 400 = 0 => y \div 400 = (y - 1) \div 400 + 1
      BY <2>2
    <3>6. y % 400 # 0 => y \div 400 = (y - 1) \div 400
      BY <2>2
    <3>7. (y % 400 = 0 => y % 100 = 0) /\ (y % 100 = 0 => y % 4 = 0)
      BY <2>2
    <3>8. /\ (y - 1) \div 4 \in Int /\ (y - 1) \div 100 \in Int /\ (y - 1) \div 400 \in Int
      BY <2>2
    <3> HIDE DEF y
    <3> QED
      BY <2>2, <3>1, <3>2, <3>3, <3>4, <3>5, <3>6, <3>7, <3>8 DEF IsLeap
  <2>4. getJulianDayNumber(year, month, day) =
          day + (153 * (month - 3) + 2) \div 5 + y * 365 + y \div 4
              - y \div 100 + y \div 400 - 32045
    BY <2>1 DEF getJulianDayNumber, Months
  <2>5. getJulianDayNumber(year, 1, 1) =
          307 + (y - 1) * 365 + (y - 1) \div 4
              - (y - 1) \div 100 + (y - 1) \div 400 - 32045
    BY DEF getJulianDayNumber
  <2>6. DaysBefore(year, month) = (IF IsLeap(year) THEN 60 ELSE 59) + (153 * (month - 3) + 2) \div 5
    BY <1>3 DEF DaysBefore, DaysIn, Months
  <2>7. /\ y \div 4 \in Int /\ y \div 100 \in Int /\ y \div 400 \in Int
        /\ (y - 1) \div 4 \in Int /\ (y - 1) \div 100 \in Int /\ (y - 1) \div 400 \in Int
        /\ (153 * (month - 3) + 2) \div 5 \in Int /\ y \in Int
    BY <2>2 DEF Months
  <2> HIDE DEF y
  <2> QED
    BY <2>3, <2>4, <2>5, <2>6, <2>7
<1> QED
  BY <1>1, <1>2, <1>3 DEF Months

(* A year is as long as its calendar says.                                 *)
LEMMA NumberOfNewYear ==
  ASSUME NEW year \in Nat
  PROVE  getJulianDayNumber(year + 1, 1, 1) =
         getJulianDayNumber(year, 1, 1) + YearLength(year)
<1>1. getJulianDayNumber(year + 1, 1, 1) = getJulianDayNumber(year, 12, 32)
  BY DEF getJulianDayNumber
<1>2. DaysBefore(year, 12) + 31 = YearLength(year)
  BY DEF DaysBefore, DaysIn, YearLength
<1>3. getJulianDayNumber(year, 1, 1) \in Int /\ YearLength(year) \in Int
      /\ DaysBefore(year, 12) \in Int
  BY DayNumbers DEF Months, YearLength, DaysBefore, DaysIn
<1>4. getJulianDayNumber(year, 12, 32) = getJulianDayNumber(year, 1, 1) + DaysBefore(year, 12) + 32 - 1
  BY NumberInYear DEF Months
<1> QED
  BY <1>1, <1>2, <1>3, <1>4

(* A day that the calendar has.                                            *)
IsDay(date) ==
  /\ date \in [year : Nat, month : Months, day : Nat]
  /\ date.day >= 1 /\ date.day <= DaysIn(date.year, date.month)

(* getYearMonthDay() finds it again.  With the year beginning in March,    *)
(* a - 1 is 36524 days for every century and one for every fourth, R days  *)
(* of the century, in which a year has 365 days and every fourth one more. *)
LEMMA MarchDays ==
  ASSUME NEW day \in Nat, NEW m \in 0..11, day >= 1,
         IF m = 11 THEN day <= 29 ELSE IF m \in {1, 3, 6, 8} THEN day <= 30 ELSE day <= 31
  PROVE  LET e == day - 1 + (153 * m + 2) \div 5 IN
         /\ e \in 0..365 /\ (5 * e + 2) \div 153 = m
         /\ m # 11 \/ day <= 28 => e <= 364
<1> DEFINE e == day - 1 + (153 * m + 2) \div 5
<1>1. m \in {0, 1, 2, 3, 4, 5, 6, 7, 8, 9, 10, 11}
  OBVIOUS
<1> QED
  BY <1>1, SMTT(60)

(* The year after y, in which a year that began in March ends.             *)
EndsLeap(y) == (y + 1) % 4 = 0 /\ ((y + 1) % 100 # 0 \/ (y + 1) % 400 = 0)

LEMMA WholeCenturies ==
  ASSUME NEW B \in Nat, NEW R \in Nat, R <= 36524, R = 36524 => B % 4 = 3
  PROVE  LET a == 36524 * B + B \div 4 + R IN
         /\ (4 * a + 3) \div 146097 = B
         /\ a - (B * 146097) \div 4 = R
<1> DEFINE q == B \div 4
           w == B % 4
           a == 36524 * B + q + R
           z == 4 * R + 3 - w
<1>1. w \in {0, 1, 2, 3} /\ q \in Nat /\ B = 4 * q + w
  OBVIOUS
<1>2. R = 36524 => w = 3
  OBVIOUS
<1> HIDE DEF q, w
<1>3. a \in Int /\ 4 * a + 3 = 146097 * B + z /\ z \in Int
  BY <1>1
<1>4. z \in Nat /\ z < 146097
  BY <1>1, <1>2
<1>5. (B * 146097) \div 4 = 36524 * B + q
  BY <1>1
<1>6. a - (36524 * B + q) = R
  BY <1>1
<1> HIDE DEF a, z
<1>7. (4 * a + 3) \div 146097 = B
  BY <1>3, <1>4, Division
<1> QED
  BY <1>5, <1>6, <1>7 DEF a, q

LEMMA WholeYears ==
  ASSUME NEW Y \in 0..99, NEW e \in 0..365, e = 365 => Y % 4 = 3
  PROVE  LET c == 365 * Y + Y \div 4 + e IN
         /\ (4 * c + 3) \div 1461 = Y
         /\ c - (1461 * Y) \div 4 = e
         /\ c \in Nat /\ c <= 36524 /\ (c = 36524 => Y = 99 /\ e = 365)
<1> DEFINE q == Y \div 4
           w == Y % 4
           c == 365 * Y + q + e
           z == 4 * e + 3 - w
<1>1. w \in {0, 1, 2, 3} /\ q \in 0..24 /\ Y = 4 * q + w
  OBVIOUS
<1>2. e = 365 => w = 3
  OBVIOUS
<1> HIDE DEF q, w
<1>3. c \in Int /\ 4 * c + 3 = 1461 * Y + z /\ z \in Int
  BY <1>1
<1>4. z \in Nat /\ z < 1461
  BY <1>1, <1>2
<1>5. (1461 * Y) \div 4 = 365 * Y + q
  BY <1>1
<1>6. c - (365 * Y + q) = e /\ c \in Nat /\ c <= 36524
  BY <1>1
<1>7. c = 36524 => Y = 99 /\ e = 365
  <2>1. c = 365 * Y + q + e /\ Y <= 99 /\ q <= 24 /\ e <= 365 /\ Y \in Nat /\ q \in Nat /\ e \in Nat
    BY <1>1
  <2> HIDE DEF c
  <2> QED
    BY <2>1
<1> HIDE DEF c, z
<1>8. (4 * c + 3) \div 1461 = Y
  BY <1>3, <1>4, Division
<1> QED
  BY <1>5, <1>6, <1>8, <1>7 DEF c, q

(* n is the number of the day e of the month m of the year y.              *)
IsNumberOf(n, y, m, e) ==
  /\ n \in Int /\ y \in Nat /\ m \in 0..11 /\ e \in 0..365
  /\ n + 32044 = e + 365 * y + y \div 4 - y \div 100 + y \div 400
  /\ (5 * e + 2) \div 153 = m /\ (e = 365 => EndsLeap(y))

IsDateOf(date, y, m, e) ==
  /\ date.year = y - 4800 + m \div 10
  /\ date.month = m + 3 - 12 * (m \div 10)
  /\ date.day = e - (153 * m + 2) \div 5 + 1
  /\ date = Ymd(date.year, date.month, date.day)

LEMMA CenturyDays ==
  ASSUME NEW n, NEW y, NEW m, NEW e, IsNumberOf(n, y, m, e)
  PROVE  IsDateOf(getYearMonthDay(n), y, m, e)
<1> DEFINE a == n + 32044
           B == y \div 100
           Y == y % 100
           R == 365 * Y + Y \div 4 + e
           b == (4 * a + 3) \div 146097
           c == a - (b * 146097) \div 4
           d == (4 * c + 3) \div 1461
           f == c - (1461 * d) \div 4
           g == (5 * f + 2) \div 153
           x == b * 100 + d
           date == getYearMonthDay(n)
<1>1. /\ n \in Int /\ y \in Nat /\ m \in 0..11 /\ e \in 0..365
       /\ a = e + 365 * y + y \div 4 - y \div 100 + y \div 400
       /\ (5 * e + 2) \div 153 = m /\ (e = 365 => EndsLeap(y))
  BY DEF IsNumberOf
<1>2. B \in Nat /\ Y \in 0..99 /\ y = 100 * B + Y
  BY <1>1
<1>3. y \div 4 = 25 * B + Y \div 4 /\ y \div 400 = B \div 4
  BY <1>1
<1>4. e = 365 => Y % 4 = 3 /\ (Y = 99 => B % 4 = 3)
  BY <1>1 DEF EndsLeap
<1>5. /\ date.year = x - 4800 + g \div 10
       /\ date.month = g + 3 - 12 * (g \div 10)
       /\ date.day = f - (153 * g + 2) \div 5 + 1
       /\ date = Ymd(date.year, date.month, date.day)
  BY <1>1 DEF getYearMonthDay, Ymd
<1> HIDE DEF date, x
<1>6. a = 36524 * B + B \div 4 + R
  BY <1>2, <1>3, <1>1
<1> HIDE DEF B, Y, a
<1>7. /\ R \in Nat /\ R <= 36524 /\ (R = 36524 => B % 4 = 3)
      /\ (4 * R + 3) \div 1461 = Y /\ R - (1461 * Y) \div 4 = e
  BY <1>2, <1>4, <1>1, WholeYears
<1> HIDE DEF R
<1>8. b = B /\ a - (B * 146097) \div 4 = R
  BY <1>2, <1>6, <1>7, WholeCenturies
<1> HIDE DEF b
<1>9. c = R
  BY <1>8
<1> HIDE DEF c
<1>10. d = Y
  BY <1>7, <1>9
<1> HIDE DEF d
<1>11. f = e /\ x = y
  BY <1>2, <1>7, <1>8, <1>9, <1>10 DEF x
<1> HIDE DEF f
<1>12. g = m
  BY <1>11, <1>1
<1> HIDE DEF g
<1> QED
  BY <1>11, <1>5, <1>12 DEF date, IsDateOf

LEMMA DateIsFound ==
  ASSUME NEW date, IsDay(date)
  PROVE  getYearMonthDay(getJulianDayNumber(date.year, date.month, date.day)) = date
<1> DEFINE month == date.month
           day   == date.day
           a == (14 - month) \div 12
           y == date.year + 4800 - a
           m == month + 12 * a - 3
           e == day - 1 + (153 * m + 2) \div 5
           n == getJulianDayNumber(date.year, month, day)
<1>1. /\ date = Ymd(date.year, month, day) /\ date.year \in Nat /\ month \in 1..12
      /\ day \in Nat /\ day >= 1 /\ day <= DaysIn(date.year, month)
  BY DEF IsDay, Ymd, Months
<1> HIDE DEF month, day
<1>2. /\ a = (IF month <= 2 THEN 1 ELSE 0) /\ m \in 0..11 /\ y \in Nat
      /\ month = m + 3 - 12 * (m \div 10) /\ m \div 10 = a
  BY <1>1
<1>3. IF m = 11 THEN day <= 29 ELSE IF m \in {1, 3, 6, 8} THEN day <= 30 ELSE day <= 31
  BY <1>1 DEF DaysIn
<1>4. m = 11 /\ day = 29 => EndsLeap(y)
  <2> SUFFICES ASSUME m = 11, day = 29 PROVE EndsLeap(y)
    OBVIOUS
  <2>1. month = 2 /\ y + 1 = date.year + 4800
    BY <1>1
  <2>2. IsLeap(date.year)
    BY <1>1, <2>1 DEF DaysIn
  <2> QED
    BY <1>1, <2>1, <2>2 DEF IsLeap, EndsLeap
<1> HIDE DEF m, y, a
<1>5. e \in 0..365 /\ (5 * e + 2) \div 153 = m /\ (m # 11 \/ day <= 28 => e <= 364)
  BY <1>1, <1>2, <1>3, MarchDays
<1>6. e = 365 => EndsLeap(y)
  BY <1>1, <1>3, <1>4, <1>5
<1>7. /\ n + 32044 = e + 365 * y + y \div 4 - y \div 100 + y \div 400
      /\ n \in Int
  <2>1. n = day + (153 * m + 2) \div 5 + y * 365 + y \div 4 - y \div 100 + y \div 400 - 32045
    BY DEF getJulianDayNumber, m, y, a
  <2> HIDE DEF n
  <2> QED
    BY <1>1, <1>2, <2>1
<1>8. e - (153 * m + 2) \div 5 + 1 = day
  BY <1>1, <1>2
<1> HIDE DEF e, n
<1> DEFINE found == getYearMonthDay(n)
<1>9. IsDateOf(found, y, m, e)
  <2>1. IsNumberOf(n, y, m, e)
    BY <1>2, <1>5, <1>6, <1>7 DEF IsNumberOf
  <2> QED
    BY <2>1, CenturyDays
<1> HIDE DEF found
<1>10. found = Ymd(y - 4800 + a, month, day)
  BY <1>2, <1>8, <1>9 DEF IsDateOf
<1>11. y - 4800 + a = date.year
  BY <1>1, <1>2 DEF y
<1> QED
  BY <1>1, <1>10, <1>11 DEF month, day, n, found

-----------------------------------------------------------------------------
(* The walk is on a day of the calendar, whose number is julianDay.        *)
CalendarInv ==
  /\ IsDay(today)
  /\ julianDay = getJulianDayNumber(today.year, today.month, today.day)
  /\ weekday = weekDay(julianDay)
  /\ dayOfYear = DaysBefore(today.year, today.month) + today.day - 1

(* The length of the months against that of the year.                      *)
LEMMA Months12 ==
  ASSUME NEW year \in Nat, NEW month \in Months
  PROVE  /\ DaysBefore(year, month) \in Nat /\ DaysIn(year, month) \in 1..31
         /\ YearLength(year) \in 365..366
         /\ month = 12 => DaysBefore(year, month) + 31 = YearLength(year)
         /\ month < 12 => DaysBefore(year, month + 1) = DaysBefore(year, month)
                                                        + DaysIn(year, month)
         /\ month > 1 => DaysBefore(year, month) > 0
<1>1. month \in {1, 2, 3, 4, 5, 6, 7, 8, 9, 10, 11, 12}
  BY DEF Months
<1> QED
  BY <1>1 DEF DaysBefore, DaysIn, YearLength

LEMMA CalendarGoesOn == ASSUME CalendarInv, [CalendarNext]_calendar PROVE CalendarInv'
<1> DEFINE year  == today.year
           month == today.month
           day   == today.day
           n     == getJulianDayNumber(year, 1, 1)
<1>1. /\ today = Ymd(year, month, day) /\ year \in Nat /\ month \in Months
      /\ day \in Nat /\ day >= 1 /\ day <= DaysIn(year, month)
  BY DEF CalendarInv, IsDay, Ymd
<1>2. /\ DaysBefore(year, month) \in Nat /\ DaysIn(year, month) \in 1..31
      /\ YearLength(year) \in 365..366
      /\ month = 12 => DaysBefore(year, month) + 31 = YearLength(year)
      /\ month < 12 => DaysBefore(year, month + 1) = DaysBefore(year, month)
                                                     + DaysIn(year, month)
      /\ month > 1 => DaysBefore(year, month) > 0
  BY <1>1, Months12
<1>3. /\ julianDay = n + DaysBefore(year, month) + day - 1 /\ n \in Int
      /\ weekday = (julianDay + 1) % 7
      /\ dayOfYear = DaysBefore(year, month) + day - 1
  <2> HIDE DEF n
  <2>1. getJulianDayNumber(year, month, day) = n + DaysBefore(year, month) + day - 1
    BY <1>1, NumberInYear DEF n
  <2>2. n \in Int
    <3>1. 1 \in Months /\ 1 \in Int
      BY DEF Months
    <3> QED
      BY <1>1, <3>1, DayNumbers DEF n
  <2> QED
    BY <2>1, <2>2 DEF CalendarInv, weekDay, kDaysPerWeek
<1> HIDE DEF year, month, day, n
<1>4. CASE UNCHANGED calendar
  BY <1>4 DEF CalendarInv, calendar
<1>5. CASE Tomorrow
  <2>1. /\ dayOfYear + 1 < YearLength(year)
        /\ julianDay' = julianDay + 1 /\ dayOfYear' = dayOfYear + 1
        /\ weekday' = (weekday + 1) % 7
    BY <1>5 DEF Tomorrow, year
  <2>2. weekday' = (julianDay' + 1) % 7
    BY <1>2, <1>3, <2>1
  <2>3. CASE day < DaysIn(year, month)
    <3>1. today' = Ymd(year, month, day + 1)
      BY <1>1, <1>5, <2>3 DEF Tomorrow, Ymd, year, month, day
    <3>2. getJulianDayNumber(year, month, day + 1) = n + DaysBefore(year, month) + (day + 1) - 1
      BY <1>1, NumberInYear DEF n
    <3> QED
      BY <1>1, <1>2, <1>3, <2>1, <2>2, <2>3, <3>1, <3>2
         DEF CalendarInv, IsDay, Ymd, weekDay, kDaysPerWeek
  <2>4. CASE ~(day < DaysIn(year, month))
    <3>1. today' = Ymd(year, month + 1, 1) /\ day = DaysIn(year, month)
      BY <1>1, <1>2, <1>5, <2>4 DEF Tomorrow, year, month, day
    <3>2. month < 12 /\ month + 1 \in Months
      BY <1>1, <1>2, <1>3, <2>1, <3>1 DEF Months, DaysIn
    <3>3. /\ DaysIn(year, month + 1) >= 1
          /\ getJulianDayNumber(year, month + 1, 1) = n + DaysBefore(year, month + 1) + 1 - 1
      <4> DEFINE next == month + 1
      <4>1. next \in Months /\ 1 \in Int
        BY <3>2
      <4> HIDE DEF next
      <4>2. DaysIn(year, next) >= 1
        BY <1>1, <4>1, Months12
      <4>3. getJulianDayNumber(year, next, 1) = n + DaysBefore(year, next) + 1 - 1
        BY <1>1, <4>1, NumberInYear DEF n
      <4> QED
        BY <4>2, <4>3 DEF next
    <3> QED
      BY <1>1, <1>2, <1>3, <2>1, <2>2, <3>1, <3>2, <3>3
         DEF CalendarInv, IsDay, Ymd, weekDay, kDaysPerWeek
  <2> QED
    BY <2>3, <2>4
<1>6. IsNewYear => month = 1 /\ day = 1 /\ julianDay = n
  <2>1. ASSUME IsNewYear PROVE DaysBefore(year, month) = 0 /\ day = 1 /\ julianDay = n
    BY <1>1, <1>2, <1>3, <2>1 DEF IsNewYear
  <2> QED
    BY <1>1, <1>2, <2>1 DEF Months
<1>7. \A x \in Nat : IsDay(Ymd(x, 1, 1)) /\ DaysBefore(x, 1) = 0
  BY DEF IsDay, Ymd, DaysIn, DaysBefore, Months
<1>8. CASE NextYear
  <2>1. /\ today' = Ymd(year + 1, 1, 1) /\ julianDay' = n + YearLength(year)
        /\ weekday' = (weekday + YearLength(year)) % 7 /\ dayOfYear' = 0
        /\ julianDay = n
    BY <1>6, <1>8 DEF NextYear, IsNewYear, year
  <2>2. getJulianDayNumber(year + 1, 1, 1) = n + YearLength(year) /\ year + 1 \in Nat
    BY <1>1, NumberOfNewYear DEF n
  <2>3. weekday' = (julianDay' + 1) % 7
    BY <1>2, <1>3, <2>1
  <2> QED
    BY <1>7, <2>1, <2>2, <2>3 DEF CalendarInv, Ymd, weekDay, kDaysPerWeek
<1>9. CASE PreviousYear
  <2>1. /\ today' = Ymd(year - 1, 1, 1) /\ julianDay' = n - YearLength(year - 1)
        /\ weekday' = (weekday - YearLength(year - 1)) % 7 /\ dayOfYear' = 0
        /\ julianDay = n /\ year - 1 \in Nat
    BY <1>1, <1>6, <1>9, YearsAssumption DEF PreviousYear, IsNewYear, year
  <2>2. /\ getJulianDayNumber(year, 1, 1) = getJulianDayNumber(year - 1, 1, 1)
                                            + YearLength(year - 1)
        /\ getJulianDayNumber(year - 1, 1, 1) \in Int /\ YearLength(year - 1) \in 365..366
    <3>1. (year - 1) + 1 = year
      BY <1>1
    <3> QED
      <4> DEFINE last == year - 1
      <4>1. last \in Nat /\ 1 \in Months /\ 1 \in Int
        BY <2>1 DEF Months
      <4>2. getJulianDayNumber(last + 1, 1, 1) = getJulianDayNumber(last, 1, 1) + YearLength(last)
        BY <4>1, NumberOfNewYear
      <4>3. YearLength(last) \in 365..366
        BY <4>1, Months12
      <4>4. getJulianDayNumber(last, 1, 1) \in Int
        BY <4>1, DayNumbers
      <4> HIDE DEF last
      <4> QED
        BY <3>1, <4>2, <4>3, <4>4 DEF last
  <2>3. weekday' = (julianDay' + 1) % 7
    BY <1>2, <1>3, <2>1, <2>2
  <2>4. getJulianDayNumber(year - 1, 1, 1) = julianDay'
    BY <2>1, <2>2 DEF n
  <2> QED
    BY <1>7, <2>1, <2>3, <2>4 DEF CalendarInv, Ymd, weekDay, kDaysPerWeek
<1> QED
  BY <1>4, <1>5, <1>8, <1>9 DEF CalendarNext, YearEnds

(* Date agrees with the calendar on every day of every year that the walk  *)
(* reaches, in both directions and on the day of the week, however far the *)
(* years are apart (Date.cc:21-44).                                        *)
THEOREM DatesAreRight == CalendarSpec => []DateOfEveryDay
<1>1. CalendarInit => CalendarInv
  BY DEF CalendarInit, CalendarInv, IsDay, Ymd, Months, DaysIn, DaysBefore, weekDay,
         kDaysPerWeek, getJulianDayNumber
<1>2. CalendarInv => DateOfEveryDay
  BY DateIsFound DEF CalendarInv, DateOfEveryDay
<1> QED
  BY <1>1, <1>2, CalendarGoesOn, PTL DEF CalendarSpec

-----------------------------------------------------------------------------
(* toUtcTime() and fromUtcTime().                                          *)

(* / rounds to 0: before 1970 the day and the second are corrected.        *)
LEMMA WholeDays ==
  ASSUME NEW D \in Nat \ {0}, NEW N \in Int, NEW z \in 0..(D - 1), NEW n \in Int,
         n = D * N + z
  PROVE  /\ Quot(n, D) = (IF N < 0 /\ z > 0 THEN N + 1 ELSE N)
         /\ Rem(n, D) = (IF N < 0 /\ z > 0 THEN z - D ELSE z)
<1>1. CASE N >= 0
  <2>1. N \in Nat /\ z \in Nat /\ z < D
    BY <1>1
  <2>2. D * N >= 0 /\ D * N \in Int
    BY <2>1
  <2>3. n >= 0
    BY <2>1, <2>2
  <2>4. n \div D = N
    BY <2>1, Division
  <2> QED
    BY <1>1, <2>1, <2>2, <2>3, <2>4 DEF Quot, Rem
<1>2. CASE N < 0 /\ z = 0
  <2>1. -N \in Nat /\ -N >= 1 /\ -n = D * (-N) + 0 /\ 0 < D /\ -n \in Int /\ 0 \in Nat
    BY <1>2
  <2>2. D * (-N) >= 1
    BY <2>1
  <2>3. ~(n >= 0)
    BY <2>1, <2>2
  <2>4. (-n) \div D = -N
    BY <2>1, Division
  <2>5. Quot(n, D) = N
    BY <1>2, <2>3, <2>4 DEF Quot
  <2>6. n - D * N = 0
    BY <1>2
  <2> QED
    BY <1>2, <2>5, <2>6 DEF Rem
<1>3. CASE N < 0 /\ z > 0
  <2> DEFINE q == -N - 1
             w == D - z
  <2>1. q \in Nat /\ w \in Nat /\ w < D /\ w >= 1 /\ -n \in Int
    BY <1>3
  <2>2. D * q \in Nat /\ D * N = -(D * q) - D
    BY <2>1
  <2>3. -n = D * q + w
    BY <2>1, <2>2
  <2>4. ~(n >= 0)
    BY <2>1, <2>2, <2>3
  <2> HIDE DEF q, w
  <2>5. (-n) \div D = q
    BY <2>1, <2>3, Division
  <2>6. Quot(n, D) = N + 1
    BY <2>4, <2>5 DEF Quot, q
  <2>7. D * (N + 1) = D * N + D
    OBVIOUS
  <2>8. n - D * (N + 1) = z - D
    BY <2>2, <2>7
  <2> QED
    BY <1>3, <2>6, <2>8 DEF Rem
<1> QED
  BY <1>1, <1>2, <1>3

LEMMA DayLength == kSecondsPerDay \in Nat \ {0}
<1>1. SecondsPerHour \in Nat \ {0}
  BY ClockAssumption DEF SecondsPerHour
<1> QED
  BY <1>1, ClockAssumption DEF kSecondsPerDay

(* Every second is a second of one day.                                    *)
LEMMA DayAndSecond ==
  ASSUME NEW N \in Int, NEW z \in 0..(kSecondsPerDay - 1), NEW n, n = N * kSecondsPerDay + z
  PROVE  DayOf(n) = N /\ SecondOf(n) = z
<1> DEFINE D == kSecondsPerDay
<1>1. D \in Nat \ {0}
  BY DayLength
<1> HIDE DEF D
<1>2. n \in Int /\ n = D * N + z /\ z \in 0..(D - 1)
  BY <1>1 DEF D
<1>3. /\ Quot(n, D) = (IF N < 0 /\ z > 0 THEN N + 1 ELSE N)
      /\ Rem(n, D) = (IF N < 0 /\ z > 0 THEN z - D ELSE z)
  BY <1>1, <1>2, WholeDays
<1>4. DayOf(n) = Quot(n, D) - (IF Rem(n, D) < 0 THEN 1 ELSE 0)
  BY DEF DayOf, D
<1>5. SecondOf(n) = (IF Rem(n, D) < 0 THEN Rem(n, D) + D ELSE Rem(n, D))
  BY DEF SecondOf, D
<1> QED
  BY <1>1, <1>2, <1>3, <1>4, <1>5

(* The hours, minutes and seconds add up again.                            *)
LEMMA ClockAddsUp ==
  ASSUME NEW z \in Nat
  PROVE  LET time == fillHMS(z)
         IN time.hour * SecondsPerHour + time.min * SecondsPerMinute + time.sec = z
<1> DEFINE S == SecondsPerMinute
           M == MinutesPerHour
           minutes == z \div S
           hour == minutes \div M
           min == minutes % M
           sec == z % S
<1>1. S \in Nat \ {0} /\ M \in Nat \ {0}
  BY ClockAssumption
<1>2. /\ fillHMS(z).hour = hour /\ fillHMS(z).min = min /\ fillHMS(z).sec = sec
      /\ SecondsPerHour = M * S
  BY DEF fillHMS, SecondsPerHour
<1> HIDE DEF S, M
<1>3. minutes \in Nat /\ sec \in 0..(S - 1) /\ z = minutes * S + sec
  BY <1>1, Quotient
<1> HIDE DEF minutes, sec
<1>4. hour \in Nat /\ min \in 0..(M - 1) /\ minutes = hour * M + min
  BY <1>1, <1>3, Quotient
<1> HIDE DEF hour, min
<1>5. hour * (M * S) + min * S = (hour * M + min) * S
  BY <1>1, <1>3, <1>4
<1>6. hour * (M * S) \in Int /\ min * S \in Int
  BY <1>1, <1>3, <1>4
<1> QED
  BY <1>2, <1>3, <1>4, <1>5, <1>6 DEF S

LEMMA UtcIsThere == ASSUME CalendarInv PROVE UtcRoundTrip
<1> DEFINE D == kSecondsPerDay
           N == julianDay - kJulianDayOf1970_01_01
<1> SUFFICES ASSUME NEW z \in 0..(D - 1)
             PROVE  LET n  == N * D + z
                        tm == toUtcTime(n)
                    IN /\ tm.date = today /\ tm.wday = weekday /\ tm.yday = dayOfYear
                       /\ fromUtcTime(tm) = n
  BY DEF UtcRoundTrip
<1> DEFINE n == N * D + z
           tm == toUtcTime(n)
<1>1. D \in Nat \ {0} /\ z \in Nat
  BY DayLength
<1>2. kJulianDayOf1970_01_01 \in Int
  BY DEF kJulianDayOf1970_01_01, getJulianDayNumber
<1>3. /\ today.year \in Nat /\ today.month \in Months /\ today.day \in Int
      /\ IsDay(today) /\ 1 \in Months /\ 1 \in Int
  BY DEF CalendarInv, IsDay, Months
<1>4. julianDay = getJulianDayNumber(today.year, today.month, today.day) /\ julianDay \in Int
  BY <1>3, DayNumbers DEF CalendarInv
<1>5. DayOf(n) = N /\ SecondOf(n) = z
  BY <1>2, <1>4, DayAndSecond
<1>6. DayOf(n) + kJulianDayOf1970_01_01 = julianDay
  BY <1>2, <1>4, <1>5
<1>7. getYearMonthDay(julianDay) = today
  BY <1>3, <1>4, DateIsFound
<1>8. julianDay - getJulianDayNumber(today.year, 1, 1) = dayOfYear
  <2>1. /\ getJulianDayNumber(today.year, today.month, today.day) =
             getJulianDayNumber(today.year, 1, 1) + DaysBefore(today.year, today.month)
               + today.day - 1
        /\ getJulianDayNumber(today.year, 1, 1) \in Int
    BY <1>3, NumberInYear, DayNumbers
  <2>2. DaysBefore(today.year, today.month) \in Nat
    BY <1>3, Months12
  <2>3. dayOfYear = DaysBefore(today.year, today.month) + today.day - 1
    BY DEF CalendarInv
  <2> QED
    BY <1>3, <1>4, <2>1, <2>2, <2>3
<1> HIDE DEF N, D, n
<1>9. /\ tm.date = today /\ tm.time = fillHMS(z) /\ tm.wday = weekDay(julianDay)
      /\ tm.yday = dayOfYear
  BY <1>5, <1>6, <1>7, <1>8 DEF toUtcTime
<1> HIDE DEF tm
<1>10. fromUtcTime(tm) = N * D + z
  <2> DEFINE time == fillHMS(z)
  <2>1. time.hour * SecondsPerHour + time.min * SecondsPerMinute + time.sec = z
    BY <1>1, ClockAddsUp
  <2>2. fromUtcTime(tm) =
          (getJulianDayNumber(today.year, today.month, today.day) - kJulianDayOf1970_01_01) * D
            + (time.hour * SecondsPerHour + time.min * SecondsPerMinute + time.sec)
    BY <1>9 DEF fromUtcTime, D
  <2> HIDE DEF time
  <2> QED
    BY <1>4, <2>1, <2>2 DEF N
<1> QED
  BY <1>9, <1>10 DEF CalendarInv, n, tm

(* toUtcTime() gives every second of every such day its date, weekday and  *)
(* day of the year, before 1970 too, and fromUtcTime() undoes it, however  *)
(* long minutes, hours and days are (TimeZone.cc:317-360).                 *)
THEOREM UtcGoesRound == CalendarSpec => []UtcRoundTrip
<1>1. CalendarInit => CalendarInv
  BY DEF CalendarInit, CalendarInv, IsDay, Ymd, Months, DaysIn, DaysBefore, weekDay,
         kDaysPerWeek, getJulianDayNumber
<1> QED
  BY <1>1, UtcIsThere, CalendarGoesOn, PTL DEF CalendarSpec

-----------------------------------------------------------------------------
(* TimedWait.                                                              *)

(* The struct timespec that was computed is one, and stands for the time   *)
(* at which the interval is over: that of the clock at the call, of which  *)
(* wall, elapsed and moved keep the record, or the interval itself.        *)
WaitTypes ==
  /\ wall \in Nat /\ interval \in Nat /\ elapsed \in Nat /\ moved \in Int
  /\ abstime \in [sec : Nat, nsec : Nat] /\ waiting \in BOOLEAN

DeadlineKept ==
  waiting =>
    \/ lastCall = "waitForSeconds" /\ Nanos(abstime) = wall - elapsed - moved + interval
    \/ lastCall = "sleepUsec" /\ Nanos(abstime) = interval

WaitInv == WaitTypes /\ DeadlineKept /\ outcome # "EINVAL"

(* The second and the part of a second are less than the whole: the carry  *)
(* of waitForSeconds() loses nothing (Condition.cc:17-20).                 *)
LEMMA DeadlineIsLater ==
  ASSUME NEW t \in Nat, NEW d \in Nat
  PROVE  LET k == kNanoSecondsPerSecond
             ts == Deadline(Timespec(t \div k, t % k), d)
         IN ts \in [sec : Nat, nsec : Nat] /\ IsTimespec(ts) /\ Nanos(ts) = t + d
<1> DEFINE k == kNanoSecondsPerSecond
           q == t \div k
           r == t % k
<1>1. k \in Nat \ {0}
  BY TimedWaitAssumption DEF kMicroSecondsPerSecond
<1> HIDE DEF k
<1>2. q \in Nat /\ r \in Nat /\ t = q * k + r
  BY <1>1, Quotient
<1> HIDE DEF q, r
<1> DEFINE c == (r + d) \div k
           n == (r + d) % k
<1>3. r + d \in Nat
  BY <1>2
<1>4. c \in Nat /\ n \in 0..(k - 1) /\ r + d = c * k + n
  BY <1>1, <1>3, Quotient
<1> HIDE DEF c, n
<1>5. (q + c) * k + n = t + d
  BY <1>1, <1>2, <1>4
<1>6. Deadline(Timespec(q, r), d) = Timespec(q + c, n)
  BY DEF Deadline, Carry, Timespec, c, n, k
<1> QED
  BY <1>1, <1>2, <1>4, <1>5, <1>6 DEF Nanos, IsTimespec, Timespec, q, r, k

(* The same for CurrentThread::sleepUsec() (Thread.cc:118-124).            *)
LEMMA SleepIsAsLong ==
  ASSUME NEW usec \in Nat
  PROVE  LET ts == Timespec(usec \div kMicroSecondsPerSecond,
                            (usec % kMicroSecondsPerSecond) * NanosPerMicro)
         IN /\ ts \in [sec : Nat, nsec : Nat] /\ IsTimespec(ts)
            /\ Nanos(ts) = usec * NanosPerMicro
<1> DEFINE u == kMicroSecondsPerSecond
           p == NanosPerMicro
           q == usec \div u
           r == usec % u
<1>1. u \in Nat \ {0} /\ p \in Nat \ {0} /\ kNanoSecondsPerSecond = u * p
  BY TimedWaitAssumption
<1> HIDE DEF u
<1>2. q \in Nat /\ r \in 0..(u - 1) /\ usec = q * u + r
  BY <1>1, Quotient
<1> HIDE DEF q, r, p
<1>3. q * (u * p) + r * p = (q * u + r) * p
  BY <1>1, <1>2
<1>4. r * p \in Nat /\ r * p <= (u - 1) * p /\ (u - 1) * p = u * p - p
  BY <1>1, <1>2
<1>5. r * p \in 0..(u * p - 1) /\ u * p \in Nat
  <2>1. u * p \in Nat
    BY <1>1
  <2> QED
    BY <1>1, <1>4, <2>1
<1> QED
  BY <1>1, <1>2, <1>3, <1>4, <1>5 DEF Nanos, IsTimespec, Timespec, q, r, p, u

(* A wait is entered with a deadline that the kernel accepts.              *)
LEMMA WaitEntered ==
  ASSUME WaitInv, NEW d \in Nat, NEW name, NEW ts \in [sec : Nat, nsec : Nat],
         Enter(name, d, ts), IsTimespec(ts),
         \/ name = "waitForSeconds" /\ Nanos(ts) = wall + d
         \/ name = "sleepUsec" /\ Nanos(ts) = d
  PROVE  WaitInv'
BY DEF WaitInv, WaitTypes, DeadlineKept, Enter, Nanos

(* A wait is never refused for its timespec, and is due when its interval  *)
(* is over, but for what the clock was set by meanwhile: for every         *)
(* interval and clock (Condition.cc:11-25, Thread.cc:124-130).             *)
THEOREM WaitIsAsLong == WaitSpec => []WaitsItsInterval
<1>1. WaitInit => WaitInv
  <2>1. kNanoSecondsPerSecond \in Nat
    BY TimedWaitAssumption DEF kMicroSecondsPerSecond
  <2> SUFFICES ASSUME WaitInit PROVE WaitInv
    OBVIOUS
  <2>2. wall \in Nat /\ interval \in Nat /\ elapsed \in Nat /\ moved \in Int
    BY <2>1 DEF WaitInit
  <2>3. abstime \in [sec : Nat, nsec : Nat] /\ waiting = FALSE /\ outcome = "none"
    BY DEF WaitInit, Timespec
  <2> QED
    BY <2>2, <2>3 DEF WaitInv, WaitTypes, DeadlineKept
<1>2. ASSUME WaitInv, [WaitNext]_waitVars PROVE WaitInv'
  <2>1. CASE UNCHANGED waitVars
    BY <1>2, <2>1 DEF WaitInv, WaitTypes, DeadlineKept, waitVars, Nanos
  <2>2. ASSUME NEW d \in Intervals, waitForSeconds(d) PROVE WaitInv'
    <3>1. d \in Nat /\ wall \in Nat
      BY <1>2, TimedWaitAssumption DEF WaitInv, WaitTypes
    <3> QED
      BY <1>2, <2>2, <3>1, DeadlineIsLater, WaitEntered DEF waitForSeconds
  <2>3. ASSUME NEW d \in Intervals, sleepUsec(d) PROVE WaitInv'
    <3>1. d \in Nat /\ d * NanosPerMicro \in Nat
      BY TimedWaitAssumption
    <3> QED
      BY <1>2, <2>3, <3>1, SleepIsAsLong, WaitEntered DEF sleepUsec
  <2>4. CASE TimeOut \/ Woken
    BY <1>2, <2>4 DEF TimeOut, Woken, Return, WaitInv, WaitTypes, DeadlineKept, Nanos
  <2>5. CASE Again
    BY <1>2, <2>5 DEF Again, WaitInv, WaitTypes, DeadlineKept, Nanos
  <2>6. CASE TimeGoesOn
    BY <1>2, <2>6 DEF TimeGoesOn, WaitInv, WaitTypes, DeadlineKept, Nanos
  <2>7. CASE SetClock
    BY <1>2, <2>7, TimedWaitAssumption
       DEF SetClock, WaitInv, WaitTypes, DeadlineKept, Nanos
  <2> QED
    BY <1>2, <2>1, <2>2, <2>3, <2>4, <2>5, <2>6, <2>7 DEF WaitNext
<1>3. WaitInv => WaitsItsInterval
  <2> SUFFICES ASSUME WaitInv, waiting PROVE Due <=> Counted >= interval
    BY DEF WaitsItsInterval, WaitInv
  <2>1. wall \in Nat /\ interval \in Nat /\ elapsed \in Nat /\ moved \in Int
    BY DEF WaitInv, WaitTypes
  <2> QED
    BY <2>1 DEF WaitInv, DeadlineKept, Due, Counted
<1> QED
  BY <1>1, <1>2, <1>3, PTL DEF WaitSpec
-----------------------------------------------------------------------------
(* SmallFile.                                                              *)

(* What has been read is the piece of the file that ends at the offset;    *)
(* without a file nothing has.                                             *)
ReadTypes ==
  /\ size \in Nat /\ offset \in Nat /\ maxSize \in Nat
  /\ content \in Seq(Nat) /\ buf_ \in Seq(Nat)

OnePiece == \A i \in DOMAIN content : content[i] = (offset - Len(content)) + i

ReadInv ==
  /\ ReadTypes /\ OnePiece
  /\ rpc = "new" \/ ~IsOpen => content = << >>
  /\ rpc = "reading" => IsOpen
  /\ Len(content) <= maxSize /\ Len(buf_) <= kBufferSize
  /\ rpc = "string" /\ err = "0" => atEnd \/ Len(content) = maxSize

(* One read() adds the next bytes.                                         *)
LEMMA PieceGrows ==
  ASSUME NEW p \in Seq(Nat), NEW at \in Nat, NEW n \in Nat,
         \A i \in DOMAIN p : p[i] = (at - Len(p)) + i
  PROVE  LET q == p \o Bytes(at, n) IN
         /\ q \in Seq(Nat) /\ Len(q) = Len(p) + n
         /\ \A i \in DOMAIN q : q[i] = ((at + n) - Len(q)) + i
<1> DEFINE b == Bytes(at, n)
           q == p \o b
<1>1. b \in Seq(Nat) /\ Len(b) = n /\ \A i \in 1..n : b[i] = at + i
  BY DEF Bytes
<1> HIDE DEF b
<1>2. q \in Seq(Nat) /\ Len(q) = Len(p) + n /\ Len(p) \in Nat
  BY <1>1, ConcatProperties, LenProperties
<1>3. ASSUME NEW i \in 1..(Len(p) + n)
      PROVE  q[i] = ((at + n) - (Len(p) + n)) + i
  <2>1. CASE i <= Len(p)
    <3>1. q[i] = p[i] /\ i \in DOMAIN p
      BY <1>1, <1>2, <2>1
    <3> QED
      BY <1>2, <3>1
  <2>2. CASE i > Len(p)
    <3>1. q[i] = b[i - Len(p)] /\ i - Len(p) \in 1..n
      BY <1>1, <1>2, <2>2
    <3> QED
      BY <1>1, <1>2, <3>1
  <2> QED
    BY <1>2, <2>1, <2>2
<1>4. DOMAIN q = 1..(Len(p) + n)
  BY <1>2
<1> QED
  BY <1>2, <1>3, <1>4 DEF b

LEMMA ReadGoesOn == ASSUME ReadInv, [ReadNext]_readVars PROVE ReadInv'
<1> USE DEF ReadInv, ReadTypes
<1>1. CASE UNCHANGED readVars
  BY <1>1 DEF readVars, reader, fileOnDisk, OnePiece, IsOpen
<1>2. CASE Open
  BY <1>2 DEF Open, fileOnDisk, OnePiece, IsOpen
<1>3. CASE ReadToString
  <2>1. maxSize' \in Nat /\ rpc # "new"
    BY <1>3, SmallFileAssumption DEF ReadToString, Call, Idle
  <2>2. CASE IsOpen
    <3>1. /\ rpc' = "reading" /\ content' = << >> /\ atEnd' = FALSE
          /\ UNCHANGED <<size, err_, offset, buf_>>
      BY <1>3, <2>2 DEF ReadToString, fileOnDisk
    <3>2. content' \in Seq(Nat) /\ Len(content') = 0 /\ DOMAIN content' = {}
      BY <3>1
    <3> QED
      BY <2>1, <2>2, <3>1, <3>2 DEF OnePiece, IsOpen
  <2>3. CASE ~IsOpen
    BY <1>3, <2>1, <2>3 DEF ReadToString, fileOnDisk, OnePiece, IsOpen
  <2> QED
    BY <2>2, <2>3
<1>4. CASE Read
  <2>1. PICK n \in 0..ToRead :
          /\ content' = content \o Bytes(offset, n) /\ offset' = offset + n
          /\ n = 0 => offset >= size
          /\ atEnd' = (offset >= size)
          /\ rpc' = IF GoesOn(n) THEN "reading" ELSE "string"
    BY <1>4 DEF Read
  <2>2. ToRead \in Nat /\ ToRead <= maxSize - Len(content)
    BY <1>4, SmallFileAssumption DEF Read, ToRead, Smaller
  <2>3. n \in Nat /\ n <= maxSize - Len(content)
    BY <2>1, <2>2
  <2>4. /\ content' \in Seq(Nat) /\ Len(content') = Len(content) + n
        /\ OnePiece'
    BY <2>1, <2>3, PieceGrows DEF OnePiece
  <2>5. rpc # "new" /\ IsOpen /\ UNCHANGED <<fileOnDisk, err_, err, maxSize, buf_>>
    BY <1>4 DEF Read
  <2>6. n = 0 => atEnd'
    BY <2>1
  <2> QED
    BY <1>4, <2>1, <2>3, <2>4, <2>5, <2>6 DEF GoesOn, fileOnDisk, IsOpen
<1>5. CASE ReadFails
  BY <1>5 DEF ReadFails, fileOnDisk, OnePiece, IsOpen
<1>6. CASE Enough
  BY <1>6 DEF Enough, fileOnDisk, OnePiece, IsOpen
<1>7. CASE ReadToBuffer
  <2>1. buf_' \in Seq(Nat) /\ Len(buf_') <= kBufferSize
    <3>1. CASE UNCHANGED buf_
      BY <3>1
    <3>2. ASSUME NEW n \in 0..Smaller(Room, size), buf_' = Append(Bytes(0, n), 0)
          PROVE  buf_' \in Seq(Nat) /\ Len(buf_') <= kBufferSize
      <4>1. n \in Nat /\ n <= kBufferSize - 1
        BY SmallFileAssumption DEF Smaller, Room
      <4>2. Bytes(0, n) \in Seq(Nat) /\ Len(Bytes(0, n)) = n
        BY <4>1 DEF Bytes
      <4> QED
        BY <3>2, <4>1, <4>2, SmallFileAssumption
    <3> QED
      BY <1>7, <3>1, <3>2 DEF ReadToBuffer
  <2> QED
    BY <1>7, <2>1 DEF ReadToBuffer, Call, Idle, fileOnDisk, OnePiece, IsOpen
<1>8. CASE FileChanges
  BY <1>8, SmallFileAssumption DEF FileChanges, reader, OnePiece, IsOpen
<1>9. CASE ReadOver
  BY <1>1, <1>9 DEF ReadOver
<1> QED
  BY <1>1, <1>2, <1>3, <1>4, <1>5, <1>6, <1>7, <1>8, <1>9 DEF ReadNext

(* However often the file changes and however short single reads are, the  *)
(* content is one piece of it, in order and not above maxSize, and all of  *)
(* it when there was no error (FileUtil.cc:64-154).                        *)
THEOREM SmallFileIsReadWhole == ReadSpec => []ReadWhole
<1>1. ReadInit => ReadInv
  <2> SUFFICES ASSUME ReadInit PROVE ReadInv
    OBVIOUS
  <2>1. size \in Nat /\ kBufferSize \in Nat
    BY SmallFileAssumption DEF ReadInit
  <2>2. /\ offset = 0 /\ maxSize = 0 /\ content = << >> /\ buf_ = << >>
        /\ atEnd = FALSE /\ rpc = "new"
    BY DEF ReadInit
  <2>3. /\ content \in Seq(Nat) /\ Len(content) = 0 /\ DOMAIN content = {}
        /\ buf_ \in Seq(Nat) /\ Len(buf_) = 0
    BY <2>2
  <2> QED
    BY <2>1, <2>2, <2>3 DEF ReadInv, ReadTypes, OnePiece
<1>2. ReadInv => ReadWhole
  <2> SUFFICES ASSUME ReadInv PROVE ReadWhole
    OBVIOUS
  <2>1. \A i \in DOMAIN content : content[i] = content[1] + (i - 1)
    <3> TAKE i \in DOMAIN content
    <3>1. 1 \in DOMAIN content /\ i \in Nat /\ Len(content) \in Nat /\ offset \in Nat
      BY DEF ReadInv, ReadTypes
    <3>2. content[i] = (offset - Len(content)) + i /\ content[1] = (offset - Len(content)) + 1
      BY <3>1 DEF ReadInv, OnePiece
    <3> QED
      BY <3>1, <3>2
  <2> QED
    BY <2>1 DEF ReadInv, ReadWhole
<1> QED
  BY <1>1, <1>2, ReadGoesOn, PTL DEF ReadSpec
-----------------------------------------------------------------------------
(* PtrVector.                                                              *)

(* What sequences hold, and that they hold it once.                        *)
LEMMA ToAppend ==
  ASSUME NEW s \in Seq(Nat), NEW o \in Nat
  PROVE  /\ Append(s, o) \in Seq(Nat) /\ Range(Append(s, o)) = Range(s) \cup {o}
         /\ IsInjective(s) /\ o \notin Range(s) => IsInjective(Append(s, o))
<1> DEFINE t == Append(s, o)
<1>1. /\ t \in Seq(Nat) /\ Len(s) \in Nat /\ Len(t) = Len(s) + 1
      /\ DOMAIN s = 1..Len(s) /\ DOMAIN t = 1..(Len(s) + 1)
      /\ t[Len(s) + 1] = o /\ \A i \in 1..Len(s) : t[i] = s[i]
  OBVIOUS
<1> HIDE DEF t
<1>2. \A i \in DOMAIN t : i \in DOMAIN s \/ i = Len(s) + 1
  BY <1>1
<1>3. Range(t) = Range(s) \cup {o}
  BY <1>1, <1>2 DEF Range
<1>4. ASSUME IsInjective(s), o \notin Range(s) PROVE IsInjective(t)
  BY <1>1, <1>2, <1>4 DEF IsInjective, Range
<1> QED
  BY <1>1, <1>3, <1>4 DEF t

LEMMA ToConcat ==
  ASSUME NEW s \in Seq(Nat), NEW t \in Seq(Nat)
  PROVE  /\ s \o t \in Seq(Nat) /\ Range(s \o t) = Range(s) \cup Range(t)
         /\ IsInjective(s) /\ IsInjective(t) /\ Range(s) \cap Range(t) = {}
              => IsInjective(s \o t)
<1> DEFINE u == s \o t
           m == Len(s)
           n == Len(t)
<1>1. /\ u \in Seq(Nat) /\ m \in Nat /\ n \in Nat
      /\ DOMAIN s = 1..m /\ DOMAIN t = 1..n /\ DOMAIN u = 1..(m + n)
  BY ConcatProperties, LenProperties
<1>2. /\ \A i \in DOMAIN s : i \in DOMAIN u /\ u[i] = s[i]
      /\ \A i \in DOMAIN t : m + i \in DOMAIN u /\ u[m + i] = t[i]
  <2>1. ASSUME NEW i \in DOMAIN s PROVE i \in DOMAIN u /\ u[i] = s[i]
    BY <1>1
  <2>2. ASSUME NEW i \in DOMAIN t PROVE m + i \in DOMAIN u /\ u[m + i] = t[i]
    <3>1. /\ i \in Nat /\ m + i \in 1..(m + n) /\ ~(m + i <= m) /\ (m + i) - m = i
      BY <1>1
    <3> QED
      BY <1>1, <3>1, ConcatProperties
  <2> QED
    BY <2>1, <2>2
<1> HIDE DEF u, m, n
<1>3. \A i \in DOMAIN u : i \in DOMAIN s \/ \E j \in DOMAIN t : i = m + j
  <2> SUFFICES ASSUME NEW i \in DOMAIN u, i \notin DOMAIN s
               PROVE  \E j \in DOMAIN t : i = m + j
    OBVIOUS
  <2>1. i - m \in DOMAIN t /\ i = m + (i - m)
    BY <1>1
  <2> QED
    BY <2>1
<1>4. Range(u) = Range(s) \cup Range(t)
  <2>1. Range(u) \subseteq Range(s) \cup Range(t)
    BY <1>2, <1>3 DEF Range
  <2>2. Range(s) \cup Range(t) \subseteq Range(u)
    BY <1>2 DEF Range
  <2> QED
    BY <2>1, <2>2
<1>5. ASSUME IsInjective(s), IsInjective(t), Range(s) \cap Range(t) = {}
      PROVE  IsInjective(u)
  <2> SUFFICES ASSUME NEW i \in DOMAIN u, NEW j \in DOMAIN u, u[i] = u[j]
               PROVE  i = j
    BY DEF IsInjective
  <2>1. \A k \in DOMAIN s, l \in DOMAIN t : s[k] # t[l]
    BY <1>5 DEF Range
  <2> QED
    BY <1>2, <1>3, <1>5, <2>1 DEF IsInjective
<1> QED
  BY <1>1, <1>4, <1>5 DEF u

LEMMA ToSplit ==
  ASSUME NEW s \in Seq(Nat), NEW k \in 0..Len(s), IsInjective(s)
  PROVE  LET a == SubSeq(s, 1, k)
             b == SubSeq(s, k + 1, Len(s))
         IN /\ a \in Seq(Nat) /\ b \in Seq(Nat) /\ IsInjective(a) /\ IsInjective(b)
            /\ Range(a) \cup Range(b) = Range(s) /\ Range(a) \cap Range(b) = {}
<1> DEFINE a == SubSeq(s, 1, k)
           b == SubSeq(s, k + 1, Len(s))
           n == Len(s)
<1>1. /\ n \in Nat /\ k \in Nat /\ k <= n /\ DOMAIN s = 1..n
      /\ a \in Seq(Nat) /\ DOMAIN a = 1..k /\ \A i \in 1..k : a[i] = s[i]
  BY SMTT(30)
<1>2. b \in Seq(Nat) /\ DOMAIN b = 1..(n - k)
  BY <1>1, SMTT(30)
<1>3. \A i \in 1..(n - k) : b[i] = s[k + i]
  BY <1>1, SMTT(30)
<1> HIDE DEF a, b, n
<1>4. /\ \A i \in DOMAIN a : i \in DOMAIN s /\ i <= k
      /\ \A i \in DOMAIN b : k + i \in DOMAIN s /\ ~(k + i <= k)
      /\ \A i, j \in DOMAIN b : k + i = k + j => i = j
  BY <1>1, <1>2
<1>5. \A i \in DOMAIN s : i \in DOMAIN a \/ \E j \in DOMAIN b : i = k + j
  <2> SUFFICES ASSUME NEW i \in DOMAIN s, i \notin DOMAIN a
               PROVE  \E j \in DOMAIN b : i = k + j
    OBVIOUS
  <2>1. i - k \in DOMAIN b /\ i = k + (i - k)
    BY <1>1, <1>2
  <2> QED
    BY <2>1
<1>6. IsInjective(a) /\ IsInjective(b)
  BY <1>1, <1>2, <1>3, <1>4 DEF IsInjective
<1>7. Range(a) \subseteq Range(s) /\ Range(b) \subseteq Range(s)
  BY <1>1, <1>2, <1>3, <1>4 DEF Range
<1>8. Range(s) \subseteq Range(a) \cup Range(b)
  <2> SUFFICES ASSUME NEW i \in DOMAIN s PROVE s[i] \in Range(a) \cup Range(b)
    BY DEF Range
  <2>1. CASE i \in DOMAIN a
    BY <1>1, <2>1 DEF Range
  <2>2. ASSUME NEW j \in DOMAIN b, i = k + j PROVE s[i] \in Range(b)
    BY <1>2, <1>3, <2>2 DEF Range
  <2> QED
    BY <1>5, <2>1, <2>2
<1>9. Range(a) \cap Range(b) = {}
  <2> SUFFICES ASSUME NEW i \in DOMAIN a, NEW j \in DOMAIN b, a[i] = b[j]
               PROVE  FALSE
    BY DEF Range
  <2>1. s[i] = s[k + j] /\ i # k + j /\ i \in DOMAIN s /\ k + j \in DOMAIN s
    BY <1>1, <1>2, <1>3, <1>4
  <2> QED
    BY <2>1 DEF IsInjective
<1> QED
  BY <1>1, <1>2, <1>6, <1>7, <1>8, <1>9 DEF a, b, n

LEMMA ToFrontAndLast ==
  ASSUME NEW s \in Seq(Nat), s # << >>, IsInjective(s)
  PROVE  /\ Front(s) \in Seq(Nat) /\ IsInjective(Front(s)) /\ Last(s) \in Nat
         /\ Range(s) = Range(Front(s)) \cup {Last(s)} /\ Last(s) \notin Range(Front(s))
<1> DEFINE k == Len(s) - 1
           b == SubSeq(s, k + 1, Len(s))
<1>1. k \in 0..Len(s) /\ k + 1 = Len(s) /\ Len(s) \in 1..Len(s) /\ s[Len(s)] \in Nat
  OBVIOUS
<1>2. DOMAIN b = 1..1 /\ b[1] = s[Len(s)]
  BY <1>1, SMTT(30)
<1>3. Range(b) = {s[Len(s)]}
  <2>1. 1..1 = {1}
    OBVIOUS
  <2> HIDE DEF b
  <2> QED
    BY <1>2, <2>1 DEF Range
<1> QED
  BY <1>1, <1>3, ToSplit DEF Front, Last

(* No vector holds an object twice, and no two hold the same.              *)
VectorsInv ==
  /\ m_vector \in [Vectors -> Seq(Nat)]
  /\ \A v \in Vectors : IsInjective(m_vector[v])
  /\ \A v, w \in Vectors : v # w => Range(m_vector[v]) \cap Range(m_vector[w]) = {}

(* The objects up to n: owned by the vectors, the unique_ptrs, the         *)
(* scoped_ptr, or deleted.                                                 *)
Shared(inVectors, inUnique, p, n, gone) ==
  /\ inVectors \cap inUnique = {} /\ p \notin inVectors \cup inUnique
  /\ gone \subseteq 1..n
  /\ inVectors \cup inUnique \cup ({p} \ {0}) = 1..n \ gone

PtrInv ==
  /\ VectorsInv
  /\ m_ptr \in Nat /\ unique \subseteq Nat /\ born \in Nat
  /\ deletes \in Seq(Nat) /\ IsInjective(deletes)
  /\ Shared(InVectors, unique, m_ptr, born, Range(deletes))

Others(v) == UNION {Range(m_vector[w]) : w \in Vectors \ {v}}

LEMMA WithOthers ==
  ASSUME VectorsInv, NEW v \in Vectors
  PROVE  /\ m_vector[v] \in Seq(Nat) /\ IsInjective(m_vector[v])
         /\ InVectors = Others(v) \cup Range(m_vector[v])
         /\ Others(v) \cap Range(m_vector[v]) = {}
BY DEF VectorsInv, Others, InVectors

LEMMA VectorChanges ==
  ASSUME VectorsInv, NEW v \in Vectors, NEW s \in Seq(Nat), IsInjective(s),
         Range(s) \cap Others(v) = {}, m_vector' = [m_vector EXCEPT ![v] = s]
  PROVE  VectorsInv' /\ InVectors' = Others(v) \cup Range(s)
<1>1. /\ m_vector' \in [Vectors -> Seq(Nat)] /\ m_vector'[v] = s
      /\ \A w \in Vectors \ {v} : m_vector'[w] = m_vector[w]
  BY DEF VectorsInv
<1>2. \A w \in Vectors \ {v} : Range(s) \cap Range(m_vector[w]) = {}
  BY DEF Others
<1>3. VectorsInv'
  <2>1. \A x \in Vectors : IsInjective(m_vector'[x])
    BY <1>1 DEF VectorsInv
  <2>2. ASSUME NEW x \in Vectors, NEW y \in Vectors, x # y
        PROVE  Range(m_vector'[x]) \cap Range(m_vector'[y]) = {}
    <3>1. CASE x = v
      BY <1>1, <1>2, <2>2, <3>1
    <3>2. CASE y = v
      BY <1>1, <1>2, <2>2, <3>2
    <3>3. CASE x # v /\ y # v
      BY <1>1, <2>2, <3>3 DEF VectorsInv
    <3> QED
      BY <3>1, <3>2, <3>3
  <2> QED
    BY <1>1, <2>1, <2>2 DEF VectorsInv
<1>4. InVectors' = Others(v) \cup Range(s)
  BY <1>1 DEF InVectors, Others
<1> QED
  BY <1>3, <1>4

LEMMA VectorsSwapped ==
  ASSUME VectorsInv, NEW v \in Vectors, NEW w \in Vectors,
         m_vector' = [m_vector EXCEPT ![v] = m_vector[w], ![w] = m_vector[v]]
  PROVE  VectorsInv' /\ InVectors' = InVectors
<1>1. /\ m_vector' \in [Vectors -> Seq(Nat)]
      /\ m_vector'[v] = m_vector[w] /\ m_vector'[w] = m_vector[v]
      /\ \A x \in Vectors \ {v, w} : m_vector'[x] = m_vector[x]
  BY DEF VectorsInv
<1> DEFINE Other(x) == IF x = v THEN w ELSE IF x = w THEN v ELSE x
<1>2. \A x \in Vectors : Other(x) \in Vectors /\ m_vector'[x] = m_vector[Other(x)]
  BY <1>1
<1>3. \A x, y \in Vectors : x # y => Other(x) # Other(y)
  OBVIOUS
<1>4. \A x \in Vectors : Other(Other(x)) = x
  OBVIOUS
<1> HIDE DEF Other
<1>5. VectorsInv'
  <2>1. \A x \in Vectors : IsInjective(m_vector'[x])
    BY <1>2 DEF VectorsInv
  <2>2. ASSUME NEW x \in Vectors, NEW y \in Vectors, x # y
        PROVE  Range(m_vector'[x]) \cap Range(m_vector'[y]) = {}
    <3>1. Other(x) \in Vectors /\ Other(y) \in Vectors /\ Other(x) # Other(y)
      BY <1>2, <1>3, <2>2
    <3>2. m_vector'[x] = m_vector[Other(x)] /\ m_vector'[y] = m_vector[Other(y)]
      BY <1>2
    <3> QED
      BY <3>1, <3>2 DEF VectorsInv
  <2> QED
    BY <1>1, <2>1, <2>2 DEF VectorsInv
<1>6. InVectors' \subseteq InVectors
  BY <1>2 DEF InVectors
<1>7. InVectors \subseteq InVectors'
  <2>1. \A x \in Vectors : m_vector[x] = m_vector'[Other(x)]
    BY <1>2, <1>4
  <2> QED
    BY <1>2, <2>1 DEF InVectors
<1> QED
  BY <1>5, <1>6, <1>7

(* The next object is nobody's yet.                                        *)
LEMMA Unborn ==
  ASSUME NEW n \in Nat, NEW p \in Nat, NEW V, NEW U, NEW D, Shared(V, U, p, n, D)
  PROVE  \A o \in Nat : o = 0 \/ o > n => o \notin V /\ o \notin U /\ o \notin D
                                          /\ (o # 0 => o # p)
BY DEF Shared

(* An object is born, or an owner gives it to a vector or to delete.       *)
LEMMA OneMore ==
  ASSUME NEW n \in Nat, NEW p \in Nat, NEW V, NEW U, NEW D, Shared(V, U, p, n, D)
  PROVE  /\ Shared(V \cup {n + 1}, U, p, n + 1, D)
         /\ Shared(V, U, p, n + 1, D \cup {n + 1})
<1>1. 1..(n + 1) = 1..n \cup {n + 1} /\ n + 1 # 0
  OBVIOUS
<1>2. n + 1 \notin V /\ n + 1 \notin U /\ n + 1 \notin D /\ n + 1 # p
  BY Unborn
<1> QED
  BY <1>1, <1>2 DEF Shared

LEMMA Deleted ==
  ASSUME PtrInv, NEW o \in Nat, o \notin Range(deletes), deletes' = Append(deletes, o)
  PROVE  /\ deletes' \in Seq(Nat) /\ IsInjective(deletes')
         /\ Range(deletes') = Range(deletes) \cup {o}
BY ToAppend DEF PtrInv

LEMMA VectorsStay ==
  ASSUME VectorsInv, UNCHANGED m_vector PROVE VectorsInv' /\ InVectors' = InVectors
BY DEF VectorsInv, InVectors

(* push_back() gives the object to the vector or to delete, not to both.   *)
LEMMA PushedBack ==
  ASSUME PtrInv, NEW v \in Vectors, NEW o \in Nat,
         o \notin InVectors, o \notin Range(deletes), push_back(v, o)
  PROVE  /\ VectorsInv' /\ deletes' \in Seq(Nat) /\ IsInjective(deletes')
         /\ \/ InVectors' = InVectors \cup {o} /\ Range(deletes') = Range(deletes)
            \/ InVectors' = InVectors /\ Range(deletes') = Range(deletes) \cup {o}
<1>1. VectorsInv /\ deletes \in Seq(Nat) /\ IsInjective(deletes)
  BY DEF PtrInv
<1>2. CASE m_vector' = [m_vector EXCEPT ![v] = Append(@, o)] /\ UNCHANGED deletes
  <2> DEFINE s == Append(m_vector[v], o)
  <2>1. /\ m_vector[v] \in Seq(Nat) /\ IsInjective(m_vector[v])
        /\ InVectors = Others(v) \cup Range(m_vector[v])
        /\ Others(v) \cap Range(m_vector[v]) = {}
    BY <1>1, WithOthers
  <2>2. s \in Seq(Nat) /\ IsInjective(s) /\ Range(s) = Range(m_vector[v]) \cup {o}
    BY <2>1, ToAppend
  <2>3. m_vector' = [m_vector EXCEPT ![v] = s]
    BY <1>2
  <2> HIDE DEF s
  <2>4. Range(s) \cap Others(v) = {}
    BY <2>1, <2>2
  <2>5. VectorsInv' /\ InVectors' = Others(v) \cup Range(s)
    BY <1>1, <2>2, <2>3, <2>4, VectorChanges
  <2> QED
    BY <1>1, <1>2, <2>1, <2>2, <2>5
<1>3. CASE UNCHANGED m_vector /\ deletes' = Append(deletes, o)
  BY <1>1, <1>3, Deleted, VectorsStay
<1> QED
  BY <1>2, <1>3 DEF push_back, Released

LEMMA NewOnes ==
  ASSUME NEW n \in Nat, NEW count \in Nat
  PROVE  LET new == NewObjects(n, count) IN
         /\ new \in Seq(Nat) /\ IsInjective(new) /\ Range(new) = (n + 1)..(n + count)
<1> DEFINE new == NewObjects(n, count)
<1>1. new \in Seq(Nat) /\ DOMAIN new = 1..count /\ \A i \in 1..count : new[i] = n + i
  BY DEF NewObjects
<1> HIDE DEF new
<1>2. IsInjective(new)
  BY <1>1 DEF IsInjective
<1>3. Range(new) \subseteq (n + 1)..(n + count)
  BY <1>1 DEF Range
<1>4. ASSUME NEW o \in (n + 1)..(n + count) PROVE o \in Range(new)
  <2>1. o - n \in 1..count /\ o = n + (o - n)
    OBVIOUS
  <2> QED
    BY <1>1, <2>1 DEF Range
<1> QED
  BY <1>1, <1>2, <1>3, <1>4 DEF new

LEMMA PtrGoesOn == ASSUME PtrInv, [PtrNext]_heap PROVE PtrInv'
<1>1. /\ VectorsInv /\ m_ptr \in Nat /\ unique \subseteq Nat /\ born \in Nat
      /\ deletes \in Seq(Nat) /\ IsInjective(deletes)
      /\ Shared(InVectors, unique, m_ptr, born, Range(deletes))
  BY DEF PtrInv
<1>2. CASE UNCHANGED heap
  BY <1>2 DEF PtrInv, VectorsInv, InVectors, heap
<1>3. ASSUME NEW v \in Vectors, PushNew(v) PROVE PtrInv'
  <2> DEFINE o == born + 1
  <2>1. push_back(v, o) /\ born' = o /\ UNCHANGED <<m_ptr, unique>> /\ o \in Nat
    BY <1>1, <1>3 DEF PushNew
  <2>2. o \notin InVectors /\ o \notin Range(deletes)
    BY <1>1, Unborn
  <2>3. /\ Shared(InVectors \cup {o}, unique, m_ptr, o, Range(deletes))
        /\ Shared(InVectors, unique, m_ptr, o, Range(deletes) \cup {o})
    BY <1>1, OneMore
  <2> HIDE DEF o
  <2>4. /\ VectorsInv' /\ deletes' \in Seq(Nat) /\ IsInjective(deletes')
        /\ \/ InVectors' = InVectors \cup {o} /\ Range(deletes') = Range(deletes)
           \/ InVectors' = InVectors /\ Range(deletes') = Range(deletes) \cup {o}
    BY <2>1, <2>2, PushedBack
  <2>5. Shared(InVectors', unique', m_ptr', born', Range(deletes'))
    BY <2>1, <2>3, <2>4
  <2> QED
    BY <1>1, <2>1, <2>4, <2>5 DEF PtrInv
<1>4. ASSUME NEW v \in Vectors, PushBackAgain(v) PROVE PtrInv'
  <2>1. PICK o \in unique : unique' = unique \ {o} /\ push_back(v, o)
    BY <1>4 DEF PushBackAgain
  <2>2. o \in Nat /\ o \notin InVectors /\ o \notin Range(deletes)
    BY <1>1 DEF Shared
  <2>3. /\ VectorsInv' /\ deletes' \in Seq(Nat) /\ IsInjective(deletes')
        /\ \/ InVectors' = InVectors \cup {o} /\ Range(deletes') = Range(deletes)
           \/ InVectors' = InVectors /\ Range(deletes') = Range(deletes) \cup {o}
    BY <2>1, <2>2, PushedBack
  <2>4. UNCHANGED <<m_ptr, born>> /\ o \in 1..born
    BY <1>1, <1>4 DEF PushBackAgain, Shared
  <2>5. Shared(InVectors', unique', m_ptr', born', Range(deletes'))
    BY <1>1, <2>1, <2>2, <2>3, <2>4 DEF Shared
  <2> QED
    BY <1>1, <2>1, <2>3, <2>4, <2>5 DEF PtrInv
<1>5. ASSUME NEW v \in Vectors, pop_back(v) PROVE PtrInv'
  <2> DEFINE s == Front(m_vector[v])
             o == Last(m_vector[v])
  <2>1. /\ m_vector[v] \in Seq(Nat) /\ IsInjective(m_vector[v])
        /\ InVectors = Others(v) \cup Range(m_vector[v])
        /\ Others(v) \cap Range(m_vector[v]) = {}
    BY <1>1, WithOthers
  <2>2. /\ s \in Seq(Nat) /\ IsInjective(s) /\ o \in Nat
        /\ Range(m_vector[v]) = Range(s) \cup {o} /\ o \notin Range(s)
    BY <1>5, <2>1, ToFrontAndLast DEF pop_back
  <2>3. /\ m_vector' = [m_vector EXCEPT ![v] = s] /\ unique' = unique \cup {o}
        /\ UNCHANGED <<m_ptr, born, deletes>>
    BY <1>5 DEF pop_back
  <2> HIDE DEF s, o
  <2>4. Range(s) \cap Others(v) = {}
    BY <2>1, <2>2
  <2>5. VectorsInv' /\ InVectors' = Others(v) \cup Range(s)
    BY <1>1, <2>2, <2>3, <2>4, VectorChanges
  <2>6. Shared(InVectors', unique', m_ptr', born', Range(deletes'))
    BY <1>1, <2>1, <2>2, <2>3, <2>5 DEF Shared
  <2> QED
    BY <1>1, <2>2, <2>3, <2>5, <2>6 DEF PtrInv
<1>6. ASSUME NEW v \in Vectors, clear(v) PROVE PtrInv'
  <2>1. /\ m_vector[v] \in Seq(Nat) /\ IsInjective(m_vector[v])
        /\ InVectors = Others(v) \cup Range(m_vector[v])
        /\ Others(v) \cap Range(m_vector[v]) = {}
    BY <1>1, WithOthers
  <2>2. /\ deletes' = deletes \o m_vector[v] /\ m_vector' = [m_vector EXCEPT ![v] = << >>]
        /\ UNCHANGED <<m_ptr, unique, born>>
    BY <1>6 DEF clear
  <2>3. << >> \in Seq(Nat) /\ IsInjective(<< >>) /\ Range(<< >>) = {}
    BY DEF IsInjective, Range
  <2>4. VectorsInv' /\ InVectors' = Others(v)
    BY <1>1, <2>2, <2>3, VectorChanges
  <2>5. Range(deletes) \cap Range(m_vector[v]) = {}
    BY <1>1, <2>1 DEF Shared
  <2>6. /\ deletes' \in Seq(Nat) /\ IsInjective(deletes')
        /\ Range(deletes') = Range(deletes) \cup Range(m_vector[v])
    BY <1>1, <2>1, <2>2, <2>5, ToConcat
  <2>7. Shared(InVectors', unique', m_ptr', born', Range(deletes'))
    BY <1>1, <2>1, <2>2, <2>4, <2>6 DEF Shared
  <2> QED
    BY <1>1, <2>2, <2>4, <2>6, <2>7 DEF PtrInv
<1>7. ASSUME NEW v \in Vectors, NEW k \in 0..MaxObjects, Shrink(v, k) PROVE PtrInv'
  <2> DEFINE s == SubSeq(m_vector[v], 1, k)
             t == SubSeq(m_vector[v], k + 1, Len(m_vector[v]))
  <2>1. /\ m_vector[v] \in Seq(Nat) /\ IsInjective(m_vector[v])
        /\ InVectors = Others(v) \cup Range(m_vector[v])
        /\ Others(v) \cap Range(m_vector[v]) = {}
    BY <1>1, WithOthers
  <2>2. k \in 0..Len(m_vector[v])
    BY <1>7, <2>1, PtrVectorAssumption DEF Shrink
  <2>3. /\ s \in Seq(Nat) /\ t \in Seq(Nat) /\ IsInjective(s) /\ IsInjective(t)
        /\ Range(s) \cup Range(t) = Range(m_vector[v]) /\ Range(s) \cap Range(t) = {}
    BY <2>1, <2>2, ToSplit
  <2>4. /\ deletes' = deletes \o t /\ m_vector' = [m_vector EXCEPT ![v] = s]
        /\ UNCHANGED <<m_ptr, unique, born>>
    BY <1>7 DEF Shrink
  <2> HIDE DEF s, t
  <2>5. Range(s) \cap Others(v) = {}
    BY <2>1, <2>3
  <2>6. VectorsInv' /\ InVectors' = Others(v) \cup Range(s)
    BY <1>1, <2>3, <2>4, <2>5, VectorChanges
  <2>7. Range(deletes) \cap Range(t) = {}
    BY <1>1, <2>1, <2>3 DEF Shared
  <2>8. /\ deletes' \in Seq(Nat) /\ IsInjective(deletes')
        /\ Range(deletes') = Range(deletes) \cup Range(t)
    BY <1>1, <2>3, <2>4, <2>7, ToConcat
  <2>9. Shared(InVectors', unique', m_ptr', born', Range(deletes'))
    BY <1>1, <2>1, <2>3, <2>4, <2>6, <2>8 DEF Shared
  <2> QED
    BY <1>1, <2>4, <2>6, <2>8, <2>9 DEF PtrInv
<1>8. ASSUME NEW v \in Vectors, NEW k \in 0..MaxObjects, Grow(v, k) PROVE PtrInv'
  <2>1. /\ m_vector[v] \in Seq(Nat) /\ IsInjective(m_vector[v])
        /\ InVectors = Others(v) \cup Range(m_vector[v])
        /\ Others(v) \cap Range(m_vector[v]) = {}
    BY <1>1, WithOthers
  <2>2. PICK count \in 0..(k - Len(m_vector[v])) :
          /\ m_vector' = [m_vector EXCEPT ![v] = @ \o NewObjects(born, count)]
          /\ \/ born' = born + count /\ UNCHANGED deletes
             \/ /\ born' = born + count + 1 /\ deletes' = Append(deletes, born')
          /\ UNCHANGED <<m_ptr, unique>>
    BY <1>8 DEF Grow
  <2>3. count \in Nat
    BY <2>1, PtrVectorAssumption
  <2> DEFINE new == NewObjects(born, count)
             s == m_vector[v] \o new
             n == born + count
  <2>4. /\ new \in Seq(Nat) /\ IsInjective(new) /\ n \in Nat
        /\ Range(new) = (born + 1)..n
    <3>1. n \in Nat /\ born \in Nat
      BY <1>1, <2>3
    <3>2. new \in Seq(Nat) /\ IsInjective(new) /\ Range(new) = (born + 1)..(born + count)
      BY <2>3, <3>1, NewOnes
    <3> QED
      BY <3>1, <3>2
  <2>5. m_vector' = [m_vector EXCEPT ![v] = s]
    BY <2>2
  <2>6. \A o \in Range(new) : /\ o \notin InVectors /\ o \notin unique
                              /\ o \notin Range(deletes) /\ o # m_ptr
    <3>1. ASSUME NEW o \in (born + 1)..n PROVE o \in Nat /\ o > born /\ o # 0
      BY <1>1, <2>4
    <3> QED
      BY <1>1, <2>4, <3>1, Unborn
  <2> HIDE DEF new
  <2>7. /\ s \in Seq(Nat) /\ IsInjective(s)
        /\ Range(s) = Range(m_vector[v]) \cup Range(new)
    BY <2>1, <2>4, <2>6, ToConcat
  <2> HIDE DEF s
  <2>8. Range(s) \cap Others(v) = {}
    BY <2>1, <2>6, <2>7
  <2>9. VectorsInv' /\ InVectors' = InVectors \cup Range(new)
    BY <1>1, <2>1, <2>5, <2>7, <2>8, VectorChanges
  <2>10. Shared(InVectors', unique, m_ptr, n, Range(deletes))
    <3>1. 1..n = 1..born \cup ((born + 1)..n)
      BY <1>1, <2>3
    <3> QED
      BY <1>1, <2>4, <2>6, <2>9, <3>1 DEF Shared
  <2> HIDE DEF n
  <2>11. CASE born' = n /\ UNCHANGED deletes
    BY <1>1, <2>2, <2>4, <2>9, <2>10, <2>11 DEF PtrInv
  <2>12. CASE born' = n + 1 /\ deletes' = Append(deletes, born')
    <3>1. n + 1 \notin Range(deletes) /\ n + 1 \in Nat
      BY <1>1, <2>4, <2>10, Unborn
    <3>2. /\ deletes' \in Seq(Nat) /\ IsInjective(deletes')
          /\ Range(deletes') = Range(deletes) \cup {n + 1}
      BY <2>12, <3>1, Deleted
    <3>3. Shared(InVectors', unique, m_ptr, n + 1, Range(deletes) \cup {n + 1})
      BY <1>1, <2>4, <2>10, OneMore
    <3> QED
      BY <1>1, <2>2, <2>9, <2>12, <3>1, <3>2, <3>3 DEF PtrInv
  <2> QED
    BY <2>2, <2>11, <2>12 DEF n
<1>9. ASSUME NEW v \in Vectors, NEW w \in Vectors, swap(v, w) PROVE PtrInv'
  <2>1. VectorsInv' /\ InVectors' = InVectors
    BY <1>1, <1>9, VectorsSwapped DEF swap
  <2> QED
    BY <1>1, <1>9, <2>1 DEF swap, PtrInv
<1>10. CASE UniqueEnds
  <2>1. PICK o \in unique : unique' = unique \ {o} /\ deletes' = Append(deletes, o)
    BY <1>10 DEF UniqueEnds
  <2>2. UNCHANGED <<m_vector, m_ptr, born>>
    BY <1>10 DEF UniqueEnds
  <2>3. o \in Nat /\ o \notin Range(deletes) /\ o \in 1..born
    BY <1>1 DEF Shared
  <2>4. /\ deletes' \in Seq(Nat) /\ IsInjective(deletes')
        /\ Range(deletes') = Range(deletes) \cup {o}
    BY <2>1, <2>3, Deleted
  <2>5. VectorsInv' /\ InVectors' = InVectors
    BY <1>1, <2>2, VectorsStay
  <2>6. Shared(InVectors', unique', m_ptr', born', Range(deletes'))
    BY <1>1, <2>1, <2>2, <2>3, <2>4, <2>5 DEF Shared
  <2> QED
    BY <1>1, <2>1, <2>2, <2>4, <2>5, <2>6 DEF PtrInv
<1>11. CASE Reset
  <2>1. /\ UNCHANGED <<m_vector, unique>>
        /\ VectorsInv' /\ InVectors' = InVectors
    BY <1>1, <1>11, VectorsStay DEF Reset, reset
  <2>2. /\ born' \in Nat /\ m_ptr' \in Nat
        /\ \/ born' = born + 1 /\ m_ptr' = born + 1
           \/ born' = born /\ m_ptr' \in {0, m_ptr}
    BY <1>1, <1>11 DEF Reset, reset
  <2>3. m_ptr' \notin InVectors /\ m_ptr' \notin unique
    BY <1>1, <2>2, Unborn DEF Shared
  <2>4. CASE m_ptr' = m_ptr \/ m_ptr = 0
    <3>1. UNCHANGED deletes
      BY <1>11, <2>4 DEF Reset, reset, Delete
    <3>2. Shared(InVectors, unique, m_ptr', born', Range(deletes))
      <4>1. CASE born' = born + 1 /\ m_ptr' = born + 1
        <5>1. born + 1 \notin Range(deletes) /\ born + 1 # m_ptr
          BY <1>1, Unborn
        <5>2. m_ptr = 0 /\ Shared(InVectors, unique, m_ptr, born, Range(deletes))
          BY <1>1, <2>4, <4>1, <5>1
        <5>3. 1..(born + 1) = 1..born \cup {born + 1} /\ born + 1 # 0
          BY <1>1
        <5> QED
          BY <2>3, <4>1, <5>1, <5>2, <5>3 DEF Shared
      <4>2. CASE born' = born /\ m_ptr' = m_ptr
        BY <1>1, <4>2
      <4> QED
        BY <2>2, <2>4, <4>1, <4>2
    <3> QED
      BY <1>1, <2>1, <2>2, <3>1, <3>2 DEF PtrInv
  <2>5. CASE m_ptr' # m_ptr /\ m_ptr # 0
    <3>1. deletes' = Append(deletes, m_ptr)
      BY <1>11, <2>5 DEF Reset, reset, Delete
    <3>2. m_ptr \notin Range(deletes) /\ m_ptr \in 1..born
      BY <1>1, <2>5 DEF Shared
    <3>3. /\ deletes' \in Seq(Nat) /\ IsInjective(deletes')
          /\ Range(deletes') = Range(deletes) \cup {m_ptr}
      BY <1>1, <3>1, <3>2, Deleted
    <3>4. Shared(InVectors, unique, m_ptr', born', Range(deletes) \cup {m_ptr})
      <4>1. CASE born' = born /\ m_ptr' = 0
        BY <1>1, <2>3, <2>5, <3>2, <4>1 DEF Shared
      <4>2. CASE born' = born + 1 /\ m_ptr' = born + 1
        <5>1. 1..(born + 1) = 1..born \cup {born + 1} /\ born + 1 # 0
          BY <1>1
        <5>2. born + 1 \notin Range(deletes) /\ born + 1 # m_ptr
          BY <1>1, Unborn
        <5> QED
          BY <1>1, <2>3, <2>5, <3>2, <4>2, <5>1, <5>2 DEF Shared
      <4> QED
        BY <2>2, <2>5, <4>1, <4>2
    <3> QED
      BY <1>1, <2>1, <2>2, <3>3, <3>4 DEF PtrInv
  <2> QED
    BY <2>4, <2>5
<1> QED
  BY <1>2, <1>3, <1>4, <1>5, <1>6, <1>7, <1>8, <1>9, <1>10, <1>11 DEF PtrNext, resize

(* For any number of vectors and objects, and wherever an allocation       *)
(* throws: every object has one owner or was deleted once (ptr_vector.h:   *)
(* 52-110, scoped_ptr.h:28-58).                                            *)
THEOREM ObjectsHaveOneOwner == PtrSpec => []OneOwner
<1>1. PtrInit => PtrInv
  <2> SUFFICES ASSUME PtrInit PROVE PtrInv
    OBVIOUS
  <2>1. << >> \in Seq(Nat) /\ IsInjective(<< >>) /\ Range(<< >>) = {}
    BY DEF IsInjective, Range
  <2>2. VectorsInv /\ InVectors = {}
    BY <2>1 DEF PtrInit, VectorsInv, InVectors
  <2>3. 1..0 = {}
    OBVIOUS
  <2> QED
    BY <2>1, <2>2, <2>3 DEF PtrInit, PtrInv, Shared
<1>2. PtrInv => OneOwner
  <2> SUFFICES ASSUME PtrInv PROVE OneOwner
    OBVIOUS
  <2>1. ~OwnedTwice
    <3> SUFFICES ASSUME NEW v \in Vectors, NEW w \in Vectors,
                        NEW i \in DOMAIN m_vector[v], NEW j \in DOMAIN m_vector[w],
                        m_vector[v][i] = m_vector[w][j]
                 PROVE  v = w /\ i = j
      BY DEF OwnedTwice
    <3>1. v = w
      BY DEF PtrInv, VectorsInv, Range
    <3> QED
      BY <3>1 DEF PtrInv, VectorsInv, IsInjective
  <2> QED
    BY <2>1 DEF PtrInv, OneOwner, Shared
<1> QED
  BY <1>1, <1>2, PtrGoesOn, PTL DEF PtrSpec

-----------------------------------------------------------------------------
(* StringPiece.                                                            *)

LEMMA Least ==
  ASSUME NEW S, S \subseteq Nat, S # {}
  PROVE  \E m \in S : \A k \in S : m <= k
<1> DEFINE R == OpToRel(<, Nat)
<1>1. IsWellFoundedOn(R, Nat)
  BY NatLessThanWellFounded
<1>2. \A x, y \in Nat : x < y => <<x, y>> \in R
  BY DEF OpToRel
<1> HIDE DEF R
<1>3. PICK m \in S : \A k \in S : ~(<<k, m>> \in R)
  BY <1>1, WFMin
<1>4. \A k \in S : ~(k < m)
  BY <1>2, <1>3
<1>5. \A k \in S : m <= k
  BY <1>4
<1> QED
  BY <1>5

(* Two words that are alike up to n, and the order at the first difference.*)
SameTo(a, b, n) == \A i \in 1..n : a[i] = b[i]

LEMMA SameStart ==
  ASSUME NEW a \in Seq(Int), NEW b \in Seq(Int), NEW n \in Nat,
         n <= Len(a), n <= Len(b)
  PROVE  SubSeq(a, 1, n) = SubSeq(b, 1, n) <=> SameTo(a, b, n)
<1> DEFINE x == SubSeq(a, 1, n)
           y == SubSeq(b, 1, n)
<1>1. x \in Seq(Int) /\ Len(x) = n /\ \A i \in 1..n : x[i] = a[i]
  BY SMTT(30)
<1>2. y \in Seq(Int) /\ Len(y) = n /\ \A i \in 1..n : y[i] = b[i]
  BY SMTT(30)
<1> HIDE DEF x, y
<1>3. ASSUME SameTo(a, b, n) PROVE x = y
  <2>1. \A i \in 1..n : x[i] = y[i]
    BY <1>1, <1>2, <1>3 DEF SameTo
  <2> QED
    BY <1>1, <1>2, <2>1, SeqEqual
<1>4. ASSUME x = y PROVE SameTo(a, b, n)
  BY <1>1, <1>2, <1>4 DEF SameTo
<1> QED
  BY <1>3, <1>4 DEF x, y

LEMMA PrefixIsSame ==
  ASSUME NEW a \in Seq(Int), NEW b \in Seq(Int), IsPrefix(a, b)
  PROVE  SameTo(a, b, Len(a))
<1>1. Len(a) \in Nat /\ Len(b) \in Nat
  OBVIOUS
<1>2. Len(a) <= Len(b) /\ SubSeq(a, 1, Len(a)) = SubSeq(b, 1, Len(a))
  BY DEF IsPrefix
<1> QED
  BY <1>1, <1>2, SameStart

LEMMA BeforeAt ==
  ASSUME NEW a \in Seq(Int), NEW b \in Seq(Int)
  PROVE  Before(a, b) <=>
           \E n \in 0..Len(a) : /\ n < Len(b) /\ SameTo(a, b, n)
                                /\ n = Len(a) \/ a[n + 1] < b[n + 1]
<1>1. ASSUME NEW n \in 0..Len(a), n < Len(b)
      PROVE  SubSeq(a, 1, n) = SubSeq(b, 1, n) <=> SameTo(a, b, n)
  <2>1. n \in Nat /\ n <= Len(a) /\ n <= Len(b)
    BY <1>1
  <2> QED
    BY <2>1, SameStart
<1> QED
  BY <1>1 DEF Before

(* At their first difference two words are told apart.                     *)
LEMMA WordsDiffer ==
  ASSUME NEW a \in Seq(Int), NEW b \in Seq(Int), NEW n \in Nat,
         n < Len(a), n < Len(b), SameTo(a, b, n), a[n + 1] < b[n + 1]
  PROVE  Before(a, b) /\ ~Before(b, a) /\ a # b /\ ~IsPrefix(b, a) /\ ~IsPrefix(a, b)
<1>1. Before(a, b)
  <2>1. n \in 0..Len(a)
    OBVIOUS
  <2> QED
    BY <2>1, BeforeAt
<1>2. ~Before(b, a)
  <2> SUFFICES ASSUME NEW k \in 0..Len(b), k < Len(a), SameTo(b, a, k),
                      k = Len(b) \/ b[k + 1] < a[k + 1]
               PROVE  FALSE
    BY BeforeAt
  <2>1. k \in Nat /\ Len(a) \in Nat /\ Len(b) \in Nat
    OBVIOUS
  <2>2. CASE k > n
    <3>1. n + 1 \in 1..k
      BY <2>1, <2>2
    <3>2. b[n + 1] = a[n + 1] /\ a[n + 1] \in Int
      BY <2>1, <3>1 DEF SameTo
    <3> QED
      BY <3>2
  <2>3. CASE k < n
    <3>1. k + 1 \in 1..n /\ k # Len(b)
      BY <2>1, <2>3
    <3>2. b[k + 1] = a[k + 1] /\ a[k + 1] \in Int
      BY <2>1, <3>1 DEF SameTo
    <3> QED
      BY <3>1, <3>2
  <2>4. CASE k = n
    <3>1. a[n + 1] \in Int /\ b[n + 1] \in Int
      BY <2>1
    <3> QED
      BY <2>1, <2>4, <3>1
  <2> QED
    BY <2>1, <2>2, <2>3, <2>4
<1>3. n + 1 \in 1..Len(a) /\ n + 1 \in 1..Len(b) /\ a[n + 1] # b[n + 1]
  OBVIOUS
<1>4. ~IsPrefix(b, a) /\ ~IsPrefix(a, b)
  <2>1. /\ IsPrefix(b, a) => SameTo(b, a, Len(b))
        /\ IsPrefix(a, b) => SameTo(a, b, Len(a))
    BY PrefixIsSame
  <2> QED
    BY <1>3, <2>1 DEF SameTo
<1> QED
  BY <1>1, <1>2, <1>3, <1>4

(* A word and its beginning.                                               *)
LEMMA WordsAlike ==
  ASSUME NEW a \in Seq(Int), NEW b \in Seq(Int), Len(a) <= Len(b), SameTo(a, b, Len(a))
  PROVE  /\ Before(a, b) <=> Len(a) < Len(b)
         /\ ~Before(b, a) /\ (a = b <=> Len(a) = Len(b)) /\ IsPrefix(a, b)
         /\ IsPrefix(b, a) <=> Len(a) = Len(b)
<1>1. Len(a) \in Nat /\ Len(b) \in Nat
  OBVIOUS
<1>2. ASSUME Len(a) < Len(b) PROVE Before(a, b)
  BY <1>1, <1>2, BeforeAt
<1>3. ASSUME Before(a, b) PROVE Len(a) < Len(b)
  <2>1. PICK n \in 0..Len(a) : /\ n < Len(b) /\ SameTo(a, b, n)
                               /\ n = Len(a) \/ a[n + 1] < b[n + 1]
    BY <1>3, BeforeAt
  <2>2. CASE n < Len(a)
    <3>1. n + 1 \in 1..Len(a) /\ n # Len(a)
      BY <1>1, <2>2
    <3>2. a[n + 1] = b[n + 1] /\ a[n + 1] \in Int
      BY <3>1 DEF SameTo
    <3> QED
      BY <2>1, <3>1, <3>2
  <2> QED
    BY <1>1, <2>1, <2>2
<1>4. ~Before(b, a)
  <2> SUFFICES ASSUME NEW k \in 0..Len(b), k < Len(a),
                      k = Len(b) \/ b[k + 1] < a[k + 1]
               PROVE  FALSE
    BY BeforeAt
  <2>1. k + 1 \in 1..Len(a) /\ k # Len(b)
    BY <1>1
  <2>2. a[k + 1] = b[k + 1] /\ a[k + 1] \in Int
    BY <2>1 DEF SameTo
  <2> QED
    BY <2>1, <2>2
<1>5. a = b <=> Len(a) = Len(b)
  BY SeqEqual DEF SameTo
<1>6. IsPrefix(a, b)
  BY <1>1, SameStart DEF IsPrefix
<1>7. IsPrefix(b, a) <=> Len(a) = Len(b)
  <2>1. IsPrefix(b, a) => Len(a) = Len(b)
    BY <1>1 DEF IsPrefix
  <2> QED
    BY <1>5, <1>6, <2>1
<1> QED
  BY <1>2, <1>3, <1>4, <1>5, <1>6, <1>7

(* A piece that is not empty lies in the memory.                           *)
IsPiece(p) ==
  /\ p \in [ptr_ : Nat, length_ : Nat]
  /\ p.length_ # 0 => p.ptr_ >= 1 /\ p.ptr_ + p.length_ - 1 <= MemorySize

StringsInv ==
  /\ memory \in [1..MemorySize -> 0..255] /\ memory[MemorySize] = 0
  /\ IsPiece(this) /\ IsPiece(that)

(* There is a 0 byte, so strlen() ends before the memory does.             *)
LEMMA StrlenEnds ==
  ASSUME StringsInv, NEW str \in 1..MemorySize
  PROVE  strlen(str) \in 0..(MemorySize - str)
<1> DEFINE Zeros == {n \in 0..(MemorySize - str) : memory[str + n] = 0}
<1>1. MemorySize \in Nat \ {0} /\ str \in Nat
  BY StringPieceAssumption
<1>2. MemorySize - str \in Zeros /\ Zeros \subseteq Nat
  <2>1. MemorySize - str \in 0..(MemorySize - str) /\ str + (MemorySize - str) = MemorySize
    BY <1>1
  <2> QED
    BY <2>1 DEF StringsInv
<1>3. PICK m \in Zeros : \A k \in Zeros : m <= k
  <2> HIDE DEF Zeros
  <2> QED
    BY <1>2, Least
<1>4. \A i \in 0..(m - 1) : memory[str + i] # 0
  <2> SUFFICES ASSUME NEW i \in 0..(m - 1), memory[str + i] = 0 PROVE FALSE
    OBVIOUS
  <2>1. i \in 0..(MemorySize - str) /\ ~(m <= i)
    BY <1>1
  <2> QED
    BY <1>3, <2>1
<1> QED
  BY <1>3, <1>4 DEF strlen

(* Bytes of pieces, and what memcmp() finds.                               *)
LEMMA PieceBytes ==
  ASSUME StringsInv, NEW p, IsPiece(p)
  PROVE  /\ as_string(p) \in Seq(Int) /\ Len(as_string(p)) = p.length_
         /\ \A i \in 1..p.length_ : as_string(p)[i] = memory[p.ptr_ + i - 1]
<1>1. p.length_ \in Nat /\ p.ptr_ \in Nat /\ MemorySize \in Nat
  BY StringPieceAssumption DEF IsPiece
<1>2. ASSUME NEW i \in 1..p.length_ PROVE memory[p.ptr_ + i - 1] \in Int
  <2>1. p.ptr_ + i - 1 \in 1..MemorySize
    BY <1>1 DEF IsPiece
  <2>2. memory[p.ptr_ + i - 1] \in 0..255
    BY <2>1 DEF StringsInv
  <2> QED
    BY <2>2
<1> QED
  BY <1>1, <1>2 DEF as_string

LEMMA MemcmpFinds ==
  ASSUME StringsInv, NEW p, NEW q, IsPiece(p), IsPiece(q),
         NEW n \in Nat, n <= p.length_, n <= q.length_
  PROVE  LET a == as_string(p)
             b == as_string(q)
         IN \/ memcmp(p, q, n) = 0 /\ SameTo(a, b, n)
            \/ \E k \in Nat : /\ k < n /\ SameTo(a, b, k) /\ a[k + 1] # b[k + 1]
                              /\ memcmp(p, q, n) = a[k + 1] - b[k + 1]
<1> DEFINE a == as_string(p)
           b == as_string(q)
           differ == {i \in 0..(n - 1) : memory[p.ptr_ + i] # memory[q.ptr_ + i]}
           first == CHOOSE i \in differ : \A j \in differ : i <= j
<1>1. /\ p.ptr_ \in Nat /\ q.ptr_ \in Nat /\ p.length_ \in Nat /\ q.length_ \in Nat
  BY DEF IsPiece
<1>2. ASSUME NEW i \in 0..(n - 1)
      PROVE  a[i + 1] = memory[p.ptr_ + i] /\ b[i + 1] = memory[q.ptr_ + i]
  <2>1. /\ i + 1 \in 1..p.length_ /\ i + 1 \in 1..q.length_
        /\ p.ptr_ + (i + 1) - 1 = p.ptr_ + i /\ q.ptr_ + (i + 1) - 1 = q.ptr_ + i
    BY <1>1
  <2> QED
    BY <2>1, PieceBytes
<1>3. memcmp(p, q, n) = IF differ = {} THEN 0
                        ELSE memory[p.ptr_ + first] - memory[q.ptr_ + first]
  BY DEF memcmp
<1> HIDE DEF a, b
<1>4. CASE differ = {}
  <2>1. ASSUME NEW i \in 1..n PROVE a[i] = b[i]
    <3>1. i - 1 \in 0..(n - 1) /\ (i - 1) + 1 = i
      OBVIOUS
    <3>2. memory[p.ptr_ + (i - 1)] = memory[q.ptr_ + (i - 1)]
      BY <1>4, <3>1
    <3>3. a[(i - 1) + 1] = b[(i - 1) + 1]
      BY <1>2, <3>1, <3>2
    <3> QED
      BY <3>1, <3>3
  <2> QED
    BY <1>3, <1>4, <2>1 DEF SameTo, a, b
<1>5. CASE differ # {}
  <2>1. differ \subseteq Nat
    OBVIOUS
  <2>2. \E m \in differ : \A k \in differ : m <= k
    <3> HIDE DEF differ
    <3> QED
      BY <1>5, <2>1, Least
  <2>3. first \in differ /\ \A j \in differ : first <= j
    <3> HIDE DEF differ
    <3> QED
      BY <2>2
  <2> HIDE DEF first
  <2>4. first \in 0..(n - 1) /\ memory[p.ptr_ + first] # memory[q.ptr_ + first]
    BY <2>3
  <2>5. SameTo(a, b, first)
    <3> SUFFICES ASSUME NEW i \in 1..first PROVE a[i] = b[i]
      BY DEF SameTo
    <3>1. i - 1 \in 0..(n - 1) /\ (i - 1) + 1 = i /\ ~(first <= i - 1)
      BY <2>4
    <3>2. memory[p.ptr_ + (i - 1)] = memory[q.ptr_ + (i - 1)]
      BY <2>3, <3>1
    <3>3. a[(i - 1) + 1] = b[(i - 1) + 1]
      BY <1>2, <3>1, <3>2
    <3> QED
      BY <3>1, <3>3
  <2>6. a[first + 1] = memory[p.ptr_ + first] /\ b[first + 1] = memory[q.ptr_ + first]
    BY <1>2, <2>4
  <2>7. memcmp(p, q, n) = a[first + 1] - b[first + 1]
    BY <1>3, <1>5, <2>6
  <2>8. first \in Nat /\ first < n
    BY <2>4
  <2> QED
    BY <2>4, <2>5, <2>6, <2>7, <2>8 DEF a, b
<1> QED
  BY <1>4, <1>5

LEMMA StringsGoOn ==
  ASSUME StringsInv, [StringPieceNext]_strings PROVE StringsInv'
<1>1. MemorySize \in Nat \ {0}
  BY StringPieceAssumption
<1>2. CASE UNCHANGED strings
  BY <1>2 DEF StringsInv, IsPiece, strings
<1>3. CASE SetThis /\ UNCHANGED <<memory, that>>
  <2>1. IsPiece(this')
    <3>1. ASSUME NEW str \in 1..MemorySize, SetCString(str) PROVE IsPiece(this')
      <4>1. strlen(str) \in 0..(MemorySize - str)
        BY StrlenEnds
      <4>2. /\ this' = [ptr_ |-> str, length_ |-> strlen(str)] /\ str \in Nat
            /\ strlen(str) \in Nat /\ strlen(str) <= MemorySize - str /\ str >= 1
        BY <1>1, <3>1, <4>1 DEF SetCString, Piece
      <4> QED
        BY <1>1, <4>2 DEF IsPiece
    <3>2. ASSUME NEW buffer \in 1..MemorySize, NEW len \in 0..(MemorySize + 1 - buffer),
                 SetBuffer(buffer, len)
          PROVE  IsPiece(this')
      <4>1. /\ this' = [ptr_ |-> buffer, length_ |-> len] /\ buffer \in Nat /\ len \in Nat
            /\ buffer >= 1 /\ len <= MemorySize + 1 - buffer
        BY <1>1, <3>2 DEF SetBuffer, Piece
      <4> QED
        BY <1>1, <4>1 DEF IsPiece
    <3>3. ASSUME NEW n \in 1..this.length_, remove_prefix(n) \/ remove_suffix(n)
          PROVE  IsPiece(this')
      <4>1. /\ this.ptr_ \in Nat /\ this.length_ \in Nat /\ n \in Nat /\ n >= 1
            /\ n <= this.length_ /\ this \in [ptr_ : Nat, length_ : Nat]
            /\ this.ptr_ >= 1 /\ this.ptr_ + this.length_ - 1 <= MemorySize
        BY DEF StringsInv, IsPiece
      <4>2. CASE remove_prefix(n)
        <5>1. this' = [ptr_ |-> this.ptr_ + n, length_ |-> this.length_ - n]
          BY <4>2 DEF remove_prefix, Piece
        <5> QED
          BY <1>1, <4>1, <5>1 DEF IsPiece
      <4>3. CASE remove_suffix(n)
        <5>1. this' = [ptr_ |-> this.ptr_, length_ |-> this.length_ - n]
          BY <4>1, <4>3 DEF remove_suffix
        <5> QED
          BY <1>1, <4>1, <5>1 DEF IsPiece
      <4> QED
        BY <3>3, <4>2, <4>3
    <3>4. CASE Clear
      BY <3>4 DEF Clear, Piece, IsPiece
    <3> QED
      BY <1>3, <3>1, <3>2, <3>3, <3>4 DEF SetThis
  <2>2. IsPiece(that') /\ UNCHANGED memory
    BY <1>3 DEF StringsInv
  <2> QED
    BY <2>1, <2>2 DEF StringsInv, IsPiece
<1>4. CASE Swap /\ UNCHANGED memory
  <2>1. this' = that /\ that' = this /\ UNCHANGED memory
    BY <1>4 DEF Swap
  <2> QED
    BY <2>1 DEF StringsInv, IsPiece
<1> QED
  BY <1>2, <1>3, <1>4 DEF StringPieceNext

(* All the comparisons follow from the order of the words and of their     *)
(* lengths.                                                                *)
LEMMA OrderIsThatOfWords ==
  ASSUME StringsInv
  PROVE  LET a == as_string(this)
             b == as_string(that)
         IN order \in Int /\
            \/ order < 0 /\ Before(a, b) /\ ~Before(b, a) /\ a # b /\ ~IsPrefix(b, a)
            \/ order > 0 /\ Before(b, a) /\ ~Before(a, b) /\ a # b /\ ~IsPrefix(b, a)
            \/ /\ order = 0
               /\ Before(a, b) <=> this.length_ < that.length_
               /\ Before(b, a) <=> that.length_ < this.length_
               /\ a = b <=> this.length_ = that.length_
               /\ IsPrefix(b, a) <=> that.length_ <= this.length_
<1> DEFINE a == as_string(this)
           b == as_string(that)
           n == Shorter(this, that)
<1>1. /\ this.length_ \in Nat /\ that.length_ \in Nat /\ IsPiece(this) /\ IsPiece(that)
      /\ n \in Nat /\ n <= this.length_ /\ n <= that.length_
      /\ n = this.length_ \/ n = that.length_
  BY DEF StringsInv, IsPiece, Shorter
<1>2. /\ a \in Seq(Int) /\ Len(a) = this.length_
      /\ b \in Seq(Int) /\ Len(b) = that.length_
  BY <1>1, PieceBytes
<1>3. \/ order = 0 /\ SameTo(a, b, n)
      \/ \E k \in Nat : /\ k < n /\ SameTo(a, b, k) /\ a[k + 1] # b[k + 1]
                        /\ order = a[k + 1] - b[k + 1]
  BY <1>1, MemcmpFinds DEF order
<1> HIDE DEF a, b, n
<1>4. CASE order = 0 /\ SameTo(a, b, n)
  <2>1. CASE this.length_ <= that.length_
    <3>1. n = Len(a) /\ Len(a) <= Len(b)
      BY <1>1, <1>2, <2>1
    <3> QED
      BY <1>1, <1>2, <1>4, <2>1, <3>1, WordsAlike DEF a, b
  <2>2. CASE that.length_ <= this.length_
    <3>1. n = Len(b) /\ Len(b) <= Len(a) /\ SameTo(b, a, n)
      BY <1>1, <1>2, <1>4, <2>2 DEF SameTo
    <3> QED
      BY <1>1, <1>2, <1>4, <2>2, <3>1, WordsAlike DEF a, b
  <2> QED
    BY <1>1, <2>1, <2>2
<1>5. ASSUME NEW k \in Nat, k < n, SameTo(a, b, k), a[k + 1] # b[k + 1],
             order = a[k + 1] - b[k + 1]
      PROVE  order \in Int /\
             \/ order < 0 /\ Before(a, b) /\ ~Before(b, a) /\ a # b /\ ~IsPrefix(b, a)
             \/ order > 0 /\ Before(b, a) /\ ~Before(a, b) /\ a # b /\ ~IsPrefix(b, a)
  <2>1. k < Len(a) /\ k < Len(b) /\ SameTo(b, a, k)
    BY <1>1, <1>2, <1>5 DEF SameTo
  <2>2. a[k + 1] \in Int /\ b[k + 1] \in Int
    BY <1>2, <2>1
  <2>3. CASE a[k + 1] < b[k + 1]
    <3>1. order < 0 /\ order \in Int
      BY <1>5, <2>2, <2>3
    <3>2. Before(a, b) /\ ~Before(b, a) /\ a # b /\ ~IsPrefix(b, a)
      BY <1>2, <1>5, <2>1, <2>3, WordsDiffer
    <3> QED
      BY <3>1, <3>2
  <2>4. CASE b[k + 1] < a[k + 1]
    <3>1. order > 0 /\ order \in Int
      BY <1>5, <2>2, <2>4
    <3>2. Before(b, a) /\ ~Before(a, b) /\ b # a /\ ~IsPrefix(b, a)
      BY <1>2, <1>5, <2>1, <2>4, WordsDiffer
    <3> QED
      BY <3>1, <3>2
  <2> QED
    BY <1>5, <2>2, <2>3, <2>4
<1> QED
  BY <1>3, <1>4, <1>5 DEF a, b

(* For any memory and any two pieces of it, overlapping or at NULL, the    *)
(* comparisons agree with each other and with the order of the words       *)
(* (StringPiece.h:145-183).                                                *)
THEOREM ComparisonsAreOneOrder == StringPieceSpec => []OneOrder
<1>1. StringPieceInit => StringsInv
  <2> SUFFICES ASSUME StringPieceInit PROVE StringsInv
    OBVIOUS
  <2>1. memory \in [1..MemorySize -> 0..255]
    BY StringPieceAssumption DEF StringPieceInit
  <2> QED
    BY <2>1 DEF StringPieceInit, StringsInv, IsPiece, Piece
<1>2. StringsInv => OneOrder
  <2> SUFFICES ASSUME StringsInv PROVE OneOrder
    OBVIOUS
  <2> DEFINE a == as_string(this)
             b == as_string(that)
  <2>1. /\ this.length_ \in Nat /\ that.length_ \in Nat
        /\ Shorter(this, that) \in {this.length_, that.length_}
    BY DEF StringsInv, IsPiece, Shorter
  <2>2. \/ order < 0 /\ Before(a, b) /\ ~Before(b, a) /\ a # b /\ ~IsPrefix(b, a)
        \/ order > 0 /\ Before(b, a) /\ ~Before(a, b) /\ a # b /\ ~IsPrefix(b, a)
        \/ /\ order = 0
           /\ Before(a, b) <=> this.length_ < that.length_
           /\ Before(b, a) <=> that.length_ < this.length_
           /\ a = b <=> this.length_ = that.length_
           /\ IsPrefix(b, a) <=> that.length_ <= this.length_
    BY OrderIsThatOfWords
  <2>3. order \in Int
    BY OrderIsThatOfWords
  <2>4. Equal <=> this.length_ = that.length_ /\ order = 0
    BY <2>1 DEF Equal, order, Shorter
  <2>5. starts_with <=> this.length_ >= that.length_ /\ order = 0
    BY <2>1 DEF starts_with, order, Shorter
  <2> HIDE DEF a, b
  <2>6. /\ Under <=> Before(a, b)
        /\ Above <=> Before(b, a)
        /\ AtMost <=> ~Before(b, a)
        /\ AtLeast <=> ~Before(a, b)
    BY <2>1, <2>2, <2>3 DEF Under, Above, AtMost, AtLeast, OnTie
  <2>7. /\ compare < 0 <=> Under
        /\ compare > 0 <=> Above
    BY <2>1, <2>2, <2>3 DEF Under, Above, OnTie, compare
  <2>8. /\ Equal <=> a = b
        /\ starts_with <=> IsPrefix(b, a)
    BY <2>1, <2>2, <2>3, <2>4, <2>5
  <2>9. /\ Under = Before(a, b) /\ Above = Before(b, a)
        /\ AtMost = ~Before(b, a) /\ AtLeast = ~Before(a, b)
        /\ Equal = (a = b) /\ starts_with = IsPrefix(b, a)
    BY <2>6, <2>8 DEF Under, Above, AtMost, AtLeast, Equal, starts_with, Before, IsPrefix
  <2> QED
    BY <2>7, <2>9 DEF OneOrder, a, b
<1> QED
  BY <1>1, <1>2, StringsGoOn, PTL DEF StringPieceSpec

-----------------------------------------------------------------------------
(* Convert.                                                                *)

Abs(n) == IF n < 0 THEN -n ELSE n
Digits == 0..(base - 1)

(* The values that the loop variable took, from the number itself to r,    *)
(* each being the next one and the digit that was written in between.      *)
Course(f, b, r) ==
  /\ f \in [0..Len(b) -> Nat] /\ f[0] = Abs(value) /\ f[Len(b)] = Abs(r)
  /\ \A k \in 1..Len(b) : f[k - 1] = f[k] * base + b[k]

Written(b, r) ==
  /\ b \in Seq(Digits) /\ \E f : Course(f, b, r)
  /\ r = 0 /\ Len(b) > 1 => b[Len(b)] # 0

ConvertInv ==
  /\ base \in {10, 16} /\ value \in Int /\ rest \in Int /\ converted \in BOOLEAN
  /\ ~converted => Written(buf, rest)
  /\ converted => \E b : /\ Written(b, 0) /\ b # << >>
                         /\ buf = Reverse(IF value < 0 THEN Append(b, Minus) ELSE b)

(* One digit, of a negative number too.                                    *)
LEMMA OneDigit ==
  ASSUME NEW n \in Int, NEW k \in {10, 16}
  PROVE  /\ Quot(n, k) \in Int /\ Abs(n) \in Nat /\ Abs(Quot(n, k)) \in Nat
         /\ DigitAt(Rem(n, k)) \in 0..(k - 1)
         /\ Abs(n) = Abs(Quot(n, k)) * k + DigitAt(Rem(n, k))
<1> DEFINE a == Abs(n)
           q == a \div k
           d == a % k
<1>1. a \in Nat /\ k \in Nat \ {0}
  BY DEF Abs
<1>2. q \in Nat /\ d \in 0..(k - 1) /\ a = q * k + d
  BY <1>1, Quotient
<1>3. CASE n >= 0
  <2>1. a = n /\ Quot(n, k) = q
    BY <1>3 DEF Abs, Quot
  <2> HIDE DEF q, d, a
  <2>2. Abs(q) = q /\ k * q = q * k
    BY <1>1, <1>2 DEF Abs
  <2>3. Rem(n, k) = d
    BY <1>1, <1>2, <2>1, <2>2 DEF Rem
  <2>4. DigitAt(d) = d
    BY <1>1, <1>2 DEF DigitAt
  <2> QED
    BY <1>1, <1>2, <2>1, <2>2, <2>3, <2>4 DEF a
<1>4. CASE n < 0
  <2>1. a = -n /\ Quot(n, k) = -q
    BY <1>4 DEF Abs, Quot
  <2> HIDE DEF q, d, a
  <2>2. Abs(-q) = q /\ k * (-q) = -(q * k)
    BY <1>1, <1>2 DEF Abs
  <2>3. Rem(n, k) = -d
    BY <1>1, <1>2, <2>1, <2>2 DEF Rem
  <2>4. DigitAt(-d) = d
    BY <1>1, <1>2 DEF DigitAt
  <2>5. -q \in Int
    BY <1>2
  <2> QED
    BY <1>1, <1>2, <2>1, <2>2, <2>3, <2>4, <2>5 DEF a
<1> QED
  BY <1>3, <1>4

LEMMA DigitKeeps ==
  ASSUME ConvertInv, Digit
  PROVE  ConvertInv'
<1> DEFINE n == Len(buf)
           d == DigitAt(Rem(rest, base))
<1>1. /\ base \in {10, 16} /\ rest \in Int /\ value \in Int /\ ~converted
      /\ buf \in Seq(Digits) /\ rest' = Quot(rest, base) /\ buf' = Append(buf, d)
      /\ base' = base /\ value' = value /\ ~converted' /\ (rest # 0 \/ buf = << >>)
  BY DEF ConvertInv, Written, Digit, call
<1>2. /\ rest' \in Int /\ d \in Digits /\ Abs(rest') \in Nat /\ Abs(rest) \in Nat
      /\ Abs(rest) = Abs(rest') * base + d
  BY <1>1, OneDigit DEF Digits
<1>3. PICK f : Course(f, buf, rest)
  BY <1>1 DEF ConvertInv, Written
<1> HIDE DEF d
<1>4. n \in Nat /\ buf' \in Seq(Digits) /\ Len(buf') = n + 1 /\ buf'[n + 1] = d
      /\ \A k \in 1..n : buf'[k] = buf[k]
  BY <1>1, <1>2
<1> DEFINE g == [k \in 0..(n + 1) |-> IF k = n + 1 THEN Abs(rest') ELSE f[k]]
<1>5. Course(g, buf', rest')
  <2>1. /\ f \in [0..n -> Nat] /\ f[0] = Abs(value) /\ f[n] = Abs(rest)
        /\ \A k \in 1..n : f[k - 1] = f[k] * base + buf[k]
    BY <1>3 DEF Course
  <2> HIDE DEF n
  <2>2. g \in [0..(n + 1) -> Nat] /\ g[0] = Abs(value) /\ g[n + 1] = Abs(rest')
    BY <1>2, <1>4, <2>1
  <2>3. ASSUME NEW k \in 1..(n + 1) PROVE g[k - 1] = g[k] * base + buf'[k]
    <3>1. CASE k = n + 1
      <4>1. k - 1 = n /\ g[n] = f[n] /\ g[n + 1] = Abs(rest')
        BY <1>4, <3>1
      <4> HIDE DEF g
      <4> QED
        BY <1>2, <1>4, <2>1, <3>1, <4>1
    <3>2. CASE k # n + 1
      <4>1. k \in 1..n /\ g[k - 1] = f[k - 1] /\ g[k] = f[k]
        BY <1>4, <3>2
      <4> HIDE DEF g
      <4> QED
        BY <1>4, <2>1, <4>1
    <3> QED
      BY <3>1, <3>2
  <2> HIDE DEF g
  <2> QED
    BY <1>4, <2>2, <2>3 DEF Course
<1>6. rest' = 0 /\ Len(buf') > 1 => buf'[Len(buf')] # 0
  <2> SUFFICES ASSUME rest' = 0, Len(buf') > 1, d = 0 PROVE FALSE
    BY <1>4
  <2>1. buf # << >> /\ rest # 0
    BY <1>1, <1>4
  <2>2. Abs(rest') = 0
    BY DEF Abs
  <2>3. Abs(rest) = 0
    BY <1>1, <1>2, <2>2
  <2> QED
    BY <1>1, <2>1, <2>3 DEF Abs
<1> HIDE DEF g, n
<1>7. \E h : Course(h, buf', rest')
  BY <1>5
<1>8. (\E h : Course(h, buf, rest))'
  BY <1>1, <1>7 DEF Course
<1>9. Written(buf, rest)'
  BY <1>1, <1>4, <1>6, <1>8 DEF Written, Digits
<1>10. converted' = FALSE
  BY <1>1 DEF ConvertInv, Digit, call
<1> QED
  BY <1>1, <1>2, <1>9, <1>10 DEF ConvertInv

LEMMA ReverseTextKeeps ==
  ASSUME ConvertInv, ReverseText
  PROVE  ConvertInv'
<1>1. /\ base \in {10, 16} /\ rest \in Int /\ value \in Int /\ rest = 0 /\ buf # << >>
      /\ base' = base /\ value' = value /\ rest' = rest /\ converted' = TRUE
      /\ buf' = Reverse(IF value < 0 THEN Append(buf, Minus) ELSE buf)
  BY DEF ConvertInv, ReverseText, call
<1>2. Written(buf, 0)
  BY <1>1 DEF ConvertInv, ReverseText
<1>3. \E b : /\ Written(b, 0) /\ b # << >>
             /\ buf' = Reverse(IF value < 0 THEN Append(b, Minus) ELSE b)
  BY <1>1, <1>2
<1>4. \A b : Written(b, 0) => Written(b, 0)'
  BY <1>1 DEF Written, Course, Digits
<1>5. (\E b : /\ Written(b, 0) /\ b # << >>
              /\ buf = Reverse(IF value < 0 THEN Append(b, Minus) ELSE b))'
  BY <1>1, <1>3, <1>4
<1> QED
  BY <1>1, <1>5 DEF ConvertInv

LEMMA ConvertStarts == ConvertInit => ConvertInv
<1> SUFFICES ASSUME ConvertInit PROVE ConvertInv
  OBVIOUS
<1>1. base \in {10, 16} /\ value \in Int
  <2>1. base \in {10, 16} /\ value \in Signed \cup Unsigned
    BY DEF ConvertInit
  <2>2. Signed \cup Unsigned \subseteq Int
    BY ConvertAssumption
  <2> QED
    BY <2>1, <2>2
<1>2. rest = value /\ buf = << >> /\ converted = FALSE
  BY DEF ConvertInit
<1> DEFINE f == [k \in 0..0 |-> Abs(value)]
<1>3. Abs(value) \in Nat /\ Len(buf) = 0 /\ buf \in Seq(Digits)
  BY <1>1, <1>2 DEF Abs
<1>4. Course(f, buf, rest)
  BY <1>2, <1>3 DEF Course
<1> HIDE DEF f
<1>5. Written(buf, rest)
  BY <1>3, <1>4 DEF Written
<1> QED
  BY <1>1, <1>2, <1>5 DEF ConvertInv

LEMMA ConvertGoesOn == ConvertInv /\ [ConvertNext]_conversion => ConvertInv'
<1> SUFFICES ASSUME ConvertInv, [ConvertNext]_conversion PROVE ConvertInv'
  OBVIOUS
<1>1. CASE Digit
  BY <1>1, DigitKeeps
<1>2. CASE ReverseText
  BY <1>2, ReverseTextKeeps
<1>3. CASE UNCHANGED conversion
  BY <1>3 DEF ConvertInv, Written, Course, Digits, conversion, call
<1> QED
  BY <1>1, <1>2, <1>3 DEF ConvertNext, Converted

(* The digits in the order of the text, and their value.                   *)
LEMMA Reversed ==
  ASSUME NEW S, NEW b \in Seq(S)
  PROVE  /\ Reverse(b) \in Seq(S) /\ Len(Reverse(b)) = Len(b)
         /\ \A k \in 1..Len(b) : Reverse(b)[k] = b[Len(b) - k + 1]
<1>1. \A k \in 1..Len(b) : Len(b) - k + 1 \in 1..Len(b) /\ b[Len(b) - k + 1] \in S
  OBVIOUS
<1> QED
  BY <1>1 DEF Reverse

LEMMA HornerOfDigits ==
  ASSUME ConvertInv, NEW b, Written(b, 0)
  PROVE  Horner(Reverse(b)) = Abs(value)
<1> DEFINE d == Reverse(b)
           n == Len(b)
           Rec(h) == h = [k \in 0..n |-> IF k = 0 THEN 0 ELSE h[k - 1] * base + d[k]]
           c == CHOOSE h : Rec(h)
<1>1. b \in Seq(Digits) /\ n \in Nat /\ Len(d) = n /\ base \in {10, 16}
      /\ \A k \in 1..n : d[k] = b[n - k + 1]
  BY Reversed DEF Written, ConvertInv
<1>2. Horner(d) = c[n]
  BY <1>1 DEF Horner
<1>3. PICK f : Course(f, b, 0)
  BY DEF Written
<1> DEFINE g == [k \in 0..n |-> f[n - k]]
<1>4. /\ f \in [0..n -> Nat] /\ f[0] = Abs(value) /\ f[n] = 0
      /\ \A k \in 1..n : f[k - 1] = f[k] * base + b[k]
  BY <1>3 DEF Course, Abs
<1> HIDE DEF d, n
<1>5. ASSUME NEW k \in 0..n
      PROVE  g[k] = IF k = 0 THEN 0 ELSE g[k - 1] * base + d[k]
  <2>1. CASE k = 0
    BY <1>1, <1>4, <2>1
  <2>2. CASE k # 0
    <3>1. /\ k \in 1..n /\ k - 1 \in 0..n /\ n - k + 1 \in 1..n
          /\ (n - k + 1) - 1 = n - k /\ n - (k - 1) = n - k + 1
      BY <1>1, <2>2
    <3>2. g[k] = f[n - k] /\ g[k - 1] = f[n - k + 1]
      BY <3>1
    <3>3. f[n - k] = f[n - k + 1] * base + b[n - k + 1]
      BY <1>4, <3>1
    <3>4. d[k] = b[n - k + 1]
      BY <1>1, <3>1
    <3> HIDE DEF g
    <3> QED
      BY <2>2, <3>2, <3>3, <3>4
  <2> QED
    BY <2>1, <2>2
<1>6. Rec(g)
  BY <1>5
<1>7. Rec(c)
  <2> HIDE DEF Rec, g
  <2> QED
    BY <1>6
<1>8. \A k \in 0..n : c[k] = IF k = 0 THEN 0 ELSE c[k - 1] * base + d[k]
  <2> HIDE DEF c
  <2> QED
    BY <1>7
<1>9. g[n] = Abs(value)
  BY <1>1, <1>4
<1> HIDE DEF c, g
<1> DEFINE Bad == {k \in 0..n : c[k] # g[k]}
<1>10. Bad = {}
  <2> SUFFICES ASSUME Bad # {} PROVE FALSE
    OBVIOUS
  <2>1. Bad \subseteq Nat
    BY <1>1
  <2> HIDE DEF Bad
  <2>2. PICK m \in Bad : \A k \in Bad : m <= k
    BY <2>1, Least
  <2>3. m \in 0..n /\ c[m] # g[m] /\ m \in Nat
    BY <2>1, <2>2 DEF Bad
  <2>4. m # 0
    BY <1>5, <1>8, <2>3
  <2>5. m - 1 \in 0..n /\ m - 1 < m /\ ~(m <= m - 1)
    BY <1>1, <2>3, <2>4
  <2>6. c[m - 1] = g[m - 1]
    BY <2>2, <2>5 DEF Bad
  <2> QED
    BY <1>5, <1>8, <2>3, <2>4, <2>6
<1>11. n \in 0..n
  BY <1>1
<1>12. c[n] = g[n]
  BY <1>10, <1>11
<1> QED
  BY <1>2, <1>9, <1>12 DEF d

LEMMA ExactWhenDone == ConvertInv => ConvertExact
<1> SUFFICES ASSUME ConvertInv, converted PROVE ConvertExact
  BY DEF ConvertExact
<1>1. PICK b : /\ Written(b, 0) /\ b # << >>
               /\ buf = Reverse(IF value < 0 THEN Append(b, Minus) ELSE b)
  BY DEF ConvertInv
<1> DEFINE d == Reverse(b)
           n == Len(b)
<1>2. /\ b \in Seq(Digits) /\ n \in Nat /\ n >= 1 /\ base \in {10, 16} /\ value \in Int
      /\ n > 1 => b[n] # 0
  BY <1>1 DEF Written, ConvertInv
<1>3. /\ d \in Seq(Digits) /\ Len(d) = n
      /\ \A k \in 1..n : d[k] = b[n - k + 1]
  BY <1>2, Reversed
<1>4. Horner(d) = Abs(value)
  BY <1>1, HornerOfDigits
<1> HIDE DEF d, n
<1>5. d[1] = b[n] /\ (n > 1 => d[1] # 0)
  BY <1>2, <1>3
<1>6. /\ \A k \in DOMAIN d : d[k] \in 0..(base - 1)
      /\ Minus \notin Range(d)
      /\ Len(d) > 1 => d[1] # 0
  <2>1. \A k \in 1..n : d[k] \in 0..(base - 1)
    <3>1. \A S, q : q \in Seq(S) => \A k \in 1..Len(q) : q[k] \in S
      OBVIOUS
    <3>2. \A k \in 1..n : d[k] \in Digits
      BY <1>3, <3>1
    <3> QED
      BY <3>2 DEF Digits
  <2>2. DOMAIN d = 1..n
    BY <1>3
  <2>3. Minus \notin 0..(base - 1)
    BY <1>2 DEF Minus
  <2> QED
    BY <1>3, <1>5, <2>1, <2>2, <2>3 DEF Range
<1>7. CASE value < 0
  <2>1. Head(buf) = Minus /\ Tail(buf) = d
    <3> DEFINE e == Append(b, Minus)
    <3>1. e \in Seq(Int) /\ Len(e) = n + 1 /\ e[n + 1] = Minus /\ \A k \in 1..n : e[k] = b[k]
      BY <1>2 DEF Digits, Minus, n
    <3>2. buf = Reverse(e)
      BY <1>1, <1>7
    <3> HIDE DEF e
    <3>3. /\ buf \in Seq(Int) /\ Len(buf) = n + 1
          /\ \A k \in 1..(n + 1) : buf[k] = e[(n + 1) - k + 1]
      <4>1. \A S, q : q \in Seq(S) =>
              /\ Reverse(q) \in Seq(S) /\ Len(Reverse(q)) = Len(q)
              /\ \A k \in 1..Len(q) : Reverse(q)[k] = q[Len(q) - k + 1]
        BY Reversed, Zenon
      <4>2. /\ Reverse(e) \in Seq(Int) /\ Len(Reverse(e)) = Len(e)
            /\ \A k \in 1..Len(e) : Reverse(e)[k] = e[Len(e) - k + 1]
        BY <3>1, <4>1, Zenon
      <4> QED
        BY <3>1, <3>2, <4>2
    <3>4. Head(buf) = buf[1] /\ buf[1] = e[n + 1]
      BY <1>2, <3>3
    <3>5. /\ Tail(buf) \in Seq(Int) /\ Len(Tail(buf)) = n
          /\ \A k \in 1..n : Tail(buf)[k] = buf[k + 1]
      BY <1>2, <3>3
    <3>6. ASSUME NEW k \in 1..n PROVE Tail(buf)[k] = d[k]
      <4>1. k + 1 \in 1..(n + 1) /\ (n + 1) - (k + 1) + 1 = n - k + 1 /\ n - k + 1 \in 1..n
        BY <1>2
      <4>2. Tail(buf)[k] = e[n - k + 1]
        BY <3>3, <3>5, <4>1
      <4> QED
        BY <1>3, <3>1, <4>1, <4>2
    <3>7. d \in Seq(Int)
      BY <1>2, <1>3 DEF Digits
    <3>8. Tail(buf) = d
      BY <1>3, <3>5, <3>6, <3>7, SeqEqual
    <3> QED
      BY <3>1, <3>4, <3>8
  <2>2. Denoted(buf) = value
    <3>1. Denoted(buf) = -Horner(d)
      BY <2>1 DEF Denoted
    <3>2. Abs(value) = -value
      BY <1>7 DEF Abs
    <3> QED
      BY <1>2, <1>4, <3>1, <3>2
  <2>3. (IF Head(buf) = Minus THEN Tail(buf) ELSE buf) = d
    BY <2>1
  <2> QED
    BY <1>6, <2>2, <2>3 DEF ConvertExact
<1>8. CASE ~(value < 0)
  <2>1. buf = d
    BY <1>1, <1>8 DEF d
  <2>2. Head(d) = d[1] /\ d[1] # Minus
    <3>1. d # << >> /\ 1 \in DOMAIN d
      BY <1>2, <1>3
    <3> QED
      BY <1>3, <1>6, <3>1 DEF Range
  <2>3. Denoted(buf) = value
    <3>1. Denoted(buf) = Horner(d)
      BY <2>1, <2>2 DEF Denoted
    <3>2. Abs(value) = value
      BY <1>8 DEF Abs
    <3> QED
      BY <1>4, <3>1, <3>2
  <2>4. (IF Head(buf) = Minus THEN Tail(buf) ELSE buf) = d
    BY <2>1, <2>2
  <2> QED
    BY <1>6, <2>3, <2>4 DEF ConvertExact
<1> QED
  BY <1>7, <1>8

(* convert() and convertHex() write the number they are given, without a   *)
(* leading zero and with its sign, for every value of every integral type: *)
(* the smallest one too, whose negation the type does not have             *)
(* (LogStream.cc:48-85).                                                   *)
THEOREM TextIsTheNumber == ConvertSpec => []ConvertExact
<1> QED
  BY ConvertStarts, ConvertGoesOn, ExactWhenDone, PTL DEF ConvertSpec

-----------------------------------------------------------------------------
(* TimeZone.                                                               *)

Change == [gmttime : Int, localtimeIdx : Nat, localtime : Int]
Zone   == [gmtOffset : Int, isDst : BOOLEAN]
InOrder(changes) ==
  \A i, j \in DOMAIN changes : i < j => changes[i].gmttime < changes[j].gmttime

(* However far the file was read, the changes are in order.                *)
ZoneInv ==
  /\ zoneFile \in ZoneFiles
  /\ data_ \in [transitions : Seq(Change), names : BOOLEAN,
                localtimes : Seq(Zone)]
  /\ InOrder(data_.transitions)

(* What the assumption says of this file.                                  *)
Named(types) == [at : Int, type : DOMAIN types]
LEMMA FileTypes ==
  ASSUME zoneFile \in ZoneFiles
  PROVE  /\ zoneFile.types \in Seq(Zone)
         /\ zoneFile.transitions \in Seq(Named(zoneFile.types))
         /\ \A i, j \in DOMAIN zoneFile.transitions :
              i < j => zoneFile.transitions[i].at < zoneFile.transitions[j].at
BY ZoneFilesAssumption DEF Zone, Named

LEMMA ZoneGoesOn == ASSUME ZoneInv, [ZoneNext]_zoneVars PROVE ZoneInv'
<1>1. CASE UNCHANGED <<zoneFile, data_>>
  BY <1>1 DEF ZoneInv
<1>2. CASE FixedZone
  <2>1. PICK east \in Offsets :
          data_' = [EmptyData EXCEPT !.localtimes = <<Localtime(east, FALSE)>>, !.names = TRUE]
    BY <1>2 DEF FixedZone
  <2>2. data_' = [transitions |-> << >>, localtimes |-> <<Localtime(east, FALSE)>>, names |-> TRUE]
    BY <2>1 DEF EmptyData
  <2>3. Localtime(east, FALSE) \in Zone /\ UNCHANGED zoneFile
    BY <1>2, TimeZoneAssumption DEF Localtime, FixedZone, Zone
  <2>4. \A zone \in Zone : <<zone>> \in Seq(Zone)
    OBVIOUS
  <2>5. << >> \in Seq(Change) /\ InOrder(<< >>)
    BY DEF InOrder
  <2> QED
    BY <2>2, <2>3, <2>4, <2>5 DEF ZoneInv
<1>3. CASE ReadType
  <2> DEFINE more == Append(data_.localtimes, zoneFile.types[Len(data_.localtimes) + 1])
  <2>1. Len(data_.localtimes) + 1 \in DOMAIN zoneFile.types
    <3>1. Len(data_.localtimes) \in Nat
      BY DEF ZoneInv
    <3>2. DOMAIN zoneFile.types = 1..Len(zoneFile.types) /\ Len(zoneFile.types) \in Nat
      BY FileTypes DEF ZoneInv
    <3> QED
      BY <1>3, <3>1, <3>2 DEF ReadType
  <2>2. zoneFile.types[Len(data_.localtimes) + 1] \in Zone
    BY <2>1, FileTypes DEF ZoneInv
  <2>3. more \in Seq(Zone)
    BY <2>2 DEF ZoneInv
  <2>4. data_' = [data_ EXCEPT !.localtimes = more] /\ UNCHANGED zoneFile
    BY <1>3 DEF ReadType
  <2> HIDE DEF more
  <2> QED
    BY <2>3, <2>4 DEF ZoneInv
<1>4. CASE FillTransitions
  <2> DEFINE Filled(i) == LET t == zoneFile.transitions[i] IN
               [gmttime |-> t.at, localtimeIdx |-> t.type,
                localtime |-> LocalOf(t.at, data_.localtimes[t.type])]
             n == Len(zoneFile.transitions)
             filled == [i \in 1..n |-> Filled(i)]
  <2>1. /\ zoneFile.types \in Seq(Zone) /\ n \in Nat /\ DOMAIN zoneFile.transitions = 1..n
        /\ zoneFile.transitions \in Seq(Named(zoneFile.types))
        /\ \A i, j \in DOMAIN zoneFile.transitions :
             i < j => zoneFile.transitions[i].at < zoneFile.transitions[j].at
    BY FileTypes DEF ZoneInv
  <2>2. data_.localtimes \in Seq(Zone) /\ DOMAIN data_.localtimes = DOMAIN zoneFile.types
    BY <1>4, <2>1 DEF FillTransitions, ZoneInv
  <2>3. ASSUME NEW i \in 1..n PROVE Filled(i) \in Change
    <3>1. zoneFile.transitions[i] \in Named(zoneFile.types)
      BY <2>1
    <3>2. /\ zoneFile.transitions[i].at \in Int
          /\ zoneFile.transitions[i].type \in DOMAIN data_.localtimes
      BY <2>2, <3>1 DEF Named
    <3>3. /\ zoneFile.transitions[i].type \in Nat
          /\ data_.localtimes[zoneFile.transitions[i].type] \in Zone
      BY <2>2, <3>2
    <3>4. data_.localtimes[zoneFile.transitions[i].type].gmtOffset \in Int
      BY <3>3 DEF Zone
    <3> QED
      BY <3>2, <3>3, <3>4 DEF Change, LocalOf
  <2>4. filled \in Seq(Change) /\ DOMAIN filled = 1..n
    BY <2>1, <2>3
  <2>5. InOrder(filled)
    <3>1. \A i \in 1..n : filled[i].gmttime = zoneFile.transitions[i].at
      OBVIOUS
    <3> HIDE DEF filled, n
    <3> QED
      BY <2>1, <2>4, <3>1 DEF InOrder
  <2>6. data_' = [data_ EXCEPT !.transitions = filled] /\ UNCHANGED zoneFile
    BY <1>4, <2>1 DEF FillTransitions
  <2> HIDE DEF filled
  <2>7. data_'.transitions = filled
    BY <2>6 DEF ZoneInv
  <2> QED
    BY <2>4, <2>5, <2>6, <2>7 DEF ZoneInv
<1>5. CASE ReadNames
  BY <1>5 DEF ReadNames, ZoneInv
<1>6. CASE UNCHANGED zoneVars \/ OpenFile \/ OpenFails \/ Throw \/ ReadHead \/ Built
  BY <1>1, <1>6 DEF zoneVars, OpenFile, OpenFails, Throw, ReadHead, Built
<1> QED
  BY <1>2, <1>3, <1>4, <1>5, <1>6 DEF ZoneNext, Reading

(* The latest change that is not after t, in GMT or in local time, 0 when  *)
(* all are, and the type that it brings.                                   *)
Latest(m, t, field) ==
  /\ m \in 0..Len(data_.transitions)
  /\ m # 0 => data_.transitions[m][field] <= t
  /\ \A k \in (m + 1)..Len(data_.transitions) : data_.transitions[k][field] > t
Index(m) == IF m = 0 THEN 1 ELSE data_.transitions[m].localtimeIdx

Ascend(field) ==
  \A i, j \in DOMAIN data_.transitions :
    i < j => data_.transitions[i][field] < data_.transitions[j][field]

LEMMA ChangeTypes ==
  ASSUME ZoneInv, NEW c \in {"gmttime", "localtime"}
  PROVE  /\ Len(data_.transitions) \in Nat
         /\ DOMAIN data_.transitions = 1..Len(data_.transitions)
         /\ \A k \in 1..Len(data_.transitions) : data_.transitions[k][c] \in Int
<1>1. data_.transitions \in Seq(Change)
  BY DEF ZoneInv
<1>2. \A k \in 1..Len(data_.transitions) : data_.transitions[k] \in Change
  BY <1>1
<1>3. \A change \in Change : change[c] \in Int
  BY DEF Change
<1> QED
  BY <1>1, <1>2, <1>3

LEMMA LatestExists ==
  ASSUME ZoneInv, NEW c \in {"gmttime", "localtime"}, NEW t \in Int
  PROVE  \E m : Latest(m, t, c)
<1> DEFINE tr == data_.transitions
           n == Len(tr)
           S == {m \in 0..n : \A k \in (m + 1)..n : tr[k][c] > t}
<1>1. n \in Nat /\ \A k \in 1..n : tr[k][c] \in Int
  BY ChangeTypes
<1> HIDE DEF tr
<1> HIDE DEF n
<1>2. n \in S /\ S \subseteq Nat
  BY <1>1
<1> HIDE DEF S
<1>3. PICK m \in S : \A k \in S : m <= k
  BY <1>2, Least
<1>4. m \in 0..n /\ \A k \in (m + 1)..n : tr[k][c] > t
  BY <1>3 DEF S
<1>5. m # 0 => tr[m][c] <= t
  <2> SUFFICES ASSUME m # 0, ~(tr[m][c] <= t) PROVE FALSE
    OBVIOUS
  <2>1. m - 1 \in 0..n /\ m \in 1..n /\ ~(m <= m - 1)
    BY <1>1, <1>4
  <2>2. \A k \in ((m - 1) + 1)..n : tr[k][c] > t
    BY <1>1, <1>4, <2>1
  <2>3. m - 1 \in S
    BY <2>1, <2>2 DEF S
  <2> QED
    BY <1>3, <2>1, <2>3
<1> QED
  BY <1>4, <1>5 DEF Latest, tr, n

(* The search ends at the latest change that is not after t.               *)
LEMMA FindsTheLatest ==
  ASSUME ZoneInv, NEW c \in {"gmttime", "localtime"}, Ascend(c),
         NEW t \in Int, NEW m, Latest(m, t, c)
  PROVE  findLocaltime(t, c) = data_.localtimes[Index(m)]
<1> DEFINE tr == data_.transitions
           n == Len(tr)
           I == {k \in 1..n : tr[k][c] >= t}
           i == lower_bound(tr, t, c)
<1>1. /\ n \in Nat /\ DOMAIN tr = 1..n
      /\ tr = << >> <=> n = 0
      /\ \A k \in 1..n : tr[k][c] \in Int
      /\ \A k, l \in 1..n : k < l => tr[k][c] < tr[l][c]
  BY ChangeTypes DEF Ascend, ZoneInv
<1>2. /\ m \in 0..n
      /\ m # 0 => tr[m][c] <= t
      /\ \A k \in (m + 1)..n : tr[k][c] > t
  BY DEF Latest
<1>3. i = IF I # {} THEN Min(I) ELSE 0
  BY DEF lower_bound, SelectInSeq
<1>4. findLocaltime(t, c) =
        data_.localtimes[
          IF tr = << >> \/ t < tr[1][c] THEN 1
          ELSE IF i = 0 THEN Last(tr).localtimeIdx
          ELSE IF tr[i][c] # t THEN tr[i - 1].localtimeIdx
          ELSE tr[i].localtimeIdx]
  BY DEF findLocaltime, StepsBack
<1>5. Index(m) = IF m = 0 THEN 1 ELSE tr[m].localtimeIdx
  BY DEF Index
<1>6. I # {} => Min(I) \in I /\ \A k \in I : Min(I) <= k
  <2> SUFFICES ASSUME I # {} PROVE Min(I) \in I /\ \A k \in I : Min(I) <= k
    OBVIOUS
  <2>1. I \subseteq Nat
    BY <1>1
  <2> HIDE DEF I
  <2>2. \E k \in I : \A l \in I : k <= l
    BY <2>1, Least
  <2> QED
    BY <2>2 DEF Min
<1>7. Last(tr) = tr[n]
  BY DEF Last
<1> HIDE DEF tr, n, i
<1>8. CASE m = 0
  <2>1. tr = << >> \/ t < tr[1][c]
    BY <1>1, <1>2, <1>8
  <2> QED
    BY <1>4, <1>5, <1>8, <2>1
<1>9. CASE m # 0
  <2>1. m \in 1..n /\ 1 \in 1..n /\ tr[m][c] <= t /\ ~(tr = << >>)
    BY <1>1, <1>2, <1>9
  <2>2. ~(t < tr[1][c])
    <3>1. tr[1][c] <= tr[m][c]
      BY <1>1, <2>1
    <3> QED
      BY <1>1, <2>1, <3>1
  <2>3. CASE I = {}
    <3>1. m = n
      BY <1>1, <1>2, <2>1, <2>3
    <3>2. i = 0
      BY <1>3, <2>3
    <3> QED
      BY <1>4, <1>5, <1>7, <1>9, <2>1, <2>2, <3>1, <3>2
  <2>4. CASE I # {}
    <3>1. i \in 1..n /\ tr[i][c] >= t /\ \A k \in I : i <= k
      BY <1>3, <1>6, <2>4
    <3>2. i # 0
      BY <3>1
    <3>3. CASE tr[i][c] = t
      <4>1. i = m
        BY <1>1, <1>2, <2>1, <3>1, <3>3
      <4> QED
        BY <1>4, <1>5, <1>9, <2>1, <2>2, <3>2, <3>3, <4>1
    <3>4. CASE tr[i][c] # t
      <4>1. i > m
        BY <1>1, <2>1, <3>1, <3>4
      <4>2. m + 1 \in I
        BY <1>1, <1>2, <2>1, <3>1, <4>1
      <4>3. i - 1 = m
        BY <2>1, <3>1, <4>1, <4>2
      <4> QED
        BY <1>4, <1>5, <1>9, <2>1, <2>2, <3>2, <3>4, <4>3
    <3> QED
      BY <3>3, <3>4
  <2> QED
    BY <2>3, <2>4
<1> QED
  BY <1>8, <1>9

LEMMA InOrderAscends == ZoneInv => Ascend("gmttime")
BY DEF ZoneInv, InOrder, Ascend

(* What toLocalTime() returns at t.                                        *)
LEMMA ToLocal ==
  ASSUME ZoneInv, NEW t \in Int, NEW m, Latest(m, t, "gmttime")
  PROVE  toLocalTime(t) = [second |-> t + data_.localtimes[Index(m)].gmtOffset,
                           isDst |-> data_.localtimes[Index(m)].isDst]
<1>1. findLocaltime(t, "gmttime") = data_.localtimes[Index(m)]
  BY InOrderAscends, FindsTheLatest
<1> QED
  BY <1>1 DEF toLocalTime, LocalOf

LEMMA TypeOfLatest ==
  ASSUME ZoneInv, NEW t \in Int, NEW m, Latest(m, t, "gmttime")
  PROVE  TypeAt(t) = Index(m)
<1> DEFINE tr == data_.transitions
           n == Len(tr)
<1>1. /\ n \in Nat /\ DOMAIN tr = 1..n /\ \A k \in 1..n : tr[k].gmttime \in Int
      /\ \A k, l \in 1..n : k < l => tr[k].gmttime < tr[l].gmttime
  BY ChangeTypes DEF ZoneInv, InOrder
<1>2. /\ m \in 0..n
      /\ m # 0 => tr[m].gmttime <= t
      /\ \A k \in (m + 1)..n : tr[k].gmttime > t
  BY DEF Latest
<1>3. Changes(t) = {k \in 1..n : tr[k].gmttime <= t}
  BY <1>1 DEF Changes
<1>4. TypeAt(t) =
        IF Changes(t) = {} THEN 1
        ELSE tr[CHOOSE k \in Changes(t) : \A l \in Changes(t) : l <= k].localtimeIdx
  BY DEF TypeAt
<1>5. Index(m) = IF m = 0 THEN 1 ELSE tr[m].localtimeIdx
  BY DEF Index
<1> HIDE DEF tr, n
<1>6. CASE m = 0
  <2>1. Changes(t) = {}
    BY <1>1, <1>2, <1>3, <1>6
  <2> QED
    BY <1>4, <1>5, <1>6, <2>1
<1>7. CASE m # 0
  <2>1. m \in Changes(t) /\ \A l \in Changes(t) : l <= m
    BY <1>1, <1>2, <1>3, <1>7
  <2>2. \A k \in Changes(t) : (\A l \in Changes(t) : l <= k) => k = m
    BY <1>1, <1>3, <2>1
  <2>3. (CHOOSE k \in Changes(t) : \A l \in Changes(t) : l <= k) = m
    BY <2>1, <2>2
  <2> QED
    BY <1>4, <1>5, <1>7, <2>1, <2>3
<1> QED
  BY <1>6, <1>7

LEMMA ZoneStarts == ZoneInit => ZoneInv
<1> SUFFICES ASSUME ZoneInit PROVE ZoneInv
  OBVIOUS
<1>1. data_ = [transitions |-> << >>, localtimes |-> << >>, names |-> FALSE]
      /\ zoneFile \in ZoneFiles
  BY DEF ZoneInit, EmptyData
<1> QED
  BY <1>1 DEF ZoneInv, InOrder

(* For any file that has its transitions in order, toLocalTime() applies   *)
(* the latest change that is not after the time, from the first change to  *)
(* the last, and the one type of a zone that has no other                  *)
(* (TimeZone.cc:222-290).                                                  *)
THEOREM ZoneInForceApplies == ZoneSpec => []ZoneInForce
<1>1. ZoneInv => ZoneInForce
  <2> SUFFICES ASSUME ZoneInv, NEW t \in Times
               PROVE  toLocalTime(t) =
                        [second |-> t + data_.localtimes[TypeAt(t)].gmtOffset,
                         isDst |-> data_.localtimes[TypeAt(t)].isDst]
    BY DEF ZoneInForce
  <2>1. t \in Int
    BY TimeZoneAssumption
  <2>2. PICK m : Latest(m, t, "gmttime")
    BY <2>1, LatestExists
  <2> QED
    BY <2>1, <2>2, ToLocal, TypeOfLatest
<1> QED
  BY <1>1, ZoneStarts, ZoneGoesOn, PTL DEF ZoneSpec

(* What the constructors leave: one localtime and no change, or the first  *)
(* types of the file and none of its changes or, with all types, all.      *)
Fixed == zpc = "built" /\ data_.transitions = << >> /\ Len(data_.localtimes) = 1

TypesRead ==
  /\ Len(data_.localtimes) <= Len(zoneFile.types)
  /\ \A i \in 1..Len(data_.localtimes) : data_.localtimes[i] = zoneFile.types[i]

ChangesRead ==
  /\ Len(data_.localtimes) = Len(zoneFile.types)
  /\ Len(data_.transitions) = Len(zoneFile.transitions)
  /\ \A i \in 1..Len(data_.transitions) :
       /\ data_.transitions[i].gmttime = zoneFile.transitions[i].at
       /\ data_.transitions[i].localtimeIdx = zoneFile.transitions[i].type
       /\ data_.transitions[i].localtime =
            LocalOf(zoneFile.transitions[i].at,
                    zoneFile.types[zoneFile.transitions[i].type])

TableInv ==
  /\ zpc \in {"new", "head", "types"} => data_.transitions = << >>
  /\ zpc \in {"new", "head"} => data_.localtimes = << >>
  /\ Fixed \/ (TypesRead /\ (data_.transitions = << >> \/ ChangesRead))

LEMMA TableStarts == ZoneInit => TableInv
<1> SUFFICES ASSUME ZoneInit PROVE TableInv
  OBVIOUS
<1>1. data_ = [transitions |-> << >>, localtimes |-> << >>, names |-> FALSE]
      /\ zoneFile \in ZoneFiles
  BY DEF ZoneInit, EmptyData
<1>2. Len(zoneFile.types) \in Nat
  BY <1>1, FileTypes
<1> QED
  BY <1>1, <1>2 DEF TableInv, TypesRead

LEMMA TableGoesOn == ASSUME ZoneInv, TableInv, [ZoneNext]_zoneVars PROVE TableInv'
<1> USE DEF TableInv, Fixed, TypesRead, ChangesRead
<1>0. /\ zoneFile.types \in Seq(Zone) /\ Len(zoneFile.types) \in Nat
      /\ zoneFile.transitions \in Seq(Named(zoneFile.types))
      /\ Len(zoneFile.transitions) \in Nat
      /\ data_.localtimes \in Seq(Zone) /\ Len(data_.localtimes) \in Nat
      /\ data_ \in [transitions : Seq(Change), names : BOOLEAN, localtimes : Seq(Zone)]
  BY FileTypes DEF ZoneInv
<1>1. CASE UNCHANGED zoneVars \/ Built
  BY <1>1 DEF zoneVars, Built
<1>2. CASE FixedZone
  <2>1. PICK east \in Offsets :
          data_' = [EmptyData EXCEPT !.localtimes = <<Localtime(east, FALSE)>>, !.names = TRUE]
    BY <1>2 DEF FixedZone
  <2>2. data_'.transitions = << >> /\ Len(data_'.localtimes) = 1
    BY <2>1 DEF EmptyData
  <2>3. zpc' = "built"
    BY <1>2 DEF FixedZone
  <2> QED
    BY <2>2, <2>3
<1>3. CASE OpenFile \/ OpenFails \/ Throw \/ ReadHead
  BY <1>3 DEF OpenFile, OpenFails, Throw, ReadHead
<1>4. CASE ReadType
  <2> DEFINE n == Len(data_.localtimes)
  <2>1. /\ zpc = "types" /\ zpc' = "types" /\ n < Len(zoneFile.types) /\ zoneFile' = zoneFile
        /\ data_'.localtimes = Append(data_.localtimes, zoneFile.types[n + 1])
        /\ data_'.transitions = data_.transitions
    BY <1>0, <1>4 DEF ReadType
  <2>2. TypesRead /\ data_.transitions = << >>
    BY <2>1
  <2>3. /\ Len(data_'.localtimes) = n + 1 /\ data_'.localtimes[n + 1] = zoneFile.types[n + 1]
        /\ \A i \in 1..n : data_'.localtimes[i] = data_.localtimes[i]
    BY <1>0, <2>1
  <2>4. TypesRead'
    BY <1>0, <2>1, <2>2, <2>3
  <2> QED
    BY <2>1, <2>2, <2>4
<1>5. CASE FillTransitions
  <2> DEFINE n == Len(zoneFile.transitions)
  <2>1. /\ zpc = "types" /\ zpc' = "names" /\ zoneFile' = zoneFile
        /\ Len(data_.localtimes) = Len(zoneFile.types)
        /\ data_'.localtimes = data_.localtimes
        /\ data_'.transitions =
             [i \in DOMAIN zoneFile.transitions |->
               LET t == zoneFile.transitions[i] IN
               [gmttime |-> t.at, localtimeIdx |-> t.type,
                localtime |-> LocalOf(t.at, data_.localtimes[t.type])]]
    BY <1>0, <1>5 DEF FillTransitions
  <2>2. TypesRead
    BY <2>1
  <2>3. DOMAIN zoneFile.transitions = 1..n /\ n \in Nat
    BY <1>0
  <2>4. Len(data_'.transitions) = n
    BY <2>1, <2>3
  <2>5. ASSUME NEW i \in 1..n
        PROVE  /\ data_'.transitions[i].gmttime = zoneFile.transitions[i].at
               /\ data_'.transitions[i].localtimeIdx = zoneFile.transitions[i].type
               /\ data_'.transitions[i].localtime =
                    LocalOf(zoneFile.transitions[i].at,
                            zoneFile.types[zoneFile.transitions[i].type])
    <3>1. zoneFile.transitions[i] \in Named(zoneFile.types)
      BY <1>0
    <3>2. zoneFile.transitions[i].type \in DOMAIN zoneFile.types
      BY <3>1 DEF Named
    <3>3. DOMAIN zoneFile.types = 1..Len(data_.localtimes)
      BY <1>0, <2>1
    <3>4. data_.localtimes[zoneFile.transitions[i].type] =
            zoneFile.types[zoneFile.transitions[i].type]
      BY <2>2, <3>2, <3>3
    <3>5. i \in DOMAIN zoneFile.transitions
      BY <2>3
    <3> HIDE DEF n
    <3>6. data_'.transitions[i] =
            [gmttime |-> zoneFile.transitions[i].at,
             localtimeIdx |-> zoneFile.transitions[i].type,
             localtime |-> LocalOf(zoneFile.transitions[i].at,
                                   data_.localtimes[zoneFile.transitions[i].type])]
      BY <2>1, <3>5
    <3> QED
      BY <3>4, <3>6
  <2> QED
    BY <2>1, <2>2, <2>4, <2>5
<1>6. CASE ReadNames
  <2>1. /\ zpc' = "built" /\ zoneFile' = zoneFile /\ data_'.localtimes = data_.localtimes
        /\ data_'.transitions = data_.transitions
    BY <1>0, <1>6 DEF ReadNames
  <2> QED
    BY <1>6, <2>1 DEF ReadNames
<1> QED
  BY <1>1, <1>2, <1>3, <1>4, <1>5, <1>6 DEF ZoneNext, Reading

(* In a zone that saves an hour the types differ by that, local times are  *)
(* those of the changes, and the changes are further apart.                *)
LEMMA OneHourApart ==
  ASSUME ZoneInv, TableInv, SavesOneHour(zoneFile)
  PROVE  /\ \A i, j \in 1..Len(data_.localtimes) :
              StandardOffset(data_.localtimes[i]) = StandardOffset(data_.localtimes[j])
         /\ \A i \in 1..Len(data_.transitions) :
              /\ data_.transitions[i].localtimeIdx \in 1..Len(data_.localtimes)
              /\ data_.transitions[i].localtime =
                   data_.transitions[i].gmttime
                     + data_.localtimes[data_.transitions[i].localtimeIdx].gmtOffset
         /\ \A i \in 2..Len(data_.transitions) :
              data_.transitions[i].gmttime > data_.transitions[i - 1].gmttime + Hour
<1>0. /\ zoneFile.types \in Seq(Zone) /\ Len(zoneFile.types) \in Nat
      /\ zoneFile.transitions \in Seq(Named(zoneFile.types))
      /\ Len(zoneFile.transitions) \in Nat
      /\ data_.localtimes \in Seq(Zone) /\ Len(data_.localtimes) \in Nat
  BY FileTypes DEF ZoneInv
<1>1. CASE Fixed
  BY <1>1 DEF Fixed
<1>2. CASE TypesRead /\ data_.transitions = << >>
  BY <1>0, <1>2 DEF TypesRead, SavesOneHour
<1>3. CASE TypesRead /\ ChangesRead
  <2>1. ASSUME NEW i \in 1..Len(data_.transitions)
        PROVE  zoneFile.transitions[i].type \in 1..Len(data_.localtimes)
    <3>1. zoneFile.transitions[i] \in Named(zoneFile.types)
      BY <1>0, <1>3 DEF ChangesRead
    <3> QED
      BY <1>0, <1>3, <3>1 DEF Named, ChangesRead
  <2>2. \A i, j \in 1..Len(data_.localtimes) :
          StandardOffset(data_.localtimes[i]) = StandardOffset(data_.localtimes[j])
    BY <1>0, <1>3 DEF TypesRead, SavesOneHour
  <2>3. \A i \in 2..Len(data_.transitions) :
              data_.transitions[i].gmttime > data_.transitions[i - 1].gmttime + Hour
    BY <1>0, <1>3 DEF ChangesRead, SavesOneHour
  <2>4. ASSUME NEW i \in 1..Len(data_.transitions)
        PROVE  /\ data_.transitions[i].localtimeIdx \in 1..Len(data_.localtimes)
               /\ data_.transitions[i].localtime =
                   data_.transitions[i].gmttime
                     + data_.localtimes[data_.transitions[i].localtimeIdx].gmtOffset
    <3>1. /\ data_.transitions[i].gmttime = zoneFile.transitions[i].at
          /\ data_.transitions[i].localtimeIdx = zoneFile.transitions[i].type
          /\ data_.transitions[i].localtime =
               zoneFile.transitions[i].at
                 + zoneFile.types[zoneFile.transitions[i].type].gmtOffset
      BY <1>3 DEF ChangesRead, LocalOf
    <3>2. data_.localtimes[zoneFile.transitions[i].type]
            = zoneFile.types[zoneFile.transitions[i].type]
      BY <1>3, <2>1 DEF TypesRead
    <3> QED
      BY <2>1, <3>1, <3>2
  <2> QED
    BY <2>2, <2>3, <2>4
<1> QED
  BY <1>1, <1>2, <1>3 DEF TableInv

(* The zone after change m, 0 being before the first.                      *)
ZoneAfter(m) == data_.localtimes[Index(m)]

LEMMA ZonesAfter ==
  ASSUME ZoneInv, TableInv, SavesOneHour(zoneFile), Convertible
  PROVE  \E east \in Int : \A m \in 0..Len(data_.transitions) :
           /\ ZoneAfter(m) \in Zone
           /\ ZoneAfter(m).gmtOffset = east + IF ZoneAfter(m).isDst THEN Hour ELSE 0
           /\ m # 0 => data_.transitions[m].localtime =
                         data_.transitions[m].gmttime + ZoneAfter(m).gmtOffset
<1> DEFINE lt == data_.localtimes
           tr == data_.transitions
           east == StandardOffset(lt[1])
<1>1. /\ lt \in Seq(Zone) /\ Len(lt) \in Nat /\ Len(lt) >= 1 /\ Len(tr) \in Nat
      /\ \A i \in 1..Len(lt) : lt[i] \in Zone
  BY ChangeTypes DEF ZoneInv, Convertible
<1>2. /\ \A i, j \in 1..Len(lt) : StandardOffset(lt[i]) = StandardOffset(lt[j])
      /\ \A i \in 1..Len(tr) :
           /\ tr[i].localtimeIdx \in 1..Len(lt)
           /\ tr[i].localtime = tr[i].gmttime + lt[tr[i].localtimeIdx].gmtOffset
  BY OneHourApart
<1>3. \A m \in 0..Len(tr) : Index(m) = IF m = 0 THEN 1 ELSE tr[m].localtimeIdx
  BY DEF Index
<1>4. \A m : ZoneAfter(m) = lt[Index(m)]
  BY DEF ZoneAfter
<1>5. \A z \in Zone : z.gmtOffset = StandardOffset(z) + (IF z.isDst THEN Hour ELSE 0)
                      /\ StandardOffset(z) \in Int
  BY TimeZoneAssumption DEF Zone, StandardOffset
<1> HIDE DEF lt, tr
<1>6. 1 \in 1..Len(lt)
  BY <1>1
<1>7. \A m \in 0..Len(tr) : Index(m) \in 1..Len(lt)
  BY <1>1, <1>2, <1>3, <1>6
<1>8. east \in Int
  BY <1>1, <1>5, <1>6
<1>9. ASSUME NEW m \in 0..Len(tr)
      PROVE  /\ ZoneAfter(m) \in Zone
             /\ ZoneAfter(m).gmtOffset = east + IF ZoneAfter(m).isDst THEN Hour ELSE 0
             /\ m # 0 => tr[m].localtime = tr[m].gmttime + ZoneAfter(m).gmtOffset
  <2>1. ZoneAfter(m) \in Zone
    BY <1>1, <1>4, <1>7
  <2>2. StandardOffset(ZoneAfter(m)) = east
    BY <1>2, <1>4, <1>6, <1>7
  <2>3. ZoneAfter(m).gmtOffset = east + IF ZoneAfter(m).isDst THEN Hour ELSE 0
    <3> HIDE DEF east
    <3> QED
      BY <1>5, <2>1, <2>2
  <2>4. m # 0 => tr[m].localtime = tr[m].gmttime + ZoneAfter(m).gmtOffset
    <3>1. m # 0 => m \in 1..Len(tr)
      BY <1>1
    <3> QED
      BY <1>2, <1>3, <1>4, <3>1
  <2> QED
    BY <2>1, <2>3, <2>4
<1> HIDE DEF east
<1> QED
  BY <1>8, <1>9 DEF tr

(* Local time comes back, in the hour before the end of daylight saving by *)
(* way of the zone after it.                                               *)
LEMMA ComesBack ==
  ASSUME ZoneInv, TableInv, SavesOneHour(zoneFile), Convertible, NEW t \in Int
  PROVE  fromLocalTime(toLocalTime(t)) = t
<1> DEFINE tr == data_.transitions
           n == Len(tr)
<1>1. PICK k : Latest(k, t, "gmttime")
  BY LatestExists
<1>2. PICK east \in Int : \A m \in 0..n :
        /\ ZoneAfter(m) \in Zone
        /\ ZoneAfter(m).gmtOffset = east + IF ZoneAfter(m).isDst THEN Hour ELSE 0
        /\ m # 0 => tr[m].localtime = tr[m].gmttime + ZoneAfter(m).gmtOffset
  BY ZonesAfter
<1>3. /\ n \in Nat /\ DOMAIN tr = 1..n
      /\ \A m \in 1..n : tr[m].gmttime \in Int /\ tr[m].localtime \in Int
      /\ \A m \in 2..n : tr[m].gmttime > tr[m - 1].gmttime + Hour
      /\ Hour \in Nat
  BY ChangeTypes, OneHourApart, TimeZoneAssumption
<1>4. \A i, j \in 1..n : i < j => tr[i].gmttime < tr[j].gmttime
  BY <1>3 DEF ZoneInv, InOrder
<1>5. /\ k \in 0..n
      /\ k # 0 => tr[k].gmttime <= t
      /\ \A m \in (k + 1)..n : tr[m].gmttime > t
  BY <1>1 DEF Latest
<1> HIDE DEF tr
<1> HIDE DEF n
<1>6. \A i, j \in 1..n : i < j => tr[i].gmttime + Hour < tr[j].gmttime
  <2> SUFFICES ASSUME NEW i \in 1..n, NEW j \in 1..n, i < j
               PROVE  tr[i].gmttime + Hour < tr[j].gmttime
    OBVIOUS
  <2>1. j \in 2..n /\ j - 1 \in 1..n /\ (i = j - 1 \/ i < j - 1)
    BY <1>3
  <2>2. tr[i].gmttime <= tr[j - 1].gmttime
    BY <1>3, <1>4, <2>1
  <2> QED
    BY <1>3, <2>1, <2>2
<1>7. ASSUME NEW m \in 0..n
      PROVE  /\ ZoneAfter(m).isDst \in BOOLEAN
             /\ ZoneAfter(m).gmtOffset = IF ZoneAfter(m).isDst THEN east + Hour ELSE east
             /\ ZoneAfter(m).gmtOffset \in Int
  <2>1. ZoneAfter(m) \in Zone
        /\ ZoneAfter(m).gmtOffset = east + IF ZoneAfter(m).isDst THEN Hour ELSE 0
    BY <1>2
  <2> QED
    BY <2>1 DEF Zone
<1>8. \A m \in 1..n :
        /\ tr[m].localtime = tr[m].gmttime + ZoneAfter(m).gmtOffset
        /\ east + tr[m].gmttime <= tr[m].localtime
        /\ tr[m].localtime <= (east + Hour) + tr[m].gmttime
  <2> TAKE m \in 1..n
  <2>1. m \in 0..n /\ m # 0
    BY <1>3
  <2>2. tr[m].localtime = tr[m].gmttime + ZoneAfter(m).gmtOffset
    BY <1>2, <2>1
  <2>3. ZoneAfter(m).gmtOffset = east \/ ZoneAfter(m).gmtOffset = east + Hour
    BY <1>7, <2>1
  <2>4. tr[m].gmttime \in Int /\ Hour \in Nat
    BY <1>3
  <2>5. \A g, o, h, e \in Int : h >= 0 /\ (o = e \/ o = e + h) =>
          e + g <= g + o /\ g + o <= (e + h) + g
    OBVIOUS
  <2>6. ZoneAfter(m).gmtOffset \in Int
    BY <1>7, <2>1
  <2>7. /\ east + tr[m].gmttime <= tr[m].gmttime + ZoneAfter(m).gmtOffset
        /\ tr[m].gmttime + ZoneAfter(m).gmtOffset <= (east + Hour) + tr[m].gmttime
    BY <2>3, <2>4, <2>5, <2>6
  <2> QED
    BY <2>2, <2>7
<1>9. Ascend("localtime")
  <2>1. ASSUME NEW i \in 1..n, NEW j \in 1..n, i < j
        PROVE  tr[i].localtime < tr[j].localtime
    <3>1. tr[i].gmttime + Hour < tr[j].gmttime
      BY <1>6, <2>1
    <3>2. tr[i].localtime <= (east + Hour) + tr[i].gmttime
      BY <1>8
    <3>3. east + tr[j].gmttime <= tr[j].localtime
      BY <1>8
    <3>4. /\ tr[i].gmttime \in Int /\ tr[i].localtime \in Int
          /\ tr[j].gmttime \in Int /\ tr[j].localtime \in Int /\ Hour \in Int
      BY <1>3
    <3>5. \A a, b, c, d, h, e \in Int :
            a + h < c /\ b <= (e + h) + a /\ e + c <= d => b < d
      OBVIOUS
    <3> QED
      BY <3>1, <3>2, <3>3, <3>4, <3>5
  <2> QED
    BY <1>3, <2>1 DEF Ascend, tr
<1> DEFINE off == ZoneAfter(k).gmtOffset
           s == t + off
           dst == ZoneAfter(k).isDst
<1>10. toLocalTime(t) = [second |-> s, isDst |-> dst]
  BY <1>1, ToLocal DEF ZoneAfter
<1>11. off \in Int /\ dst \in BOOLEAN /\ off = (IF dst THEN east + Hour ELSE east)
  BY <1>5, <1>7
<1> HIDE DEF off, dst
<1>12. s \in Int /\ s - off = t
  BY <1>11
<1>13. ASSUME NEW j, Latest(j, s, "localtime")
       PROVE  fromLocalTime(toLocalTime(t)) =
                (s - IF IsRepeated([second |-> s, isDst |-> dst], ZoneAfter(j).gmtOffset)
                       THEN Hour ELSE 0) - ZoneAfter(j).gmtOffset
  <2>1. findLocaltime(s, "localtime") = ZoneAfter(j)
    BY <1>9, <1>12, <1>13, FindsTheLatest DEF ZoneAfter
  <2> HIDE DEF s
  <2> QED
    BY <1>10, <2>1 DEF fromLocalTime
<1>14. /\ k # 0 => tr[k].localtime <= s
       /\ \A m \in (k + 2)..n : tr[m].localtime > s
  <2>1. ASSUME k # 0 PROVE tr[k].localtime <= s
    <3>1. k \in 1..n
      BY <1>3, <1>5, <2>1
    <3>2. tr[k].localtime = tr[k].gmttime + off
      BY <1>8, <3>1 DEF off
    <3> QED
      BY <1>3, <1>5, <1>11, <2>1, <3>1, <3>2
  <2>2. ASSUME NEW m \in (k + 2)..n PROVE tr[m].localtime > s
    <3>1. m \in 1..n /\ k + 1 \in 1..n /\ k + 1 < m
      BY <1>3, <1>5
    <3>2. tr[k + 1].gmttime > t /\ tr[k + 1].gmttime + Hour < tr[m].gmttime
      BY <1>3, <1>5, <1>6, <3>1
    <3>3. tr[m].localtime >= east + tr[m].gmttime
      BY <1>3, <1>8, <3>1
    <3>4. s <= t + (east + Hour)
      BY <1>3, <1>11
    <3>5. tr[m].gmttime \in Int /\ tr[m].localtime \in Int /\ tr[k + 1].gmttime \in Int
      BY <1>3, <3>1
    <3>6. Hour \in Int
      BY <1>3
    <3>7. \A a, c, d, h, e, u \in Int :
            a > t /\ a + h < c /\ d >= e + c /\ u <= t + (e + h) => d > u
      OBVIOUS
    <3> HIDE DEF s
    <3> QED
      BY <1>12, <3>2, <3>3, <3>4, <3>5, <3>6, <3>7
  <2> QED
    BY <2>1, <2>2
<1>15. CASE k + 1 \in 1..n /\ tr[k + 1].localtime <= s
  <2>1. Latest(k + 1, s, "localtime")
    <3>1. (k + 1) + 1 = k + 2 /\ k + 1 # 0 /\ k + 1 \in 0..n
      BY <1>3, <1>5, <1>15
    <3> QED
      BY <1>14, <1>15, <3>1 DEF Latest, tr, n
  <2>2. tr[k + 1].gmttime > t /\ tr[k + 1].gmttime \in Int /\ k + 1 \in 0..n
    BY <1>3, <1>5, <1>15
  <2>3. /\ dst /\ ~ZoneAfter(k + 1).isDst /\ ZoneAfter(k + 1).gmtOffset = east
        /\ tr[k + 1].gmttime <= t + Hour
    <3>1. tr[k + 1].localtime = tr[k + 1].gmttime + ZoneAfter(k + 1).gmtOffset
      BY <1>8, <1>15
    <3>2. /\ ZoneAfter(k + 1).isDst \in BOOLEAN
          /\ ZoneAfter(k + 1).gmtOffset =
               IF ZoneAfter(k + 1).isDst THEN east + Hour ELSE east
      BY <1>7, <2>2
    <3>3. tr[k + 1].gmttime + ZoneAfter(k + 1).gmtOffset <= t + off
      BY <1>15, <3>1
    <3> QED
      BY <1>3, <1>11, <2>2, <3>2, <3>3
  <2>4. s - east = t + Hour
    BY <1>3, <1>11, <2>3
  <2>5. Latest(k + 1, t + Hour, "gmttime")
    <3>1. \A m \in ((k + 1) + 1)..n : tr[m].gmttime > t + Hour
      <4> TAKE m \in ((k + 1) + 1)..n
      <4>1. m \in 1..n /\ k + 1 < m
        BY <1>3, <1>5
      <4>2. tr[k + 1].gmttime + Hour < tr[m].gmttime /\ tr[m].gmttime \in Int
        BY <1>3, <1>6, <1>15, <4>1
      <4> QED
        BY <1>3, <2>2, <4>2
    <3> QED
      BY <2>2, <2>3, <3>1 DEF Latest, tr, n
  <2>6. toLocalTime(t + Hour) = [second |-> (t + Hour) + east, isDst |-> FALSE]
    <3>1. toLocalTime(t + Hour) = [second |-> (t + Hour) + ZoneAfter(k + 1).gmtOffset,
                                   isDst |-> ZoneAfter(k + 1).isDst]
      <4>1. t + Hour \in Int
        BY <1>3
      <4> QED
        BY <2>5, <4>1, ToLocal DEF ZoneAfter
    <3>2. ZoneAfter(k + 1).isDst = FALSE
      BY <1>7, <2>2, <2>3
    <3> QED
      BY <2>3, <3>1, <3>2
  <2>7. (t + Hour) + east = s
    BY <1>3, <1>11, <2>3
  <2>8. IsRepeated([second |-> s, isDst |-> dst], east)
    <3> HIDE DEF s
    <3> QED
      BY <2>3, <2>4, <2>6, <2>7 DEF IsRepeated, SameHourAndMinute
  <2>9. fromLocalTime(toLocalTime(t)) = (s - Hour) - east
    BY <1>13, <2>1, <2>3, <2>8
  <2> QED
    BY <1>3, <1>12, <2>4, <2>9
<1>16. CASE ~(k + 1 \in 1..n /\ tr[k + 1].localtime <= s)
  <2>1. \A m \in (k + 1)..n : tr[m].localtime > s
    <3> TAKE m \in (k + 1)..n
    <3>1. m = k + 1 \/ m \in (k + 2)..n
      BY <1>3, <1>5
    <3>2. m \in 1..n
      BY <1>3, <1>5
    <3>3. tr[m].localtime \in Int
      BY <1>3, <3>2
    <3> QED
      BY <1>12, <1>14, <1>16, <3>1, <3>2, <3>3
  <2>2. Latest(k, s, "localtime")
    BY <1>5, <1>14, <2>1 DEF Latest, tr, n
  <2>3. ~IsRepeated([second |-> s, isDst |-> dst], off)
    <3> HIDE DEF s
    <3> QED
      BY <1>10, <1>12 DEF IsRepeated
  <2>4. fromLocalTime(toLocalTime(t)) = (s - 0) - off
    BY <1>13, <2>2, <2>3 DEF off
  <2> QED
    BY <1>11, <1>12, <2>4
<1> QED
  BY <1>15, <1>16

(* In every zone that saves an hour, however its changes and types are     *)
(* arranged, and read to any point: local time leads back to the second it *)
(* came from, the hour that comes twice included (TimeZone.cc:271-313).    *)
THEOREM LocalTimeComesBack == ZoneSpec => []LocalRoundTrip
<1>1. ZoneInv /\ TableInv => LocalRoundTrip
  BY TimeZoneAssumption, ComesBack DEF LocalRoundTrip
<1> QED
  BY <1>1, ZoneStarts, ZoneGoesOn, TableStarts, TableGoesOn, PTL DEF ZoneSpec
-----------------------------------------------------------------------------
(* Units.                                                                  *)

(* Induction, for a set of numbers.                                        *)
LEMMA AllNumbers ==
  ASSUME NEW S, 0 \in S, \A n \in Nat : n \in S => n + 1 \in S
  PROVE  Nat \subseteq S
<1> DEFINE out == Nat \ S
<1> SUFFICES ASSUME out # {} PROVE FALSE
  OBVIOUS
<1>1. out \subseteq Nat
  OBVIOUS
<1>2. PICK m \in out : \A k \in out : m <= k
  <2> HIDE DEF out
  <2> QED
    BY <1>1, Least
<1>3. m \in Nat /\ m # 0 /\ m - 1 \in Nat /\ (m - 1) + 1 = m
  BY SMT
<1>4. m - 1 \notin out
  BY <1>2, <1>3
<1> QED
  BY <1>3, <1>4

(* A function on the numbers is given by its first value and a step.       *)
Starts(f, S, a, T, n) ==
  f \in [0..n -> S] /\ f[0] = a /\ \A k \in 1..n : f[k] = T[f[k - 1]]

LEMMA StartsAgree ==
  ASSUME NEW S, NEW a \in S, NEW T \in [S -> S], NEW n \in Nat, NEW m \in Nat,
         NEW f, NEW g, Starts(f, S, a, T, n), Starts(g, S, a, T, m)
  PROVE  \A k \in Nat : k <= n /\ k <= m => f[k] = g[k]
<1> DEFINE same == {k \in Nat : k <= n /\ k <= m => f[k] = g[k]}
<1>1. 0 \in same
  BY DEF Starts
<1>2. ASSUME NEW k \in Nat, k \in same PROVE k + 1 \in same
  <2> SUFFICES ASSUME k + 1 <= n, k + 1 <= m PROVE f[k + 1] = g[k + 1]
    OBVIOUS
  <2>1. k + 1 \in 1..n /\ k + 1 \in 1..m /\ (k + 1) - 1 = k /\ f[k] = g[k]
    BY <1>2
  <2> QED
    BY <2>1 DEF Starts
<1> HIDE DEF same
<1>3. Nat \subseteq same
  BY <1>1, <1>2, AllNumbers
<1> QED
  BY <1>3 DEF same

Iterates(f, S, a, T) ==
  f \in [Nat -> S] /\ f[0] = a /\ \A n \in Nat : f[n + 1] = T[f[n]]

LEMMA Iterated ==
  ASSUME NEW S, NEW a \in S, NEW T \in [S -> S]
  PROVE  \E f : Iterates(f, S, a, T)
<1> DEFINE Start(n, f) == Starts(f, S, a, T, n)
           reached == {n \in Nat : \E f : Start(n, f)}
           First(n) == CHOOSE f : Start(n, f)
           whole == [n \in Nat |-> First(n)[n]]
<1>1. 0 \in reached
  <2> DEFINE f == [k \in 0..0 |-> a]
  <2>1. Start(0, f)
    BY DEF Starts
  <2> QED
    BY <2>1
<1>2. ASSUME NEW n \in Nat, n \in reached PROVE n + 1 \in reached
  <2>1. PICK f : Start(n, f)
    BY <1>2
  <2> DEFINE g == [k \in 0..(n + 1) |-> IF k = n + 1 THEN T[f[n]] ELSE f[k]]
  <2>2. f \in [0..n -> S] /\ f[0] = a /\ \A k \in 1..n : f[k] = T[f[k - 1]]
    BY <2>1 DEF Starts
  <2>3. g \in [0..(n + 1) -> S]
    <3>1. f[n] \in S /\ T[f[n]] \in S
      BY <2>2
    <3>2. \A k \in 0..(n + 1) : k # n + 1 => k \in 0..n /\ f[k] \in S
      BY <2>2
    <3> QED
      BY <3>1, <3>2
  <2>4. g[0] = a
    BY <2>2
  <2>5. ASSUME NEW k \in 1..(n + 1) PROVE g[k] = T[g[k - 1]]
    <3>1. k - 1 \in 0..(n + 1) /\ k - 1 # n + 1 /\ g[k - 1] = f[k - 1]
      OBVIOUS
    <3>2. CASE k = n + 1
      BY <3>1, <3>2
    <3>3. CASE k # n + 1
      <4>1. k \in 1..n
        BY <3>3
      <4>2. g[k] = f[k]
        BY <3>3
      <4> QED
        BY <2>2, <3>1, <4>1, <4>2
    <3> QED
      BY <3>2, <3>3
  <2> HIDE DEF g
  <2>6. Start(n + 1, g)
    BY <2>3, <2>4, <2>5 DEF Starts
  <2> QED
    BY <2>6
<1> HIDE DEF reached
<1>3. Nat \subseteq reached
  BY <1>1, <1>2, AllNumbers
<1>4. \A n \in Nat : Start(n, First(n))
  <2> TAKE n \in Nat
  <2>1. \E f : Start(n, f)
    BY <1>3 DEF reached
  <2> HIDE DEF Start
  <2> QED
    BY <2>1
<1> HIDE DEF First
<1>5. \A n \in Nat : First(n) \in [0..n -> S] /\ First(n)[n] \in S
  BY <1>4 DEF Starts
<1>6. whole \in [Nat -> S]
  BY <1>5
<1>7. whole[0] = a
  BY <1>4 DEF Starts
<1>8. ASSUME NEW n \in Nat PROVE whole[n + 1] = T[whole[n]]
  <2>1. Start(n, First(n)) /\ Start(n + 1, First(n + 1)) /\ n + 1 \in Nat
    BY <1>4
  <2>2. First(n)[n] = First(n + 1)[n]
    BY <2>1, StartsAgree
  <2>3. First(n + 1)[n + 1] = T[First(n + 1)[n]]
    <3>1. n + 1 \in 1..(n + 1) /\ (n + 1) - 1 = n
      OBVIOUS
    <3> QED
      BY <2>1, <3>1 DEF Starts
  <2> QED
    BY <2>2, <2>3
<1> HIDE DEF whole
<1>9. Iterates(whole, S, a, T)
  BY <1>6, <1>7, <1>8 DEF Iterates
<1> QED
  BY <1>9

Positive == Nat \ {0}

LEMMA PowerGoesOn ==
  ASSUME NEW b \in Positive
  PROVE  /\ Power(b)[0] = 1
         /\ \A n \in Nat : Power(b)[n] \in Positive /\ Power(b)[n + 1] = b * Power(b)[n]
<1> DEFINE Rec(p) == p = [n \in Nat |-> IF n = 0 THEN 1 ELSE b * p[n - 1]]
           T == [n \in Positive |-> b * n]
           q == CHOOSE p : Rec(p)
<1>1. T \in [Positive -> Positive]
  <2>1. \A n \in Positive : b * n \in Positive
    BY DEF Positive
  <2> QED
    BY <2>1
<1>2. 1 \in Positive
  BY DEF Positive
<1>3. \E f : Iterates(f, Positive, 1, T)
  <2> HIDE DEF T
  <2> QED
    BY <1>1, <1>2, Iterated
<1>4. PICK f : f \in [Nat -> Positive] /\ f[0] = 1 /\ \A n \in Nat : f[n + 1] = T[f[n]]
  <2> HIDE DEF T
  <2> QED
    BY <1>3 DEF Iterates
<1>5. \A n \in Nat : f[n] = IF n = 0 THEN 1 ELSE b * f[n - 1]
  <2> TAKE n \in Nat
  <2>1. CASE n = 0
    BY <1>4, <2>1
  <2>2. CASE n # 0
    <3>1. n - 1 \in Nat /\ (n - 1) + 1 = n
      BY <2>2
    <3>2. f[n] = T[f[n - 1]] /\ f[n - 1] \in Positive
      BY <1>4, <3>1
    <3> QED
      BY <2>2, <3>2
  <2> QED
    BY <2>1, <2>2
<1>6. Rec(f)
  BY <1>4, <1>5
<1>7. Rec(q)
  <2> HIDE DEF Rec
  <2> QED
    BY <1>6
<1>8. Power(b) = q
  BY DEF Power
<1> HIDE DEF q
<1>9. q[0] = 1 /\ \A n \in Nat : q[n + 1] = b * q[n]
  <2>1. q = [n \in Nat |-> IF n = 0 THEN 1 ELSE b * q[n - 1]]
    BY <1>7
  <2>2. \A n \in Nat : q[n] = IF n = 0 THEN 1 ELSE b * q[n - 1]
    BY <2>1, Zenon
  <2>3. ASSUME NEW n \in Nat PROVE q[n + 1] = b * q[n]
    <3>1. n + 1 \in Nat /\ n + 1 # 0 /\ (n + 1) - 1 = n
      OBVIOUS
    <3> QED
      BY <2>2, <3>1
  <2> QED
    BY <2>2, <2>3
<1> DEFINE pos == {n \in Nat : q[n] \in Positive}
<1>10. 0 \in pos /\ \A n \in Nat : n \in pos => n + 1 \in pos
  BY <1>9 DEF Positive
<1> HIDE DEF pos
<1>11. Nat \subseteq pos
  BY <1>10, AllNumbers
<1> QED
  BY <1>8, <1>9, <1>11 DEF pos

LEMMA PowerAdds ==
  ASSUME NEW b \in Positive, NEW i \in Nat, NEW j \in Nat
  PROVE  Power(b)[i + j] = Power(b)[i] * Power(b)[j]
<1> DEFINE good == {n \in Nat : Power(b)[i + n] = Power(b)[i] * Power(b)[n]}
<1>1. \A n \in Nat : Power(b)[n] \in Nat /\ Power(b)[n + 1] = b * Power(b)[n]
  BY PowerGoesOn DEF Positive
<1>2. 0 \in good
  BY <1>1, PowerGoesOn
<1>3. ASSUME NEW n \in Nat, n \in good PROVE n + 1 \in good
  <2>1. i + n \in Nat /\ i + (n + 1) = (i + n) + 1
    OBVIOUS
  <2>2. Power(b)[i + (n + 1)] = b * Power(b)[i + n]
    BY <1>1, <2>1
  <2>3. Power(b)[i + n] = Power(b)[i] * Power(b)[n]
    BY <1>3
  <2>4. Power(b)[n + 1] = b * Power(b)[n]
    BY <1>1
  <2>5. \A x, y, z \in Nat : z * (x * y) = x * (z * y)
    OBVIOUS
  <2>6. b \in Nat /\ Power(b)[i] \in Nat /\ Power(b)[n] \in Nat
    BY <1>1 DEF Positive
  <2> QED
    BY <2>2, <2>3, <2>4, <2>5, <2>6
<1> HIDE DEF good
<1>4. Nat \subseteq good
  BY <1>2, <1>3, AllNumbers
<1> QED
  BY <1>4 DEF good

LEMMA PowerGrows ==
  ASSUME NEW b \in Positive, NEW i \in Nat, NEW j \in Nat, i <= j
  PROVE  Power(b)[i] <= Power(b)[j]
<1>1. j - i \in Nat /\ i + (j - i) = j
  OBVIOUS
<1>2. Power(b)[j] = Power(b)[i] * Power(b)[j - i]
  BY <1>1, PowerAdds
<1>3. Power(b)[i] \in Positive /\ Power(b)[j - i] \in Positive
  BY <1>1, PowerGoesOn
<1>4. \A x, y \in Positive : x <= x * y
  BY DEF Positive
<1> QED
  BY <1>2, <1>3, <1>4

(* The bits of a quotient: what the first ones leave is the rest.          *)
LEMMA BitsGoOn ==
  ASSUME NEW n \in Nat, NEW d \in Positive
  PROVE  \A k \in Nat :
           /\ Bits(n, d)[k].m \in Nat /\ Bits(n, d)[k].rest \in 0..(d - 1)
           /\ Bits(n, d)[k].m * d + Bits(n, d)[k].rest = n * Power(2)[k]
<1> DEFINE State == [m : Nat, rest : 0..(d - 1)]
           a == [m |-> n \div d, rest |-> n % d]
           More(b) == [m |-> 2 * b.m + (2 * b.rest) \div d, rest |-> (2 * b.rest) % d]
           T == [b \in State |-> More(b)]
           Rec(p) == p = [k \in Nat |-> IF k = 0 THEN a ELSE More(p[k - 1])]
           q == CHOOSE p : Rec(p)
<1>1. a \in State
  BY Quotient DEF Positive
<1>2. \A b \in State : More(b) \in State
  <2> TAKE b \in State
  <2>1. b.m \in Nat /\ b.rest \in 0..(d - 1) /\ 2 * b.rest \in Nat
    BY DEF Positive
  <2>2. (2 * b.rest) \div d \in Nat /\ (2 * b.rest) % d \in 0..(d - 1)
    BY <2>1, Quotient DEF Positive
  <2> QED
    BY <2>1, <2>2
<1> HIDE DEF More, a
<1>3. T \in [State -> State]
  BY <1>2
<1>4. \E f : Iterates(f, State, a, T)
  <2> HIDE DEF T, State
  <2> QED
    BY <1>1, <1>3, Iterated
<1>5. PICK f : f \in [Nat -> State] /\ f[0] = a /\ \A k \in Nat : f[k + 1] = T[f[k]]
  <2> HIDE DEF T, State
  <2> QED
    BY <1>4 DEF Iterates
<1>6. \A k \in Nat : f[k + 1] = More(f[k])
  <2> HIDE DEF State
  <2> QED
    BY <1>5
<1>7. \A k \in Nat : f[k] = IF k = 0 THEN a ELSE More(f[k - 1])
  <2> TAKE k \in Nat
  <2>1. k # 0 => k - 1 \in Nat /\ (k - 1) + 1 = k
    OBVIOUS
  <2> QED
    BY <1>5, <1>6, <2>1
<1>8. Rec(f)
  <2> HIDE DEF State, T
  <2>1. f = [k \in Nat |-> f[k]]
    BY <1>5
  <2> QED
    BY <1>7, <2>1
<1>9. Rec(q)
  <2> HIDE DEF Rec
  <2> QED
    BY <1>8
<1>10. Bits(n, d) = q
  BY DEF Bits, More, a
<1> HIDE DEF q, T
<1>11. q[0] = a /\ \A k \in Nat : q[k + 1] = More(q[k])
  <2>1. q = [k \in Nat |-> IF k = 0 THEN a ELSE More(q[k - 1])]
    BY <1>9
  <2>2. \A k \in Nat : q[k] = IF k = 0 THEN a ELSE More(q[k - 1])
    BY <2>1, Zenon
  <2>3. ASSUME NEW k \in Nat PROVE q[k + 1] = More(q[k])
    <3>1. k + 1 \in Nat /\ k + 1 # 0 /\ (k + 1) - 1 = k
      OBVIOUS
    <3> QED
      BY <2>2, <3>1
  <2> QED
    BY <2>2, <2>3
<1> DEFINE divides == {k \in Nat : q[k] \in State /\ q[k].m * d + q[k].rest = n * Power(2)[k]}
<1>12. 0 \in divides
  <2>1. q[0].m = n \div d /\ q[0].rest = n % d /\ q[0] \in State
    BY <1>1, <1>11 DEF a
  <2>2. Power(2)[0] = 1
    BY PowerGoesOn DEF Positive
  <2>3. (n \div d) * d + (n % d) = n
    BY Quotient DEF Positive
  <2> QED
    BY <2>1, <2>2, <2>3
<1>13. ASSUME NEW k \in Nat, k \in divides PROVE k + 1 \in divides
  <2> DEFINE m == q[k].m
             r == q[k].rest
             P == Power(2)[k]
  <2>1. m \in Nat /\ r \in 0..(d - 1) /\ m * d + r = n * P
    BY <1>13
  <2>2. P \in Nat /\ Power(2)[k + 1] = 2 * P
    BY PowerGoesOn DEF Positive
  <2>3. q[k + 1] = More(q[k]) /\ q[k + 1] \in State
    BY <1>2, <1>11, <1>13
  <2>4. q[k + 1].m = 2 * m + (2 * r) \div d /\ q[k + 1].rest = (2 * r) % d
    BY <2>3 DEF More
  <2> HIDE DEF m, r, P
  <2> DEFINE z == (2 * r) \div d
             w == (2 * r) % d
  <2>5. z \in Nat /\ w \in 0..(d - 1) /\ z * d + w = 2 * r
    <3>1. \A x \in Nat : /\ x \div d \in Nat /\ x % d \in 0..(d - 1)
                         /\ x = (x \div d) * d + (x % d)
      BY Quotient DEF Positive
    <3>2. 2 * r \in Nat
      BY <2>1
    <3> HIDE DEF Positive
    <3>3. z \in Nat /\ w \in 0..(d - 1) /\ 2 * r = z * d + w
      BY <3>1, <3>2, Zenon
    <3> QED
      BY <3>3
  <2> HIDE DEF z, w
  <2>6. (2 * m + z) * d + w = n * (2 * P)
    <3>1. d \in Nat
      BY DEF Positive
    <3>2. (2 * m + z) * d = 2 * (m * d) + z * d
      BY <2>1, <2>5, <3>1
    <3>3. n * (2 * P) = 2 * (n * P)
      BY <2>2
    <3>4. m * d \in Nat /\ z * d \in Nat /\ n * P \in Nat /\ w \in Nat
      BY <2>1, <2>2, <2>5, <3>1
    <3> DEFINE md == m * d
               zd == z * d
               nP == n * P
    <3>5. /\ (2 * m + z) * d = 2 * md + zd /\ n * (2 * P) = 2 * nP
          /\ md + r = nP /\ zd + w = 2 * r
      BY <2>1, <2>5, <3>2, <3>3
    <3>6. md \in Nat /\ zd \in Nat /\ nP \in Nat /\ w \in Nat /\ r \in Nat
      BY <2>1, <3>4
    <3> HIDE DEF Positive, md, zd, nP
    <3>7. 2 * md + zd + w = 2 * nP
      BY <3>5, <3>6
    <3> QED
      BY <3>5, <3>7
  <2>7. q[k + 1].m = 2 * m + z /\ q[k + 1].rest = w
    BY <2>4 DEF z, w
  <2> QED
    BY <2>2, <2>3, <2>6, <2>7
<1> HIDE DEF divides
<1>14. Nat \subseteq divides
  BY <1>12, <1>13, AllNumbers
<1> QED
  BY <1>10, <1>14 DEF divides

(* Inequations and a positive factor.                                      *)
LEMMA Factor ==
  ASSUME NEW a \in Int, NEW b \in Int, NEW d \in Positive
  PROVE  /\ a * d \in Int /\ (a + 1) * d = a * d + d
         /\ a <= b <=> a * d <= b * d
         /\ a < b <=> a * d < b * d
<1>1. d \in Int /\ d > 0
  BY DEF Positive
<1>2. \A x \in Int : x > 0 => x * d > 0
  BY <1>1
<1>3. (a - b) * d = a * d - b * d /\ (b - a) * d = b * d - a * d
      /\ (a + 1) * d = a * d + d /\ a * d \in Int /\ b * d \in Int
  BY <1>1
<1>4. a - b \in Int /\ b - a \in Int
  OBVIOUS
<1>5. a < b => a * d < b * d
  <2>1. a < b => (b - a) * d > 0
    BY <1>2, <1>4
  <2> QED
    BY <1>3, <2>1
<1>6. b < a => b * d < a * d
  <2>1. b < a => (a - b) * d > 0
    BY <1>2, <1>4
  <2> QED
    BY <1>3, <2>1
<1>7. a < b \/ a = b \/ b < a
  OBVIOUS
<1>8. CASE a < b
  BY <1>3, <1>5, <1>8
<1>9. CASE a = b
  BY <1>3, <1>9
<1>10. CASE b < a
  BY <1>3, <1>6, <1>10
<1> QED
  BY <1>7, <1>8, <1>9, <1>10

LEMMA MoreOf ==
  ASSUME NEW a \in Int, NEW b \in Int, NEW d \in Positive, a * d < b * d
  PROVE  a < b
BY Factor

LEMMA LimitIs == Precision \in Positive /\ LastUnit \in Positive /\ Limit \in Positive
<1>1. Precision \in Nat /\ 2 \in Positive
  BY UnitsAssumption DEF Positive
<1> QED
  BY <1>1, PowerGoesOn, UnitsAssumption DEF Limit, Positive

(* n / d with k bits behind the point, and what remains; then rounded.     *)
Quotients(x, n, d, m, left) ==
  /\ x.k \in Nat /\ m \in Nat /\ left \in 0..(d - 1)
  /\ m * d + left = n * Power(2)[x.k]
  /\ 2 * m >= Limit
  /\ x.m = Nearest(m, left, d)

LEMMA DivideIs ==
  ASSUME NEW n \in Positive, NEW d \in Positive, d <= Power(2)[10 * LastUnit]
  PROVE  \E m, left : Quotients(Divide(n, d), n, d, m, left)
<1> DEFINE bits == Bits(n, d)
           enough == {k \in Nat : 2 * bits[k].m >= Limit}
           last == Precision + 10 * LastUnit
           Right(k) == 2 * bits[k].m >= Limit /\ (k # 0 => 2 * bits[k - 1].m < Limit)
           k == CHOOSE k \in 0..last : Right(k)
<1>1. /\ Precision \in Nat /\ 10 * LastUnit \in Nat /\ last \in Nat
      /\ Limit \in Positive /\ n \in Nat /\ d \in Nat /\ 2 \in Positive
  BY LimitIs DEF Positive
<1>2. \A j \in Nat :
        /\ bits[j].m \in Nat /\ bits[j].rest \in 0..(d - 1)
        /\ bits[j].m * d + bits[j].rest = n * Power(2)[j]
  BY <1>1, BitsGoOn
<1> HIDE DEF bits
<1>3. last \in enough
  <2> DEFINE m == bits[last].m
             r == bits[last].rest
             E == Power(2)[10 * LastUnit]
  <2>1. Power(2)[last] = Limit * E
    BY <1>1, PowerAdds DEF Limit
  <2>2. E \in Positive
    BY <1>1, PowerGoesOn
  <2>3. m \in Nat /\ r \in 0..(d - 1) /\ m * d + r = n * (Limit * E)
    BY <1>1, <1>2, <2>1
  <2> HIDE DEF m, r, E, last
  <2>4. Limit * d <= Limit * E /\ Limit * E \in Positive
    <3>1. Limit * d = d * Limit /\ Limit * E = E * Limit
      BY <1>1, <2>2 DEF Positive
    <3>2. d * Limit <= E * Limit
      BY <1>1, <2>2, Factor DEF E, Positive
    <3> QED
      BY <1>1, <2>2, <3>1, <3>2 DEF Positive
  <2>5. Limit * E <= n * (Limit * E)
    <3> DEFINE p == Limit * E
    <3>1. p \in Positive
      BY <2>4
    <3> HIDE DEF p
    <3>2. p <= n * p
      BY <1>1, <3>1 DEF Positive
    <3> QED
      BY <3>2 DEF p
  <2>6. Limit * d < m * d + d
    BY <1>1, <2>2, <2>3, <2>4, <2>5 DEF Positive
  <2>7. Limit < m + 1
    <3>1. (m + 1) * d = m * d + d /\ m + 1 \in Int /\ Limit \in Int
      BY <1>1, <2>3, Factor DEF Positive
    <3>2. Limit * d < (m + 1) * d
      BY <2>6, <3>1
    <3> QED
      BY <3>1, <3>2, Factor
  <2>8. 2 * m >= Limit
    BY <1>1, <2>3, <2>7 DEF Positive
  <2> QED
    BY <1>1, <2>8 DEF m
<1>4. PICK j \in enough : \A i \in enough : j <= i
  <2>1. enough \subseteq Nat
    OBVIOUS
  <2> HIDE DEF enough
  <2> QED
    BY <1>3, <2>1, Least
<1>5. j \in 0..last /\ Right(j)
  <2>1. j \in Nat /\ j <= last /\ 2 * bits[j].m >= Limit
    BY <1>3, <1>4
  <2>2. ASSUME j # 0 PROVE 2 * bits[j - 1].m < Limit
    <3>1. j - 1 \in Nat /\ ~(j <= j - 1)
      BY <2>1, <2>2
    <3>2. j - 1 \notin enough
      BY <1>4, <3>1
    <3>3. bits[j - 1].m \in Nat /\ Limit \in Int
      BY <1>1, <1>2, <3>1 DEF Positive
    <3> QED
      BY <3>1, <3>2, <3>3
  <2> QED
    BY <1>1, <2>1, <2>2
<1>6. k \in 0..last /\ Right(k)
  <2> HIDE DEF Right
  <2> QED
    BY <1>5
<1>7. Divide(n, d) = [m |-> Nearest(bits[k].m, bits[k].rest, d), k |-> k]
  BY DEF Divide, bits
<1> HIDE DEF k
<1>8. Quotients(Divide(n, d), n, d, bits[k].m, bits[k].rest)
  BY <1>1, <1>2, <1>6, <1>7 DEF Quotients
<1> QED
  BY <1>8

LEMMA NearestIs ==
  ASSUME NEW m \in Nat, NEW d \in Positive, NEW left \in 0..(d - 1)
  PROVE  /\ Nearest(m, left, d) \in {m, m + 1}
         /\ left = 0 => Nearest(m, left, d) = m
         /\ 2 * (m * d + left) <= 2 * (Nearest(m, left, d) * d) + d
         /\ 2 * (Nearest(m, left, d) * d) <= 2 * (m * d + left) + d
<1> DEFINE r == Nearest(m, left, d)
<1>1. d \in Nat /\ d > 0 /\ m * d \in Nat /\ (m + 1) * d = m * d + d
  BY DEF Positive
<1>2. CASE 2 * left > d \/ (2 * left = d /\ m % 2 = 1)
  <2>1. r = m + 1 /\ 2 * left >= d /\ left # 0
    BY <1>1, <1>2 DEF Nearest
  <2> HIDE DEF r
  <2>2. r * d = m * d + d
    BY <1>1, <2>1
  <2> DEFINE md == m * d
  <2>3. md \in Nat /\ r * d = md + d
    BY <1>1, <2>2
  <2> HIDE DEF md
  <2>4. 2 * (md + left) <= 2 * (r * d) + d /\ 2 * (r * d) <= 2 * (md + left) + d
    BY <1>1, <2>1, <2>3
  <2> QED
    BY <2>1, <2>4 DEF md, r
<1>3. CASE ~(2 * left > d \/ (2 * left = d /\ m % 2 = 1))
  <2>1. r = m /\ 2 * left <= d
    BY <1>1, <1>3 DEF Nearest
  <2> HIDE DEF r
  <2> DEFINE md == m * d
  <2>2. md \in Nat /\ r * d = md
    BY <1>1, <2>1
  <2> HIDE DEF md
  <2>3. 2 * (md + left) <= 2 * (r * d) + d /\ 2 * (r * d) <= 2 * (md + left) + d
    BY <1>1, <2>1, <2>2
  <2> QED
    BY <2>1, <2>3 DEF md, r
<1> QED
  BY <1>2, <1>3

(* The decimals that are printed are nearest to the double.                *)
LEMMA DecimalIs ==
  ASSUME NEW x, x.m \in Nat, x.k \in Nat, NEW decimals \in 0..2
  PROVE  LET digits == Decimal(x, decimals)
             t == Power(10)[decimals]
             K == Power(2)[x.k]
         IN /\ digits \in Nat
            /\ 2 * (x.m * t) <= 2 * (digits * K) + K
            /\ 2 * (digits * K) <= 2 * (x.m * t) + K
<1> DEFINE t == Power(10)[decimals]
           K == Power(2)[x.k]
           n == x.m * t
           q == n \div K
           r == n % K
<1>1. t \in Positive /\ K \in Positive
  BY PowerGoesOn DEF Positive
<1>2. Decimal(x, decimals) = Nearest(q, r, K)
  BY DEF Decimal
<1> HIDE DEF t, K
<1>3. n \in Nat
  BY <1>1 DEF Positive
<1> HIDE DEF n
<1>4. q \in Nat /\ r \in 0..(K - 1) /\ n = q * K + r
  BY <1>1, <1>3, Quotient DEF Positive
<1> HIDE DEF q, r
<1>5. /\ Nearest(q, r, K) \in {q, q + 1}
      /\ 2 * (q * K + r) <= 2 * (Nearest(q, r, K) * K) + K
      /\ 2 * (Nearest(q, r, K) * K) <= 2 * (q * K + r) + K
  BY <1>1, <1>4, NearestIs
<1>6. Nearest(q, r, K) \in Nat
  BY <1>4, <1>5
<1> QED
  BY <1>2, <1>4, <1>5, <1>6 DEF n, t, K

(* A quotient of a number of at most Precision bits, before rounding.      *)
Divided(n, d, K, m, left) ==
  m \in Nat /\ left \in 0..(d - 1) /\ m * d + left = n * K /\ n <= 2 * m

LEMMA RoomBehindThePoint ==
  ASSUME NEW n \in Positive, NEW d \in Positive, NEW K \in Positive, NEW m, NEW left,
         Divided(n, d, K, m, left), left # 0
  PROVE  d < 2 * K
<1>1. n \in Int /\ d \in Int /\ K \in Int /\ m \in Int /\ left > 0 /\ left \in Int
  BY DEF Divided, Positive
<1>2. n * d <= (2 * m) * d /\ (2 * m) * d = 2 * (m * d) /\ m * d \in Int /\ n * d \in Int
  BY <1>1, Factor DEF Divided
<1>3. 2 * (m * d) < 2 * (n * K) /\ n * K \in Int
  BY <1>1, <1>2 DEF Divided
<1>4. n * d < 2 * (n * K)
  BY <1>2, <1>3
<1>5. d * n < (2 * K) * n
  <2>1. n * d = d * n /\ 2 * (n * K) = (2 * K) * n
    BY <1>1
  <2> QED
    BY <1>4, <2>1
<1> DEFINE twice == 2 * K
<1>6. twice \in Int
  BY <1>1
<1> HIDE DEF twice
<1>7. d < twice
  BY <1>1, <1>5, <1>6, Factor DEF twice
<1> QED
  BY <1>7 DEF twice

(* Rounding twice gives the nearest decimals of the quotient itself, when  *)
(* the point between two decimals is a whole number of 1 / d: a double     *)
(* cannot lie on the other side of it.                                     *)
Close(D, d, n, t) == 2 * (n * t) <= 2 * (D * d) + d /\ 2 * (D * d) <= 2 * (n * t) + d

LEMMA RoundsOnce ==
  ASSUME NEW n \in Positive, NEW d \in Positive, NEW K \in Positive, NEW m, NEW left,
         Divided(n, d, K, m, left),
         NEW t \in Positive, NEW e \in Positive, d = (2 * t) * e, NEW D \in Nat,
         Close(D, K, Nearest(m, left, d), t)
  PROVE  Close(D, d, n, t)
<1> DEFINE x == Nearest(m, left, d)
<1>1. /\ n \in Int /\ d \in Int /\ K \in Int /\ m \in Nat /\ left \in 0..(d - 1)
      /\ t \in Int /\ e \in Int /\ D \in Int /\ 2 * t \in Positive /\ 2 * t \in Int
      /\ n * K \in Int /\ K > 0
  BY DEF Divided, Positive
<1>2. x \in Int /\ x * d \in Int /\ -K < x * d - n * K /\ x * d - n * K < K
  <2>1. /\ x \in {m, m + 1}
        /\ left = 0 => x = m
        /\ 2 * (n * K) <= 2 * (x * d) + d
        /\ 2 * (x * d) <= 2 * (n * K) + d
    BY <1>1, NearestIs DEF Divided
  <2>2. x \in Int
    BY <1>1, <2>1
  <2> HIDE DEF x
  <2>3. x * d \in Int
    BY <1>1, <2>2
  <2>4. CASE left = 0
    <3>1. x * d = n * K
      BY <1>1, <2>1, <2>4 DEF Divided
    <3> QED
      BY <1>1, <2>2, <2>3, <3>1
  <2>5. CASE left # 0
    <3>1. d < 2 * K
      BY <2>5, RoomBehindThePoint
    <3> DEFINE xd == x * d
               nK == n * K
    <3>2. xd \in Int /\ nK \in Int /\ 2 * nK <= 2 * xd + d /\ 2 * xd <= 2 * nK + d
      BY <1>1, <2>1, <2>3
    <3> HIDE DEF xd, nK
    <3>3. -K < xd - nK /\ xd - nK < K
      BY <1>1, <3>1, <3>2
    <3> QED
      BY <2>2, <2>3, <3>3 DEF xd, nK
  <2> QED
    BY <2>4, <2>5
<1>3. 2 * (x * t) <= 2 * (D * K) + K /\ 2 * (D * K) <= 2 * (x * t) + K
  BY DEF Close
<1> HIDE DEF x
(* An odd number of halves, z / 2, against the double and the quotient.    *)
<1>4. ASSUME NEW z \in Int
      PROVE  /\ (z * e) * (2 * t) = z * d
             /\ x * (2 * t) <= z * K => x * d <= (z * e) * K
             /\ z * K <= x * (2 * t) => (z * e) * K <= x * d
             /\ z * e \in Int /\ (z * e) * K \in Int /\ z * d \in Int
  <2>1. (z * e) * (2 * t) = z * ((2 * t) * e) /\ z * e \in Int /\ z * d \in Int
    BY <1>1
  <2>2. (x * (2 * t)) * e = x * ((2 * t) * e) /\ (z * K) * e = (z * e) * K
    BY <1>1, <1>2
  <2>3. x * (2 * t) \in Int /\ z * K \in Int /\ (z * e) * K \in Int
    BY <1>1, <1>2, <2>1
  <2>4. /\ x * (2 * t) <= z * K <=> (x * (2 * t)) * e <= (z * K) * e
        /\ z * K <= x * (2 * t) <=> (z * K) * e <= (x * (2 * t)) * e
    BY <2>3, Factor
  <2> QED
    BY <2>1, <2>2, <2>3, <2>4
<1>5. ASSUME 2 * (n * t) > 2 * (D * d) + d PROVE FALSE
  <2> DEFINE z == 2 * D + 1
             c == z * e
  <2>1. z \in Int /\ z * d = 2 * (D * d) + d /\ z * K = 2 * (D * K) + K
    BY <1>1
  <2>2. n * (2 * t) = 2 * (n * t) /\ x * (2 * t) = 2 * (x * t)
    BY <1>1, <1>2
  <2> HIDE DEF z
  <2>3. c * (2 * t) = z * d /\ c \in Int /\ x * d <= c * K /\ c * K \in Int
    BY <1>3, <1>4, <2>1, <2>2
  <2> HIDE DEF c
  <2>4. c * (2 * t) < n * (2 * t)
    BY <1>5, <2>1, <2>2, <2>3
  <2>5. c < n
    BY <1>1, <2>3, <2>4, MoreOf
  <2>6. c + 1 <= n /\ c + 1 \in Int
    BY <1>1, <2>3, <2>5
  <2>7. (c + 1) * K <= n * K /\ (c + 1) * K = c * K + K
    BY <1>1, <2>3, <2>6, Factor
  <2> DEFINE cK == c * K
             nK == n * K
             xd == x * d
  <2>8. cK \in Int /\ nK \in Int /\ xd \in Int /\ cK + K <= nK /\ xd <= cK /\ -K < xd - nK
    BY <1>1, <1>2, <2>3, <2>7
  <2> HIDE DEF cK, nK, xd
  <2> QED
    BY <1>1, <2>8
<1>6. ASSUME 2 * (D * d) > 2 * (n * t) + d PROVE FALSE
  <2> DEFINE z == 2 * D - 1
             c == z * e
  <2>1. z \in Int /\ z * d = 2 * (D * d) - d /\ z * K = 2 * (D * K) - K
    BY <1>1
  <2>2. n * (2 * t) = 2 * (n * t) /\ x * (2 * t) = 2 * (x * t)
    BY <1>1, <1>2
  <2> HIDE DEF z
  <2>3. z * K <= x * (2 * t) /\ n * (2 * t) < z * d
    <3>1. D * K \in Int /\ x * t \in Int /\ D * d \in Int /\ n * t \in Int
      BY <1>1, <1>2
    <3> DEFINE DK == D * K
               xt == x * t
               Dd == D * d
               nt == n * t
    <3>2. /\ DK \in Int /\ xt \in Int /\ Dd \in Int /\ nt \in Int
          /\ 2 * DK <= 2 * xt + K /\ 2 * Dd > 2 * nt + d
          /\ z * d = 2 * Dd - d /\ z * K = 2 * DK - K
          /\ n * (2 * t) = 2 * nt /\ x * (2 * t) = 2 * xt
      BY <1>3, <1>6, <2>1, <2>2, <3>1
    <3> HIDE DEF DK, xt, Dd, nt
    <3> QED
      BY <1>1, <3>2
  <2>4. c * (2 * t) = z * d /\ c \in Int /\ c * K <= x * d /\ c * K \in Int
    BY <1>4, <2>1, <2>3
  <2> HIDE DEF c
  <2>5. n * (2 * t) < c * (2 * t)
    BY <2>3, <2>4
  <2>6. n < c
    BY <1>1, <2>4, <2>5, MoreOf
  <2>7. n + 1 <= c /\ n + 1 \in Int
    BY <1>1, <2>4, <2>6
  <2>8. (n + 1) * K <= c * K /\ (n + 1) * K = n * K + K
    BY <1>1, <2>4, <2>7, Factor
  <2> DEFINE cK == c * K
             nK == n * K
             xd == x * d
  <2>9. cK \in Int /\ nK \in Int /\ xd \in Int /\ nK + K <= cK /\ cK <= xd /\ xd - nK < K
    BY <1>1, <1>2, <2>4, <2>8
  <2> HIDE DEF cK, nK, xd
  <2> QED
    BY <1>1, <2>9
<1> QED
  <2>1. n * t \in Int /\ D * d \in Int
    BY <1>1
  <2> QED
    BY <1>1, <1>5, <1>6, <2>1 DEF Close

(* A whole number up to Limit is a double.                                 *)
LEMMA ExactDouble ==
  ASSUME NEW n \in Nat, n <= Limit
  PROVE  ToDouble(n) = n
<1> DEFINE Lost(j) == n < Limit * Power(2)[j] /\ (j # 0 => n >= Limit * Power(2)[j - 1])
           lost == CHOOSE j \in 0..64 : Lost(j)
           ulp == Power(2)[lost]
<1>1. /\ Limit \in Nat /\ Limit > 0 /\ Power(2)[0] = 1 /\ Power(2)[1] = 2
      /\ \A j \in Nat : j >= 1 => Power(2)[j] \in Nat /\ 2 <= Power(2)[j]
      /\ \A j \in Nat : Power(2)[j] \in Positive
  <2>1. 2 \in Positive
    BY DEF Positive
  <2>2. Power(2)[0] = 1 /\ Power(2)[0 + 1] = 2 * Power(2)[0] /\ 0 + 1 = 1
    BY <2>1, PowerGoesOn
  <2>3. Power(2)[0] = 1 /\ Power(2)[1] = 2
    BY <2>2
  <2>4. \A j \in Nat : Power(2)[j] \in Positive
    BY <2>1, PowerGoesOn
  <2>5. \A j \in Nat : j >= 1 => Power(2)[1] <= Power(2)[j]
    BY <2>1, PowerGrows
  <2> QED
    BY <2>3, <2>4, <2>5, LimitIs DEF Positive
<1>2. ToDouble(n) = ulp * Nearest(n \div ulp, n % ulp, ulp)
  BY DEF ToDouble
<1>3. \A j \in 0..64 : j >= 2 => ~Lost(j)
  <2> SUFFICES ASSUME NEW j \in 0..64, j >= 2 PROVE n < Limit * Power(2)[j - 1]
    BY <1>1 DEF Positive
  <2> DEFINE p == Power(2)[j - 1]
  <2>1. p \in Nat /\ 2 <= p
    BY <1>1
  <2> HIDE DEF p
  <2>2. Limit * 2 <= Limit * p
    BY <1>1, <2>1
  <2> QED
    BY <1>1, <2>1, <2>2 DEF p
<1>4. CASE n < Limit
  <2>1. Lost(0) /\ ~Lost(1)
    BY <1>1, <1>4
  <2>2. \A j \in 0..64 : Lost(j) => j = 0
    BY <1>3, <2>1
  <2>3. lost = 0
    <3> HIDE DEF Lost
    <3> QED
      BY <2>1, <2>2
  <2>4. ulp = 1
    BY <1>1, <2>3
  <2>5. n \div 1 = n /\ n % 1 = 0
    OBVIOUS
  <2> HIDE DEF ulp
  <2> QED
    BY <1>2, <2>4, <2>5 DEF Nearest
<1>5. CASE n = Limit
  <2>1. Lost(1) /\ ~Lost(0)
    BY <1>1, <1>5
  <2>2. \A j \in 0..64 : Lost(j) => j = 1
    BY <1>3, <2>1
  <2>3. lost = 1
    <3> HIDE DEF Lost
    <3> QED
      BY <2>1, <2>2
  <2>4. ulp = 2
    BY <1>1, <2>3
  <2> DEFINE half == Power(2)[Precision - 1]
  <2>5. half \in Nat /\ Limit = 2 * half
    <3>1. Precision - 1 \in Nat /\ (Precision - 1) + 1 = Precision /\ 2 \in Positive
      BY LimitIs DEF Positive
    <3>2. Power(2)[Precision - 1] \in Positive
          /\ Power(2)[(Precision - 1) + 1] = 2 * Power(2)[Precision - 1]
      BY <3>1, PowerGoesOn
    <3> QED
      BY <3>1, <3>2 DEF Limit, Positive
  <2> HIDE DEF half, ulp
  <2>6. n \div 2 = half /\ n % 2 = 0
    BY <1>5, <2>5
  <2> QED
    BY <1>2, <1>5, <2>4, <2>5, <2>6 DEF Nearest
<1> QED
  BY <1>1, <1>4, <1>5

(* Nothing is lost when such a number is divided by a power of two.        *)
LEMMA DividesEvenly ==
  ASSUME NEW n \in Positive, NEW i \in Nat, NEW k \in Nat, NEW m, NEW left,
         Divided(n, Power(2)[i], Power(2)[k], m, left)
  PROVE  left = 0
<1> DEFINE d == Power(2)[i]
           K == Power(2)[k]
<1>1. 2 \in Positive /\ d \in Positive /\ K \in Positive /\ Power(2)[k + 1] = 2 * K
  BY PowerGoesOn DEF Positive
<1> SUFFICES ASSUME left # 0 PROVE FALSE
  OBVIOUS
<1>2. d < 2 * K
  <2> HIDE DEF d, K
  <2>1. Divided(n, d, K, m, left)
    BY DEF d, K
  <2> QED
    BY <1>1, <2>1, RoomBehindThePoint
<1>3. k >= i
  <2> SUFFICES ASSUME k + 1 <= i PROVE FALSE
    OBVIOUS
  <2>1. Power(2)[k + 1] <= Power(2)[i]
    BY <1>1, PowerGrows
  <2> HIDE DEF Positive
  <2>2. d \in Int /\ K \in Int
    BY <1>1 DEF Positive
  <2> QED
    BY <1>1, <1>2, <2>1, <2>2
<1> DEFINE p == Power(2)[k - i]
           j == n * p
<1>4. k - i \in Nat /\ p \in Positive /\ i + (k - i) = k /\ K = d * p
  <2>1. k - i \in Nat /\ i + (k - i) = k
    BY <1>3
  <2>2. Power(2)[i + (k - i)] = Power(2)[i] * Power(2)[k - i]
    BY <1>1, <2>1, PowerAdds
  <2>3. Power(2)[k - i] \in Positive
    BY <1>1, <2>1, PowerGoesOn
  <2> QED
    BY <2>1, <2>2, <2>3
<1> HIDE DEF d, K, p
<1>5. m \in Nat /\ left \in 0..(d - 1) /\ m * d + left = n * K
  BY DEF Divided, d, K
<1>6. j \in Int /\ n * K = j * d
  BY <1>1, <1>4 DEF Positive
<1> HIDE DEF j
<1>7. m * d < j * d /\ j * d < (m + 1) * d
  <2>1. (m + 1) * d = m * d + d /\ m * d \in Int /\ j * d \in Int /\ d \in Int
    BY <1>1, <1>5, <1>6 DEF Positive
  <2> QED
    BY <1>5, <1>6, <2>1
<1>8. m < j /\ j < m + 1
  <2>1. m \in Int /\ m + 1 \in Int
    BY <1>5
  <2> QED
    BY <1>1, <1>6, <1>7, <2>1, MoreOf
<1> QED
  BY <1>5, <1>6, <1>8

(* And so rounding once is enough there too.                               *)
LEMMA RoundsOnceIEC ==
  ASSUME NEW n \in Positive, NEW i \in Nat, NEW k \in Nat, NEW m, NEW left,
         Divided(n, Power(2)[i], Power(2)[k], m, left),
         NEW t \in Positive, NEW D \in Nat,
         Close(D, Power(2)[k], Nearest(m, left, Power(2)[i]), t)
  PROVE  Close(D, Power(2)[i], n, t)
<1> DEFINE d == Power(2)[i]
           K == Power(2)[k]
<1>1. 2 \in Positive /\ d \in Positive /\ K \in Positive
  BY PowerGoesOn DEF Positive
<1>2. left = 0
  BY DividesEvenly
<1>3. m \in Nat /\ m * d = n * K /\ Nearest(m, left, d) = m
  <2>1. m \in Nat /\ m * d + left = n * K /\ left \in 0..(d - 1)
    BY DEF Divided
  <2>2. Nearest(m, left, d) = m
    BY <1>1, <1>2, <2>1, NearestIs
  <2>3. m * d \in Int
    BY <1>1, <2>1 DEF Positive
  <2> QED
    BY <1>2, <2>1, <2>2, <2>3
<1>4. Close(D, K, m, t)
  BY <1>3
<1> HIDE DEF d, K
<1> DEFINE a == 2 * (n * t)
           b == 2 * (D * d)
<1>5. /\ a \in Int /\ b \in Int /\ d \in Int /\ K \in Int
      /\ a * K = (2 * (m * t)) * d /\ (b + d) * K = (2 * (D * K) + K) * d
      /\ b * K = (2 * (D * K)) * d /\ (a + d) * K = (2 * (m * t) + K) * d
  <2>1. n \in Int /\ d \in Int /\ K \in Int /\ t \in Int /\ D \in Int /\ m \in Int
    BY <1>1, <1>3 DEF Positive
  <2>2. a * K = 2 * ((n * K) * t) /\ (2 * (m * t)) * d = 2 * ((m * d) * t)
    BY <2>1
  <2>3. b * K = (2 * (D * K)) * d
    BY <2>1
  <2>4. a \in Int /\ b \in Int
    BY <2>1
  <2>5. a * K = (2 * (m * t)) * d
    BY <1>3, <2>2
  <2> DEFINE y == 2 * (D * K)
             z == 2 * (m * t)
  <2>6. y \in Int /\ z \in Int
    BY <2>1
  <2>7. b * K = y * d /\ a * K = z * d
    BY <2>3, <2>5
  <2> HIDE DEF a, b, y, z
  <2>8. (b + d) * K = (y + K) * d /\ (a + d) * K = (z + K) * d
    <3>1. (b + d) * K = b * K + d * K /\ (y + K) * d = y * d + K * d
      BY <2>1, <2>4, <2>6
    <3>2. (a + d) * K = a * K + d * K /\ (z + K) * d = z * d + K * d
      BY <2>1, <2>4, <2>6
    <3>3. d * K = K * d
      BY <2>1
    <3> QED
      BY <2>7, <3>1, <3>2, <3>3
  <2> QED
    BY <2>1, <2>4, <2>7, <2>8 DEF y, z
<1> DEFINE y == 2 * (D * K)
           z == 2 * (m * t)
<1>6. y \in Int /\ z \in Int /\ z <= y + K /\ y <= z + K
  BY <1>1, <1>3, <1>4 DEF Close, Positive
<1>7. a * K = z * d /\ (b + d) * K = (y + K) * d /\ b * K = y * d /\ (a + d) * K = (z + K) * d
  BY <1>5
<1> HIDE DEF a, b, y, z
<1>8. z * d <= (y + K) * d /\ y * d <= (z + K) * d
  <2>1. y + K \in Int /\ z + K \in Int
    BY <1>5, <1>6
  <2> QED
    BY <1>1, <1>6, <2>1, Factor
<1>9. a <= b + d /\ b <= a + d
  <2>1. a * K <= (b + d) * K /\ b * K <= (a + d) * K /\ b + d \in Int /\ a + d \in Int
    BY <1>5, <1>7, <1>8
  <2> QED
    BY <1>1, <1>5, <2>1, Factor
<1> QED
  BY <1>9 DEF Close, a, b, d

LEMMA SmallPowers ==
  /\ Power(10)[0] = 1 /\ Power(10)[1] = 10 /\ Power(10)[2] = 100
  /\ Power(10)[3] = 1000 /\ Power(10)[4] = 10000
  /\ Power(2)[0] = 1 /\ Power(2)[3] = 8 /\ Power(2)[4] = 16 /\ Power(2)[6] = 64
  /\ Power(2)[7] = 128 /\ Power(2)[9] = 512 /\ Power(2)[10] = 1024
<1>1. 10 \in Positive /\ 2 \in Positive
  BY DEF Positive
<1> DEFINE p == Power(10)
           q == Power(2)
<1>2. p[0] = 1 /\ \A n \in Nat : p[n + 1] = 10 * p[n]
  BY <1>1, PowerGoesOn
<1>3. q[0] = 1 /\ \A n \in Nat : q[n + 1] = 2 * q[n]
  BY <1>1, PowerGoesOn
<1> HIDE DEF p, q
<1>4. p[0] = 1 /\ p[1] = 10 /\ p[2] = 100 /\ p[3] = 1000 /\ p[4] = 10000
  <2>1. p[0 + 1] = 10 * p[0] /\ p[1 + 1] = 10 * p[1]
        /\ p[2 + 1] = 10 * p[2] /\ p[3 + 1] = 10 * p[3]
    BY <1>2
  <2> QED
    BY <1>2, <2>1
<1>5. q[3] = 8 /\ q[4] = 16 /\ q[6] = 64 /\ q[7] = 128 /\ q[9] = 512 /\ q[10] = 1024
  <2>1. /\ q[0 + 1] = 2 * q[0] /\ q[1 + 1] = 2 * q[1] /\ q[2 + 1] = 2 * q[2]
        /\ q[3 + 1] = 2 * q[3] /\ q[4 + 1] = 2 * q[4] /\ q[5 + 1] = 2 * q[5]
        /\ q[6 + 1] = 2 * q[6] /\ q[7 + 1] = 2 * q[7] /\ q[8 + 1] = 2 * q[8]
        /\ q[9 + 1] = 2 * q[9]
    BY <1>3
  <2>2. q[1] = 2 /\ q[2] = 4 /\ q[3] = 8 /\ q[4] = 16 /\ q[5] = 32
    BY <1>3, <2>1
  <2> QED
    BY <2>1, <2>2
<1> QED
  BY <1>3, <1>4, <1>5 DEF p, q

(* 1000 is less than 1024, unit by unit.                                   *)
LEMMA Sizes ==
  ASSUME NEW u \in Nat
  PROVE  /\ SizeSI(u) \in Positive /\ SizeIEC(u) \in Positive
         /\ SizeSI(u + 1) = 1000 * SizeSI(u) /\ SizeIEC(u + 1) = 1024 * SizeIEC(u)
         /\ SizeSI(u) <= SizeIEC(u)
<1>1. 1000 \in Positive /\ 2 \in Positive
  BY DEF Positive
<1>2. \A n \in Nat : SizeSI(n) \in Positive /\ SizeSI(n + 1) = 1000 * SizeSI(n)
  BY <1>1, PowerGoesOn DEF SizeSI, kilo
<1>3. \A n \in Nat : SizeIEC(n) \in Positive /\ SizeIEC(n + 1) = 1024 * SizeIEC(n)
  <2> TAKE n \in Nat
  <2>1. 10 * n \in Nat /\ 10 * (n + 1) = 10 + 10 * n /\ 10 \in Nat
    OBVIOUS
  <2>2. Power(2)[10 + 10 * n] = Power(2)[10] * Power(2)[10 * n]
    BY <1>1, <2>1, PowerAdds
  <2>3. Power(2)[10 * n] \in Positive
    BY <1>1, <2>1, PowerGoesOn
  <2> QED
    BY <2>1, <2>2, <2>3, SmallPowers DEF SizeIEC
<1> DEFINE less == {n \in Nat : SizeSI(n) <= SizeIEC(n)}
<1>4. 0 \in less
  <2>1. SizeSI(0) = 1
    BY <1>1, PowerGoesOn DEF SizeSI, kilo
  <2> QED
    BY <1>3, <2>1 DEF Positive
<1>5. ASSUME NEW n \in Nat, n \in less PROVE n + 1 \in less
  <2> DEFINE a == SizeSI(n)
             b == SizeIEC(n)
  <2>1. a \in Nat /\ b \in Nat /\ a <= b
    BY <1>2, <1>3, <1>5 DEF Positive
  <2>2. SizeSI(n + 1) = 1000 * a /\ SizeIEC(n + 1) = 1024 * b
    BY <1>2, <1>3
  <2> HIDE DEF a, b
  <2> QED
    BY <2>1, <2>2
<1> HIDE DEF less
<1>6. Nat \subseteq less
  BY <1>4, <1>5, AllNumbers
<1> QED
  BY <1>2, <1>3, <1>6 DEF less

LEMMA UnitFits ==
  ASSUME NEW u \in 1..LastUnit
  PROVE  SizeIEC(u) <= Power(2)[10 * LastUnit]
<1>1. LastUnit \in Nat /\ u \in Nat /\ 10 * u \in Nat /\ 10 * LastUnit \in Nat
      /\ 10 * u <= 10 * LastUnit /\ 2 \in Positive
  BY LimitIs DEF Positive
<1> QED
  BY <1>1, PowerGrows DEF SizeIEC

(* What InUnit() prints is nearest to the quantity, in both functions.     *)
LEMMA PrintsNearest ==
  ASSUME number \in Positive, number <= Limit,
         NEW u \in 1..LastUnit, NEW decimals \in 0..2,
         NEW unitSize \in {SizeSI(u), SizeIEC(u)}
  PROVE  LET D == InUnit(u, unitSize, decimals).digits
         IN  D \in Nat /\ Close(D, unitSize, number, Power(10)[decimals])
<1> DEFINE x == Divide(number, unitSize)
           D == Decimal(x, decimals)
           t == Power(10)[decimals]
<1>1. /\ u \in Nat /\ u - 1 \in Nat /\ (u - 1) + 1 = u
      /\ number \in Nat /\ Limit \in Nat /\ 2 \in Positive
  BY LimitIs DEF Positive
<1>2. unitSize \in Positive /\ unitSize <= Power(2)[10 * LastUnit]
  <2>1. /\ SizeSI(u) \in Positive /\ SizeIEC(u) \in Positive /\ SizeSI(u) <= SizeIEC(u)
        /\ SizeIEC(u) <= Power(2)[10 * LastUnit]
    BY <1>1, Sizes, UnitFits
  <2>2. 10 * LastUnit \in Nat /\ Power(2)[10 * LastUnit] \in Positive
    <3>1. 10 * LastUnit \in Nat
      BY LimitIs DEF Positive
    <3> QED
      BY <1>1, <3>1, PowerGoesOn
  <2> QED
    BY <2>1, <2>2 DEF Positive
<1>3. InUnit(u, unitSize, decimals).digits = D
  BY <1>1, ExactDouble DEF InUnit
<1>4. PICK m, left : Quotients(x, number, unitSize, m, left)
  BY <1>2, DivideIs
<1> HIDE DEF x
<1> DEFINE K == Power(2)[x.k]
<1>5. K \in Positive /\ t \in Positive
  <2>1. t \in {1, 10, 100}
    BY SmallPowers
  <2>2. K \in Positive
    BY <1>1, <1>4, PowerGoesOn DEF Quotients
  <2> QED
    BY <2>1, <2>2 DEF Positive
<1>6. Divided(number, unitSize, K, m, left)
  BY <1>1, <1>4 DEF Quotients, Divided
<1>7. x.m = Nearest(m, left, unitSize) /\ x.m \in Nat /\ x.k \in Nat
  <2>1. x.m = Nearest(m, left, unitSize) /\ m \in Nat /\ left \in 0..(unitSize - 1) /\ x.k \in Nat
    BY <1>4 DEF Quotients
  <2>2. Nearest(m, left, unitSize) \in {m, m + 1}
    BY <1>2, <2>1, NearestIs
  <2> QED
    BY <2>1, <2>2
<1>8. D \in Nat /\ Close(D, K, x.m, t)
  BY <1>7, DecimalIs DEF Close
<1> HIDE DEF D, K, t
<1>9. CASE unitSize = SizeSI(u)
  <2>1. PICK e \in Positive : unitSize = (2 * t) * e
    <3> DEFINE p == SizeSI(u - 1)
               f == IF decimals = 0 THEN 500 ELSE IF decimals = 1 THEN 50 ELSE 5
    <3>1. p \in Positive /\ unitSize = 1000 * p
      BY <1>1, <1>9, Sizes
    <3> HIDE DEF p
    <3>2. f \in Positive /\ (2 * t) * f = 1000
      BY SmallPowers DEF Positive, t
    <3> HIDE DEF f
    <3>3. f * p \in Positive /\ ((2 * t) * f) * p = (2 * t) * (f * p)
      BY <1>5, <3>1, <3>2 DEF Positive
    <3> QED
      BY <3>1, <3>2, <3>3
  <2>2. Close(D, K, Nearest(m, left, unitSize), t)
    BY <1>7, <1>8
  <2>3. Close(D, unitSize, number, t)
    BY <1>2, <1>5, <1>6, <1>8, <2>1, <2>2, RoundsOnce
  <2> QED
    BY <1>3, <1>8, <2>3 DEF t
<1>10. CASE unitSize = SizeIEC(u)
  <2>1. unitSize = Power(2)[10 * u] /\ 10 * u \in Nat
    BY <1>1, <1>10 DEF SizeIEC
  <2>2. Close(D, K, Nearest(m, left, unitSize), t)
    BY <1>7, <1>8
  <2>3. Close(D, unitSize, number, t)
    <3>1. /\ Divided(number, Power(2)[10 * u], Power(2)[x.k], m, left)
          /\ Close(D, Power(2)[x.k], Nearest(m, left, Power(2)[10 * u]), t)
      BY <1>6, <2>1, <2>2 DEF K
    <3>2. Close(D, Power(2)[10 * u], number, t)
      BY <1>5, <1>7, <1>8, <2>1, <3>1, RoundsOnceIEC
    <3> QED
      BY <2>1, <3>2
  <2> QED
    BY <1>3, <1>8, <2>3 DEF t
<1> QED
  BY <1>9, <1>10

LEMMA MinIs ==
  ASSUME NEW S, S \subseteq Nat, S # {}
  PROVE  Min(S) \in S /\ \A k \in S : Min(S) <= k
<1> DEFINE Lowest(m) == m \in S /\ \A k \in S : m <= k
<1>1. \E m : Lowest(m)
  BY Least
<1>2. Lowest(CHOOSE m : Lowest(m))
  <2> HIDE DEF Lowest
  <2> QED
    BY <1>1
<1>3. Min(S) = CHOOSE m \in S : \A k \in S : m <= k
  BY DEF Min
<1> QED
  BY <1>2, <1>3

(* A number is as long as the powers of ten say.                           *)
LEMMA LengthIs ==
  ASSUME NEW n \in Nat
  PROVE  /\ n < 1000 => DecimalLength(n) \in 1..3
         /\ n < 10000 => DecimalLength(n) \in 1..4
<1> DEFINE Right(l) == n < Power(10)[l] /\ (l # 1 => n >= Power(10)[l - 1])
           length == CHOOSE l \in 1..20 : Right(l)
<1>1. 10 \in Positive
  BY DEF Positive
<1>2. DecimalLength(n) = length
  BY DEF DecimalLength
<1>3. ASSUME n < 10000 PROVE \E l \in 1..20 : Right(l)
  <2>1. n < 10 => Right(1)
    BY SmallPowers
  <2>2. n >= 10 /\ n < 100 => Right(2)
    BY SmallPowers
  <2>3. n >= 100 /\ n < 1000 => Right(3)
    BY SmallPowers
  <2>4. n >= 1000 => Right(4)
    BY <1>3, SmallPowers
  <2> HIDE DEF Right
  <2> QED
    BY <2>1, <2>2, <2>3, <2>4
<1>4. ASSUME NEW j \in 1..4, n < Power(10)[j], n < 10000 PROVE length \in 1..j
  <2>1. length \in 1..20 /\ Right(length)
    <3> HIDE DEF Right
    <3> QED
      BY <1>3, <1>4
  <2> HIDE DEF length
  <2> SUFFICES ASSUME length > j PROVE FALSE
    BY <2>1
  <2>2. j \in Nat /\ length - 1 \in Nat /\ j <= length - 1 /\ length # 1
    BY <2>1
  <2>3. Power(10)[j] <= Power(10)[length - 1]
    BY <1>1, <2>2, PowerGrows
  <2>4. Power(10)[j] \in Positive /\ Power(10)[length - 1] \in Positive
    BY <1>1, <2>2, PowerGoesOn
  <2> QED
    BY <1>4, <2>1, <2>2, <2>3, <2>4 DEF Positive
<1> HIDE DEF length
<1> QED
  BY <1>2, <1>4, SmallPowers

(* What has to be shown of a text in a unit.                               *)
TextFits(text, unitSize, decimals, most) ==
  /\ text.unit \in 1..LastUnit /\ text.decimals = decimals /\ decimals \in 0..2
  /\ text.digits \in 100..most
  /\ Close(text.digits, unitSize, number, Power(10)[decimals])

(* Bounds of the digits, from those of the quantity, in 2000ths of a unit. *)
LEMMA DigitsBetween ==
  ASSUME NEW D \in Nat, NEW d \in Positive, NEW n \in Nat, NEW t \in {1, 10, 100},
         Close(D, d, n, t)
  PROVE  /\ 199001 * d <= (2000 * t) * n => D >= 100
         /\ (2000 * t) * n < 1999000 * d => D <= 999
         /\ (2000 * t) * n < 2047000 * d => D <= 1023
<1> DEFINE nt == n * t
           Dd == D * d
<1>1. d \in Nat /\ d > 0 /\ nt \in Nat /\ Dd \in Nat /\ (2000 * t) * n = 2000 * nt
  BY DEF Positive
<1>2. 2 * nt <= 2 * Dd + d /\ 2 * Dd <= 2 * nt + d
  BY DEF Close
<1>3. D <= 99 => Dd <= 99 * d
  BY Factor
<1>4. D >= 1000 => Dd >= 1000 * d
  BY Factor
<1>5. D >= 1024 => Dd >= 1024 * d
  BY Factor
<1> HIDE DEF nt, Dd
<1> QED
  BY <1>1, <1>2, <1>3, <1>4, <1>5

(* What a double holds exactly is in the range of the last unit.           *)
LEMMA LastUnitIsEnough ==
  ASSUME number \in Nat, number <= Limit
  PROVE  number < 9995 * SizeSI(LastUnit - 1)
<1> DEFINE p == SizeSI(LastUnit - 1)
           q == Limit \div p
           r == Limit % p
<1>1. Limit \in Nat /\ p \in Positive /\ q < 9995
  <2>1. LastUnit - 1 \in Nat /\ Limit \in Nat
    BY LimitIs DEF Positive
  <2>2. p \in Positive
    BY <2>1, Sizes
  <2> QED
    BY <2>1, <2>2, UnitsAssumption DEF SizeSI, kilo
<1> HIDE DEF p
<1>2. q \in Nat /\ r \in 0..(p - 1) /\ Limit = q * p + r
  <2>1. Limit \in Nat /\ p \in Nat \ {0}
    BY <1>1 DEF Positive
  <2> QED
    BY <2>1, Quotient
<1> HIDE DEF q, r
<1>3. q + 1 <= 9995 /\ q + 1 \in Int /\ (q + 1) * p = q * p + p
  BY <1>1, <1>2 DEF Positive
<1>4. (q + 1) * p <= 9995 * p
  BY <1>1, <1>3, Factor
<1> DEFINE qp == q * p
           h == 9995 * p
<1>5. qp \in Int /\ h \in Int /\ qp + p <= h /\ Limit = qp + r
  BY <1>1, <1>2, <1>3, <1>4 DEF Positive
<1> HIDE DEF qp, h
<1>6. number < h
  BY <1>1, <1>2, <1>5 DEF Positive
<1> QED
  BY <1>6 DEF h, p

(* formatSI(): the thresholds let no rounding carry into a fourth digit.   *)
LEMMA SIFits ==
  ASSUME number \in Nat, number <= Limit, number >= 1000
  PROVE  \E decimals : TextFits(formatSI, SizeSI(formatSI.unit), decimals, 999)
<1> DEFINE UnderSI(n, unit) == number < n * SizeSI(unit - 1)
           fitting == {u \in 1..LastUnit : u = LastUnit \/ UnderSI(999500, u)}
           unit == Min(fitting)
           decimals == IF unit = LastUnit \/ UnderSI(FirstOfFour, unit) THEN 2
                       ELSE IF UnderSI(99950, unit) THEN 1 ELSE 0
<1>1. /\ LastUnit \in Nat /\ LastUnit >= 1 /\ number \in Positive /\ Limit \in Nat
  BY LimitIs DEF Positive
<1>2. /\ unit \in 1..LastUnit
      /\ unit = LastUnit \/ UnderSI(999500, unit)
      /\ unit # 1 => ~UnderSI(999500, unit - 1)
  <2>1. LastUnit \in fitting /\ fitting \subseteq Nat
    BY <1>1
  <2>2. unit \in fitting /\ \A v \in fitting : unit <= v
    <3> HIDE DEF fitting
    <3> QED
      BY <2>1, MinIs
  <2>3. ASSUME unit # 1 PROVE unit - 1 \notin fitting
    <3> HIDE DEF fitting, unit
    <3>1. unit \in Nat /\ ~(unit <= unit - 1)
      BY <2>1, <2>2
    <3> QED
      BY <2>2, <3>1
  <2> HIDE DEF unit
  <2>4. unit # 1 => unit - 1 \in 1..LastUnit /\ unit - 1 # LastUnit
    BY <1>1, <2>2
  <2> QED
    BY <2>2, <2>3, <2>4
<1>3. formatSI = InUnit(unit, SizeSI(unit), decimals)
  BY <1>1 DEF formatSI, kilo
<1> HIDE DEF unit
<1> DEFINE p == SizeSI(unit - 1)
           d == SizeSI(unit)
           D == formatSI.digits
           t == Power(10)[decimals]
<1>4. p \in Positive /\ d \in Positive /\ d = 1000 * p
  <2>1. unit - 1 \in Nat /\ (unit - 1) + 1 = unit
    BY <1>2
  <2>2. SizeSI(unit - 1) \in Positive /\ SizeSI((unit - 1) + 1) = 1000 * SizeSI(unit - 1)
    BY <2>1, Sizes
  <2>3. 1000 * SizeSI(unit - 1) \in Positive
    BY <2>2 DEF Positive
  <2> QED
    BY <2>1, <2>2, <2>3
<1>5. unit = LastUnit => number < 9995 * p
  BY LastUnitIsEnough
<1>6. decimals \in 0..2 /\ t \in {1, 10, 100}
  BY SmallPowers
<1>7. D \in Nat /\ Close(D, d, number, t)
  <2> HIDE DEF decimals
  <2> QED
    BY <1>1, <1>2, <1>3, <1>6, PrintsNearest
<1>8. /\ p \in Nat /\ d = 1000 * p /\ number \in Nat
      /\ unit = 1 => p = 1
      /\ unit # 1 => 1000 * number >= 999500 * p
  <2>1. ASSUME unit = 1 PROVE p = 1
    <3>1. unit - 1 = 0 /\ 1000 \in Positive
      BY <2>1 DEF Positive
    <3> QED
      BY <3>1, PowerGoesOn DEF SizeSI, kilo
  <2>2. ASSUME unit # 1 PROVE 1000 * number >= 999500 * p
    <3> DEFINE o == SizeSI((unit - 1) - 1)
    <3>1. (unit - 1) - 1 \in Nat /\ ((unit - 1) - 1) + 1 = unit - 1
      BY <1>2, <2>2
    <3>2. o \in Positive /\ p = 1000 * o
      BY <3>1, Sizes
    <3>3. number >= 999500 * o
      BY <1>2, <2>2, <3>2 DEF Positive
    <3> HIDE DEF o, p
    <3> QED
      BY <1>1, <3>2, <3>3 DEF Positive
  <2>3. p \in Nat
    BY <1>4 DEF Positive
  <2> QED
    BY <1>4, <2>1, <2>2, <2>3
<1>9. /\ 199900 * d <= (2000 * t) * number
      /\ (2000 * t) * number < 1999000 * d
  <2> HIDE DEF p, d
  <2>1. CASE decimals = 2
    <3>1. t = 100 /\ number < 9995 * p
      BY <1>5, <2>1, SmallPowers DEF FirstOfFour, p
    <3>2. 1000 * number >= 999500 * p
      BY <1>8
    <3> HIDE DEF t, decimals
    <3> QED
      BY <1>8, <2>1, <3>1, <3>2
  <2>2. CASE decimals = 1
    <3>1. t = 10 /\ number < 99950 * p /\ number >= 9995 * p
      BY <1>8, <2>2, SmallPowers DEF FirstOfFour, p
    <3> HIDE DEF t, decimals
    <3> QED
      BY <1>8, <2>2, <3>1
  <2>3. CASE decimals = 0
    <3>1. t = 1 /\ number < 999500 * p /\ number >= 99950 * p
      BY <1>2, <1>8, <2>3, SmallPowers DEF p
    <3> HIDE DEF t, decimals
    <3> QED
      BY <1>8, <2>3, <3>1
  <2> QED
    BY <1>6, <2>1, <2>2, <2>3
<1> HIDE DEF p, d, t, decimals
<1>10. D >= 100 /\ D <= 999
  <2> HIDE DEF D
  <2>1. 199001 * d <= (2000 * t) * number
    <3> DEFINE n == (2000 * t) * number
    <3>1. n \in Nat /\ d \in Nat
      BY <1>4, <1>6, <1>8 DEF Positive
    <3> HIDE DEF n
    <3> QED
      BY <1>9, <3>1 DEF n
  <2> QED
    BY <1>4, <1>6, <1>7, <1>8, <1>9, <2>1, DigitsBetween
<1>11. formatSI.unit = unit /\ formatSI.decimals = decimals
  BY <1>3 DEF InUnit
<1>12. TextFits(formatSI, SizeSI(formatSI.unit), decimals, 999)
  BY <1>2, <1>6, <1>7, <1>10, <1>11 DEF TextFits, d, t
<1> QED
  BY <1>12

LEMMA PowerLess ==
  ASSUME NEW i \in Nat, NEW j \in Nat, Power(2)[i] < Power(2)[j]
  PROVE  i < j
<1> SUFFICES ASSUME j <= i PROVE FALSE
  OBVIOUS
<1>1. 2 \in Positive
  BY DEF Positive
<1>2. Power(2)[j] <= Power(2)[i] /\ Power(2)[i] \in Nat /\ Power(2)[j] \in Nat
  BY <1>1, PowerGrows, PowerGoesOn DEF Positive
<1> QED
  BY <1>2

LEMMA Floor ==
  ASSUME NEW N \in Nat, NEW y \in Nat, NEW q \in Positive
  PROVE  N <= y \div q <=> N * q <= y
<1> DEFINE a == y \div q
           r == y % q
<1>1. a \in Nat /\ r \in 0..(q - 1) /\ y = a * q + r /\ q \in Nat /\ q > 0
  BY Quotient DEF Positive
<1> HIDE DEF a, r
<1>2. (a + 1) * q = a * q + q /\ a * q \in Int /\ N * q \in Int
  BY <1>1, Factor
<1>3. N <= a <=> N * q <= a * q
  BY <1>1, Factor
<1>4. a + 1 <= N <=> (a + 1) * q <= N * q
  <2>1. a + 1 \in Int
    BY <1>1
  <2> QED
    BY <2>1, Factor
<1>5. N <= a <=> N * q <= y
  BY <1>1, <1>2, <1>3, <1>4
<1> QED
  BY <1>5 DEF a

(* The comparison of doubles is that of the numbers.                       *)
LEMMA LessIs ==
  ASSUME NEW m \in Positive, NEW k \in Nat, NEW N \in Nat, NEW i \in Nat
  PROVE  Less(N, Scale([m |-> m, k |-> k], i)) <=> N * Power(2)[k] < m * Power(2)[i]
<1> DEFINE K == Power(2)[k]
           d == Power(2)[i]
           x == Scale([m |-> m, k |-> k], i)
<1>1. 2 \in Positive /\ K \in Positive /\ d \in Positive
  BY PowerGoesOn DEF Positive
<1>2. CASE i <= k
  <2> DEFINE q == Power(2)[k - i]
  <2>1. k - i \in Nat /\ (k - i) + i = k
    BY <1>2
  <2>2. K = q * d /\ q \in Positive
    <3>1. Power(2)[(k - i) + i] = q * d
      BY <1>1, <2>1, PowerAdds
    <3>2. q \in Positive
      BY <1>1, <2>1, PowerGoesOn
    <3> QED
      BY <2>1, <3>1, <3>2
  <2>3. x = [m |-> m, k |-> k - i]
    BY <1>2 DEF Scale
  <2>4. Less(N, x) <=> N <= (m - 1) \div q
    BY <2>3 DEF Less
  <2> HIDE DEF K, d, x, q
  <2>5. m - 1 \in Nat /\ m \in Int /\ N * q \in Int
    BY <2>2 DEF Positive
  <2>6. Less(N, x) <=> N * q <= m - 1
    BY <2>2, <2>4, <2>5, Floor
  <2>7. N * q < m <=> (N * q) * d < m * d
    BY <1>1, <2>5, Factor
  <2>8. (N * q) * d = N * K
    BY <1>1, <2>2 DEF Positive
  <2>9. Less(N, x) <=> N * K < m * d
    BY <2>5, <2>6, <2>7, <2>8
  <2> QED
    BY <2>9 DEF K, d, x
<1>3. CASE k < i
  <2> DEFINE e == Power(2)[i - k]
             M == m * e
  <2>1. i - k \in Nat /\ (i - k) + k = i
    BY <1>3
  <2>2. d = e * K /\ e \in Positive /\ Power(2)[0] = 1
    <3>1. Power(2)[(i - k) + k] = e * K
      BY <1>1, <2>1, PowerAdds
    <3>2. e \in Positive /\ Power(2)[0] = 1
      BY <1>1, <2>1, PowerGoesOn
    <3> QED
      BY <2>1, <3>1, <3>2
  <2>3. x = [m |-> M, k |-> 0]
    BY <1>3 DEF Scale
  <2>4. Less(N, x) <=> N <= (M - 1) \div 1
    BY <2>2, <2>3 DEF Less
  <2>5. M \in Positive
    <3> HIDE DEF e
    <3> QED
      BY <2>2 DEF Positive
  <2>6. M * K = m * d
    <3> HIDE DEF e, K, d
    <3> QED
      BY <1>1, <2>2 DEF Positive
  <2> HIDE DEF K, d, x, e, M
  <2>7. M - 1 \in Nat /\ M \in Int /\ 1 \in Positive
    BY <2>5 DEF Positive
  <2>8. Less(N, x) <=> N * 1 <= M - 1
    BY <2>4, <2>7, Floor
  <2>9. N < M <=> N * K < M * K
    BY <1>1, <2>7, Factor
  <2>10. Less(N, x) <=> N * K < m * d
    BY <2>6, <2>7, <2>8, <2>9
  <2> QED
    BY <2>10 DEF K, d, x
<1> QED
  BY <1>2, <1>3

(* The thresholds of formatIEC(), and the power of two above them.         *)
Threshold(p, b) ==
  /\ p \in Nat /\ b \in 1..10
  /\ 1000 * Power(2)[b - 1] < p /\ p < 1000 * Power(2)[b]

LEMMA Thresholds == Threshold(9995, 4) /\ Threshold(99950, 7) /\ Threshold(1023500, 10)
<1> DEFINE q == Power(2)
<1>1. q[4 - 1] = 8 /\ q[4] = 16 /\ q[7 - 1] = 64 /\ q[7] = 128 /\ q[10 - 1] = 512 /\ q[10] = 1024
  BY SmallPowers
<1> HIDE DEF q
<1>2. ASSUME NEW p, p = 9995 PROVE p \in Nat /\ 1000 * q[4 - 1] < p /\ p < 1000 * q[4]
  BY <1>1, <1>2
<1>3. ASSUME NEW p, p = 99950 PROVE p \in Nat /\ 1000 * q[7 - 1] < p /\ p < 1000 * q[7]
  BY <1>1, <1>3
<1>4. ASSUME NEW p, p = 1023500 PROVE p \in Nat /\ 1000 * q[10 - 1] < p /\ p < 1000 * q[10]
  BY <1>1, <1>4
<1>5. 4 \in 1..10 /\ 7 \in 1..10 /\ 10 \in 1..10
  OBVIOUS
<1> QED
  BY <1>2, <1>3, <1>4, <1>5 DEF Threshold, q

(* A product of doubles, rounded once, is on the right side of the number: *)
(* a number not under the threshold leaves the bits for an exact product.  *)
LEMMA BelowIs ==
  ASSUME NEW N \in Positive, N <= Limit, N >= 1024, NEW u \in 1..LastUnit,
         NEW p, NEW b, Threshold(p, b)
  PROVE  /\ Below(N, p, u) => 1000 * N < p * SizeIEC(u)
         /\ \A c \in Positive : c * Power(2)[b] = 1024 /\ ~Below(N, p, u)
                                => (2 * p * c - 1000) * SizeIEC(u) <= 2000 * c * N
<1> DEFINE x == Divide(p, 1000)
           k == x.k
           K == Power(2)[k]
           i == 10 * u
           d == Power(2)[i]
           B == Power(2)[b]
           H == Power(2)[b - 1]
<1>1. /\ 2 \in Positive /\ 1000 \in Positive /\ i \in Nat /\ u \in Nat /\ u >= 1 /\ u <= LastUnit
      /\ p \in Positive /\ p \in Nat /\ N \in Nat /\ b \in Nat /\ b - 1 \in Nat /\ b <= 10
      /\ Precision \in Nat /\ LastUnit \in Nat /\ Limit \in Nat /\ Limit > 0
      /\ Limit = Power(2)[Precision]
  <2>1. b \in 1..10 /\ p \in Nat /\ 1000 * H < p
    BY DEF Threshold
  <2>2. H \in Positive
    <3>1. 2 \in Positive /\ b - 1 \in Nat
      BY <2>1 DEF Positive
    <3> QED
      BY <3>1, PowerGoesOn
  <2>3. p \in Positive
    <3> HIDE DEF H
    <3> QED
      BY <2>1, <2>2 DEF Positive
  <2> QED
    BY <2>1, <2>3, LimitIs DEF Positive, Limit
<1>2. B \in Positive /\ H \in Positive /\ d \in Positive /\ 1000 * H < p /\ p < 1000 * B
  <2>1. B \in Positive /\ H \in Positive /\ d \in Positive
    BY <1>1, PowerGoesOn
  <2> QED
    BY <2>1 DEF Threshold
<1>3. PICK m, left : Quotients(x, p, 1000, m, left)
  <2>1. 1000 <= Power(2)[10 * LastUnit]
    <3>1. 10 \in Nat /\ 10 * LastUnit \in Nat /\ 10 <= 10 * LastUnit
      BY LimitIs DEF Positive
    <3>2. 2 \in Positive
      BY <1>1
    <3>3. Power(2)[10] <= Power(2)[10 * LastUnit]
      BY <3>1, <3>2, PowerGrows
    <3>4. Power(2)[10 * LastUnit] \in Positive
      BY <3>1, <3>2, PowerGoesOn
    <3>5. Power(2)[10] = 1024
      BY SmallPowers
    <3> QED
      BY <3>3, <3>4, <3>5 DEF Positive
  <2> HIDE DEF x
  <2> QED
    BY <1>1, <2>1, DivideIs DEF x
<1>4. x = [m |-> x.m, k |-> k]
  BY DEF Divide
<1>5. Below(N, p, u) = Less(N, Scale(x, i))
  BY DEF Below
<1> HIDE DEF x
<1>6. /\ k \in Nat /\ m \in Nat /\ left \in 0..999 /\ m * 1000 + left = p * K /\ 2 * m >= Limit
      /\ x.m = Nearest(m, left, 1000)
  BY <1>3 DEF Quotients
<1> HIDE DEF k
<1>7. K \in Positive
  BY <1>1, <1>6, PowerGoesOn
<1>8. /\ x.m \in {m, m + 1}
      /\ left = 0 => x.m = m
      /\ 2 * (p * K) <= 2000 * x.m + 1000
      /\ x.m \in Positive
  <2> DEFINE y == x.m
             z == Nearest(m, left, 1000)
  <2>1. /\ z \in {m, m + 1}
        /\ left = 0 => z = m
        /\ 2 * (m * 1000 + left) <= 2 * (z * 1000) + 1000
    <3> DEFINE e == 1000
    <3>1. e \in Positive /\ left \in 0..(e - 1) /\ m \in Nat
      BY <1>1, <1>6
    <3> HIDE DEF e
    <3>2. /\ Nearest(m, left, e) \in {m, m + 1}
          /\ left = 0 => Nearest(m, left, e) = m
          /\ 2 * (m * e + left) <= 2 * (Nearest(m, left, e) * e) + e
      BY <3>1, NearestIs
    <3> QED
      BY <3>2 DEF e
  <2>2. y = z
    BY <1>6
  <2>3. m > 0
    BY <1>1, <1>6
  <2> HIDE DEF y, z
  <2>4. y \in Positive /\ 2 * (y * 1000) = 2000 * y
    BY <1>6, <2>1, <2>2, <2>3 DEF Positive
  <2>5. 2 * (p * K) <= 2000 * y + 1000
    BY <1>6, <2>1, <2>2, <2>4
  <2> QED
    BY <2>1, <2>2, <2>4, <2>5 DEF y
<1> DEFINE y == x.m
<1>9. Below(N, p, u) <=> N * K < y * d
  <2>1. y \in Positive /\ k \in Nat /\ N \in Nat /\ i \in Nat
    BY <1>1, <1>6, <1>8
  <2>2. x = [m |-> y, k |-> k]
    BY <1>4
  <2> HIDE DEF y, i
  <2> QED
    BY <1>5, <2>1, <2>2, LessIs
<1>10. 10 <= Precision
  <2>1. Power(2)[9] < Limit
    BY <1>1, SmallPowers DEF Positive
  <2>2. 9 < Precision
    BY <1>1, <2>1, PowerLess
  <2> QED
    BY <1>1, <2>2
<1>11. Precision <= b + k
  <2>1. m < B * K
    <3> HIDE DEF B, K
    <3>1. p * K < (1000 * B) * K /\ (1000 * B) * K = 1000 * (B * K) /\ B * K \in Nat
          /\ p * K \in Nat
      <4>1. p \in Int /\ 1000 * B \in Int
        BY <1>1, <1>2 DEF Positive
      <4>2. p * K < (1000 * B) * K
        BY <1>2, <1>7, <4>1, Factor
      <4> QED
        BY <1>1, <1>2, <1>7, <4>2 DEF Positive
    <3> QED
      BY <1>6, <3>1
  <2>2. (b + k) + 1 \in Nat /\ Power(2)[(b + k) + 1] = 2 * (B * K) /\ b + k \in Nat /\ B * K \in Nat
    <3>1. b + k \in Nat /\ Power(2)[b + k] = B * K
      BY <1>1, <1>6, PowerAdds
    <3>2. Power(2)[(b + k) + 1] = 2 * Power(2)[b + k] /\ Power(2)[b + k] \in Nat
      BY <1>1, <3>1, PowerGoesOn DEF Positive
    <3> QED
      BY <3>1, <3>2
  <2>3. Power(2)[Precision] < Power(2)[(b + k) + 1]
    <3> DEFINE w == B * K
    <3>1. w \in Nat /\ m < w /\ Power(2)[(b + k) + 1] = 2 * w
      BY <2>1, <2>2
    <3> HIDE DEF w
    <3> QED
      BY <1>1, <1>6, <3>1
  <2>4. Precision < (b + k) + 1
    BY <1>1, <2>2, <2>3, PowerLess
  <2> QED
    BY <1>1, <2>2, <2>4
<1>12. ASSUME Below(N, p, u), p * d <= 1000 * N PROVE FALSE
  <2>1. b + i <= Precision
    <3>1. H * d \in Nat /\ H * d < N
      <4> HIDE DEF H, d
      <4>1. (1000 * H) * d < p * d /\ (1000 * H) * d = 1000 * (H * d)
            /\ H * d \in Nat /\ p * d \in Nat
        <5>1. p \in Int /\ 1000 * H \in Int
          BY <1>1, <1>2 DEF Positive
        <5>2. (1000 * H) * d < p * d
          BY <1>2, <5>1, Factor
        <5> QED
          BY <1>1, <1>2, <5>2 DEF Positive
      <4> QED
        BY <1>1, <1>12, <4>1
    <3>2. (b - 1) + i \in Nat /\ Power(2)[(b - 1) + i] = H * d
      BY <1>1, PowerAdds
    <3>3. Power(2)[(b - 1) + i] < Power(2)[Precision]
      BY <1>1, <3>1, <3>2
    <3>4. (b - 1) + i < Precision
      BY <1>1, <3>2, <3>3, PowerLess
    <3> QED
      BY <1>1, <3>4
  <2>2. i <= k
    BY <1>1, <1>6, <1>11, <2>1
  <2> DEFINE f == Power(2)[k - i]
             j == N * f
  <2>3. f \in Positive /\ K = f * d
    <3>1. k - i \in Nat /\ (k - i) + i = k
      BY <1>1, <1>6, <2>2
    <3>2. Power(2)[(k - i) + i] = f * d
      <4>1. 2 \in Positive /\ k - i \in Nat /\ i \in Nat
        BY <1>1, <3>1
      <4> DEFINE a == k - i
      <4> HIDE DEF i, a
      <4>2. Power(2)[a + i] = Power(2)[a] * Power(2)[i]
        BY <4>1, PowerAdds DEF a
      <4> QED
        BY <4>2 DEF a
    <3>3. f \in Positive
      BY <1>1, <3>1, PowerGoesOn
    <3> QED
      BY <3>1, <3>2, <3>3
  <2>4. N * K < y * d
    BY <1>9, <1>12
  <2> HIDE DEF f, d, K, y
  <2>5. j < y
    <3>1. N * K = j * d /\ j \in Int
      BY <1>1, <1>2, <2>3 DEF Positive
    <3>2. y \in Int
      BY <1>8 DEF y, Positive
    <3> HIDE DEF j
    <3> QED
      BY <1>2, <2>4, <3>1, <3>2, MoreOf
  <2>6. m * 1000 + left <= 1000 * j
    <3> DEFINE W == p * d
    <3>1. W \in Int /\ 1000 * N \in Int /\ W * f = p * K /\ (1000 * N) * f = 1000 * j
      BY <1>1, <1>2, <2>3 DEF Positive
    <3>2. W <= 1000 * N
      BY <1>12
    <3> HIDE DEF W, j
    <3>3. W * f <= (1000 * N) * f
      BY <2>3, <3>1, <3>2, Factor
    <3> QED
      BY <1>6, <3>1, <3>3
  <2>7. j \in Nat /\ (y = m \/ y = m + 1) /\ (left = 0 => y = m)
    BY <1>1, <1>8, <2>3 DEF y, Positive
  <2> HIDE DEF j
  <2> QED
    BY <1>6, <2>5, <2>6, <2>7
<1>13. ASSUME NEW c \in Positive, c * B = 1024, ~Below(N, p, u)
       PROVE  (2 * p * c - 1000) * d <= 2000 * c * N
  <2>1. c <= K
    <3>1. B * K >= 1024 /\ B * K \in Nat
      <4>1. b + k \in Nat /\ 10 \in Nat /\ 10 <= b + k
        BY <1>1, <1>6, <1>10, <1>11
      <4>2. Power(2)[10] <= Power(2)[b + k] /\ Power(2)[b + k] = B * K
        BY <1>1, <1>6, <4>1, PowerGrows, PowerAdds
      <4>3. B * K \in Nat
        <5> HIDE DEF B, K
        <5> QED
          BY <1>2, <1>7 DEF Positive
      <4> QED
        BY <4>2, <4>3, SmallPowers
    <3> HIDE DEF B, K
    <3>2. c \in Int /\ K \in Int /\ c * B <= K * B
      BY <1>2, <1>7, <1>13, <3>1 DEF Positive
    <3> QED
      BY <1>2, <3>2, Factor
  <2>2. y * d <= N * K
    <3> DEFINE yd == y * d
               NK == N * K
    <3>1. yd \in Int /\ NK \in Int
      <4> HIDE DEF d, K
      <4> QED
        BY <1>1, <1>2, <1>7, <1>8 DEF Positive
    <3>2. ~(NK < yd)
      BY <1>9, <1>13
    <3> HIDE DEF yd, NK
    <3>3. yd <= NK
      BY <3>1, <3>2
    <3> QED
      BY <3>3 DEF yd, NK
  <2>3. 2 * (p * K) <= 2000 * y + 1000 /\ y \in Positive
    BY <1>8
  <2> HIDE DEF B, K, d, y
  <2> DEFINE W == p * d
  <2>4. /\ c \in Nat /\ c > 0 /\ K \in Nat /\ K > 0 /\ d \in Nat /\ d > 0
        /\ y \in Nat /\ W \in Nat
    BY <1>1, <1>2, <1>7, <2>3 DEF Positive
  <2>5. (2 * W) * K <= 2000 * (N * K) + 1000 * d
    <3> DEFINE pK == p * K
               yd == y * d
               NK == N * K
    <3>1. 2 * pK \in Int /\ 2000 * y + 1000 \in Int /\ yd \in Int /\ NK \in Int
      BY <1>1, <2>4
    <3>2. (2 * pK) * d = (2 * W) * K /\ (2000 * y + 1000) * d = 2000 * yd + 1000 * d
      BY <1>1, <2>4
    <3>3. 2 * pK <= 2000 * y + 1000 /\ yd <= NK
      BY <2>2, <2>3
    <3> HIDE DEF pK, yd, NK
    <3>4. (2 * pK) * d <= (2000 * y + 1000) * d
      BY <1>2, <3>1, <3>3, Factor
    <3>5. (2 * W) * K <= 2000 * yd + 1000 * d
      BY <3>2, <3>4
    <3> HIDE DEF W
    <3>6. (2 * W) * K <= 2000 * NK + 1000 * d
      <4> DEFINE g == (2 * W) * K
      <4>1. g \in Int /\ g <= 2000 * yd + 1000 * d
        BY <2>4, <3>5
      <4> HIDE DEF g
      <4>2. g <= 2000 * NK + 1000 * d
        BY <2>4, <3>1, <3>3, <4>1
      <4> QED
        BY <4>2 DEF g
    <3> QED
      BY <3>6 DEF NK
  <2>6. ((2 * W) * c) * K <= (2000 * (c * N) + 1000 * d) * K
    <3> DEFINE WK == (2 * W) * K
               NK == N * K
               e == 2000 * NK + 1000 * d
    <3>1. WK \in Int /\ NK \in Int /\ e \in Int /\ WK <= e
      BY <1>1, <2>4, <2>5
    <3>2. /\ WK * c = ((2 * W) * c) * K
          /\ e * c = 2000 * (NK * c) + 1000 * (c * d)
          /\ NK * c = (c * N) * K /\ (c * N) * K \in Int /\ c * d \in Int
      <4> HIDE DEF W
      <4> QED
        BY <1>1, <2>4
    <3> HIDE DEF WK, NK, e
    <3>3. WK * c <= e * c
      BY <3>1, Factor
    <3>4. c * d <= K * d /\ K * d = d * K /\ K * d \in Int
      <4>1. c \in Int /\ K \in Int
        BY <2>4
      <4> QED
        BY <1>2, <2>1, <2>4, <4>1, Factor
    <3> DEFINE cd == c * d
               dK == d * K
               cNK == (c * N) * K
               g == ((2 * W) * c) * K
    <3>5. g \in Int /\ cd \in Int /\ dK \in Int /\ cNK \in Int /\ cd <= dK
          /\ g <= 2000 * cNK + 1000 * cd
      <4> HIDE DEF W
      <4> QED
        BY <1>1, <2>4, <3>2, <3>3, <3>4
    <3>6. (2000 * (c * N) + 1000 * d) * K = 2000 * cNK + 1000 * dK
      BY <1>1, <2>4
    <3> HIDE DEF cd, dK, cNK, g
    <3>7. g <= 2000 * cNK + 1000 * dK
      BY <3>5
    <3> QED
      BY <3>6, <3>7 DEF g
  <2> DEFINE g == (2 * W) * c
             h == 2000 * (c * N) + 1000 * d
  <2>7. g \in Int /\ h \in Int /\ g * K <= h * K
    <3> HIDE DEF W
    <3> QED
      BY <1>1, <2>4, <2>6
  <2>8. (2 * p * c - 1000) * d = g - 1000 * d /\ 2000 * c * N = h - 1000 * d
    BY <1>1, <2>4
  <2> HIDE DEF g, h
  <2>9. g <= h
    BY <1>7, <2>7, Factor
  <2> QED
    BY <2>4, <2>7, <2>8, <2>9
<1>14. SizeIEC(u) = d
  BY DEF SizeIEC
<1>15. Below(N, p, u) => 1000 * N < p * d
  <2> DEFINE W == p * d
  <2>1. W \in Int
    <3> HIDE DEF d
    <3> QED
      BY <1>1, <1>2 DEF Positive
  <2>2. Below(N, p, u) => ~(W <= 1000 * N)
    BY <1>12
  <2> HIDE DEF W
  <2>3. Below(N, p, u) => 1000 * N < W
    BY <1>1, <2>1, <2>2
  <2> QED
    BY <2>3 DEF W
<1> HIDE DEF d
<1> QED
  BY <1>13, <1>14, <1>15

LEMMA IECFits ==
  ASSUME number \in Nat, number <= Limit, number >= 1024
  PROVE  \E decimals : TextFits(formatIEC, SizeIEC(formatIEC.unit), decimals,
                                IF decimals = 0 THEN 1023 ELSE 999)
<1> DEFINE fitting == {u \in 1..LastUnit : u = LastUnit \/ Below(number, 1023500, u)}
           unit == Min(fitting)
           decimals == IF Below(number, 9995, unit) THEN 2
                       ELSE IF unit = LastUnit \/ Below(number, 99950, unit) THEN 1 ELSE 0
<1>1. LastUnit \in Nat /\ LastUnit >= 1 /\ number \in Positive /\ Limit \in Nat
  BY LimitIs DEF Positive
<1>2. /\ unit \in 1..LastUnit
      /\ unit = LastUnit \/ Below(number, 1023500, unit)
      /\ unit # 1 => unit - 1 \in 1..LastUnit /\ ~Below(number, 1023500, unit - 1)
  <2>1. LastUnit \in fitting /\ fitting \subseteq Nat
    BY <1>1
  <2>2. unit \in fitting /\ \A v \in fitting : unit <= v
    <3> HIDE DEF fitting
    <3> QED
      BY <2>1, MinIs
  <2>3. ASSUME unit # 1 PROVE unit - 1 \notin fitting
    <3> HIDE DEF fitting, unit
    <3>1. unit \in Nat /\ ~(unit <= unit - 1)
      BY <2>1, <2>2
    <3> QED
      BY <2>2, <3>1
  <2> HIDE DEF unit
  <2>4. unit # 1 => unit - 1 \in 1..LastUnit /\ unit - 1 # LastUnit
    BY <1>1, <2>2
  <2> QED
    BY <2>2, <2>3, <2>4
<1>3. formatIEC = InUnit(unit, SizeIEC(unit), decimals)
  BY <1>1, ExactDouble DEF formatIEC, Ki
<1> HIDE DEF unit
<1> DEFINE d == SizeIEC(unit)
           D == formatIEC.digits
           t == Power(10)[decimals]
<1>4. d \in Positive
  <2>1. unit \in Nat
    BY <1>2
  <2> QED
    BY <2>1, Sizes
<1>5. unit = LastUnit => 1000 * number < 9995 * d
  <2> SUFFICES ASSUME unit = LastUnit PROVE 1000 * number < 9995 * d
    OBVIOUS
  <2> DEFINE p == SizeSI(LastUnit - 1)
  <2>1. LastUnit - 1 \in Nat /\ (LastUnit - 1) + 1 = LastUnit /\ LastUnit \in Nat
    BY <1>1
  <2>2. p \in Positive /\ 1000 * p <= d
    BY <2>1, Sizes
  <2>3. number < 9995 * p
    BY LastUnitIsEnough
  <2> HIDE DEF p, d
  <2> QED
    BY <1>4, <2>2, <2>3 DEF Positive
<1>6. decimals \in 0..2 /\ t \in {1, 10, 100}
  BY SmallPowers
<1>7. D \in Nat /\ Close(D, d, number, t)
  <2> HIDE DEF decimals
  <2> QED
    BY <1>1, <1>2, <1>3, <1>6, PrintsNearest
<1>8. /\ Below(number, 9995, unit) => 1000 * number < 9995 * d
      /\ ~Below(number, 9995, unit) => 1278360 * d <= 128000 * number
  <2>1. 64 \in Positive /\ 64 * Power(2)[4] = 1024
    BY SmallPowers DEF Positive
  <2>2. 2 * 9995 * 64 - 1000 = 1278360 /\ 2000 * 64 = 128000
    OBVIOUS
  <2> QED
    BY <1>1, <1>2, <2>1, <2>2, Thresholds, BelowIs
<1>9. /\ Below(number, 99950, unit) => 1000 * number < 99950 * d
      /\ ~Below(number, 99950, unit) => 1598200 * d <= 16000 * number
  <2>1. 8 \in Positive /\ 8 * Power(2)[7] = 1024
    BY SmallPowers DEF Positive
  <2>2. 2 * 99950 * 8 - 1000 = 1598200 /\ 2000 * 8 = 16000
    OBVIOUS
  <2> QED
    BY <1>1, <1>2, <2>1, <2>2, Thresholds, BelowIs
<1>10. Below(number, 1023500, unit) => 1000 * number < 1023500 * d
  BY <1>1, <1>2, Thresholds, BelowIs
<1>11. 199804 * d <= 200000 * number
  <2>1. CASE unit = 1
    <3>1. d = 1024
      BY <2>1, SmallPowers DEF SizeIEC
    <3> QED
      BY <3>1
  <2>2. CASE unit # 1
    <3> DEFINE o == SizeIEC(unit - 1)
    <3>1. o \in Positive /\ d = 1024 * o
      <4>1. unit - 1 \in Nat /\ (unit - 1) + 1 = unit
        BY <1>2, <2>2
      <4> QED
        BY <4>1, Sizes
    <3>2. 2046000 * o <= 2000 * number
      <4>1. 1 \in Positive /\ 1 * Power(2)[10] = 1024
        BY SmallPowers DEF Positive
      <4>2. 2 * 1023500 * 1 - 1000 = 2046000 /\ 2000 * 1 = 2000
        OBVIOUS
      <4> QED
        BY <1>1, <1>2, <2>2, <4>1, <4>2, Thresholds, BelowIs
    <3> HIDE DEF o, d
    <3>3. 1023 * o <= number
      BY <1>1, <3>1, <3>2 DEF Positive
    <3> QED
      BY <1>1, <3>1, <3>3 DEF Positive
  <2> QED
    BY <2>1, <2>2
<1>12. /\ 199001 * d <= (2000 * t) * number
       /\ decimals # 0 => (2000 * t) * number < 1999000 * d
       /\ decimals = 0 => (2000 * t) * number < 2047000 * d
  <2> HIDE DEF d
  <2>1. CASE decimals = 2
    <3>1. t = 100 /\ 1000 * number < 9995 * d
      BY <1>8, <2>1, SmallPowers
    <3> HIDE DEF t, decimals
    <3> QED
      BY <1>1, <1>4, <1>11, <2>1, <3>1 DEF Positive
  <2>2. CASE decimals = 1
    <3>1. t = 10 /\ 1278360 * d <= 128000 * number /\ 1000 * number < 99950 * d
      <4>1. unit = LastUnit => 1000 * number < 99950 * d
        BY <1>1, <1>4, <1>5 DEF Positive
      <4> QED
        BY <1>8, <1>9, <2>2, <4>1, SmallPowers
    <3> HIDE DEF t, decimals
    <3> QED
      BY <1>1, <1>4, <2>2, <3>1 DEF Positive
  <2>3. CASE decimals = 0
    <3>1. t = 1 /\ 1598200 * d <= 16000 * number /\ 1000 * number < 1023500 * d
      BY <1>2, <1>9, <1>10, <2>3, SmallPowers
    <3> HIDE DEF t, decimals
    <3> QED
      BY <1>1, <1>4, <2>3, <3>1 DEF Positive
  <2> QED
    BY <1>6, <2>1, <2>2, <2>3
<1> DEFINE most == IF decimals = 0 THEN 1023 ELSE 999
<1> HIDE DEF d, t, decimals
<1>13. D >= 100 /\ D <= most
  <2> HIDE DEF D
  <2>1. /\ 199001 * d <= (2000 * t) * number => D >= 100
        /\ (2000 * t) * number < 1999000 * d => D <= 999
        /\ (2000 * t) * number < 2047000 * d => D <= 1023
    BY <1>1, <1>4, <1>6, <1>7, DigitsBetween
  <2> QED
    BY <1>12, <2>1
<1>14. formatIEC.unit = unit /\ formatIEC.decimals = decimals
  BY <1>3 DEF InUnit
<1>15. TextFits(formatIEC, SizeIEC(formatIEC.unit), decimals, most)
  <2>1. D \in 100..most
    BY <1>7, <1>13
  <2> QED
    BY <1>2, <1>6, <1>7, <1>14, <2>1 DEF TextFits, d, t
<1> QED
  BY <1>15

LEMMA InAUnit ==
  ASSUME number \in Nat, NEW decimals,
         \/ function = "SI" /\ TextFits(printed, SizeSI(printed.unit), decimals, 999)
         \/ function = "IEC" /\ TextFits(printed, SizeIEC(printed.unit), decimals,
                                         IF decimals = 0 THEN 1023 ELSE 999)
  PROVE  UnitsFit
<1> DEFINE D == printed.digits
           t == Power(10)[decimals]
           length == DecimalLength(D)
<1>1. /\ printed.unit \in 1..LastUnit /\ printed.decimals = decimals /\ decimals \in 0..2
      /\ D \in Nat /\ D >= 100 /\ D <= 1023
      /\ function = "SI" \/ decimals # 0 => D <= 999
      /\ Close(D, Size, number, t)
  <2> DEFINE Right(unitSize, most) == TextFits(printed, unitSize, decimals, most)
  <2>1. \/ function = "SI" /\ Size = SizeSI(printed.unit) /\ Right(Size, 999)
        \/ function = "IEC" /\ Size = SizeIEC(printed.unit)
           /\ Right(Size, IF decimals = 0 THEN 1023 ELSE 999)
    BY DEF Size
  <2>2. \/ function = "SI" /\ Right(Size, 999)
        \/ function = "IEC" /\ decimals = 0 /\ Right(Size, 1023)
        \/ function = "IEC" /\ decimals # 0 /\ Right(Size, 999)
    <3> HIDE DEF Right
    <3> QED
      BY <2>1
  <2>3. \A most : Right(Size, most) =>
           /\ printed.unit \in 1..LastUnit /\ printed.decimals = decimals
           /\ decimals \in 0..2 /\ D \in 100..most /\ Close(D, Size, number, t)
    BY DEF TextFits
  <2> HIDE DEF Right, D
  <2> QED
    BY <2>2, <2>3
<1>2. printed.unit \in Nat /\ printed.unit # 0
  BY <1>1
<1>3. length \in Nat /\ length <= 4 /\ (D <= 999 => length <= 3)
  <2> HIDE DEF D
  <2>1. D < 10000 /\ (D <= 999 => D < 1000)
    BY <1>1
  <2> QED
    BY <1>1, <2>1, LengthIs
<1>4. 2 * Distance(D * Size, number * t) <= Size
  <2>1. Size \in Positive /\ t \in Nat
    <3>1. SizeSI(printed.unit) \in Positive /\ SizeIEC(printed.unit) \in Positive
      BY <1>2, Sizes
    <3>2. t \in {1, 10, 100}
      BY <1>1, SmallPowers
    <3> QED
      BY <3>1, <3>2 DEF Size
  <2> DEFINE a == D * Size
             b == number * t
  <2>2. a \in Int /\ b \in Int /\ Size \in Int
    <3> HIDE DEF D, t
    <3> QED
      BY <1>1, <2>1 DEF Positive
  <2>3. 2 * b <= 2 * a + Size /\ 2 * a <= 2 * b + Size
    BY <1>1 DEF Close
  <2> HIDE DEF a, b
  <2>4. 2 * Distance(a, b) <= Size
    BY <2>2, <2>3 DEF Distance
  <2> QED
    BY <2>4 DEF a, b
<1>5. Mantissa + Suffix <= IF function = "SI" THEN 5 ELSE 6
  <2>1. Mantissa = length + IF decimals > 0 THEN 1 ELSE 0
    BY <1>1 DEF Mantissa
  <2>2. Suffix = IF function = "SI" THEN 1 ELSE 2
    BY <1>2 DEF Suffix
  <2> HIDE DEF length, D
  <2>3. decimals # 0 => decimals > 0
    BY <1>1
  <2> QED
    BY <1>1, <1>3, <2>1, <2>2, <2>3
<1> QED
  BY <1>1, <1>4, <1>5 DEF UnitsFit

LEMMA AsItIsFits ==
  ASSUME number \in Nat, printed = AsItIs, function \in {"SI", "IEC"},
         number < IF function = "SI" THEN 1000 ELSE 1024
  PROVE  UnitsFit
<1>1. printed.unit = 0 /\ printed.decimals = 0 /\ printed.digits = number
  BY DEF AsItIs
<1>2. Mantissa + Suffix <= IF function = "SI" THEN 5 ELSE 6
  <2>1. DecimalLength(number) \in 1..4
    BY LengthIs
  <2>2. Mantissa = DecimalLength(number) + 0 /\ Suffix = 0
    BY <1>1 DEF Mantissa, Suffix
  <2> QED
    BY <2>1, <2>2
<1>3. Size = 1 /\ Power(10)[0] = 1
  <2>1. 1000 \in Positive /\ 10 * 0 = 0
    BY DEF Positive
  <2>2. SizeSI(0) = 1 /\ SizeIEC(0) = 1
    BY <2>1, PowerGoesOn, SmallPowers DEF SizeSI, SizeIEC, kilo
  <2> QED
    BY <1>1, <2>2, SmallPowers DEF Size
<1>4. 2 * Distance(number * 1, number * 1) <= 1
  BY DEF Distance
<1> QED
  BY <1>1, <1>2, <1>3, <1>4 DEF UnitsFit

UnitsInv ==
  /\ function \in {"SI", "IEC"} /\ number \in Nat
  /\ \/ printed = NotPrinted
     \/ printed = IF function = "SI" THEN formatSI ELSE formatIEC

LEMMA UnitsInvFits == UnitsInv => UnitsFit
<1> SUFFICES ASSUME UnitsInv, printed # NotPrinted, number <= Limit PROVE UnitsFit
  BY DEF UnitsFit
<1>1. /\ function \in {"SI", "IEC"} /\ number \in Nat
      /\ printed = IF function = "SI" THEN formatSI ELSE formatIEC
  BY DEF UnitsInv
<1>2. CASE function = "SI" /\ number < 1000
  <2>1. printed = AsItIs
    BY <1>1, <1>2 DEF formatSI, kilo
  <2> QED
    BY <1>1, <1>2, <2>1, AsItIsFits
<1>3. CASE function = "IEC" /\ number < 1024
  <2>1. printed = AsItIs
    BY <1>1, <1>3, ExactDouble DEF formatIEC, Ki
  <2> QED
    BY <1>1, <1>3, <2>1, AsItIsFits
<1>4. CASE function = "SI" /\ number >= 1000
  <2>1. printed = formatSI
    BY <1>1, <1>4
  <2>2. PICK decimals : TextFits(printed, SizeSI(printed.unit), decimals, 999)
    BY <1>1, <1>4, <2>1, SIFits
  <2> QED
    BY <1>1, <1>4, <2>2, InAUnit
<1>5. CASE function = "IEC" /\ number >= 1024
  <2>1. printed = formatIEC
    BY <1>1, <1>5
  <2>2. PICK decimals : TextFits(printed, SizeIEC(printed.unit), decimals,
                                 IF decimals = 0 THEN 1023 ELSE 999)
    BY <1>1, <1>5, <2>1, IECFits
  <2> QED
    BY <1>1, <1>5, <2>2, InAUnit
<1> QED
  BY <1>1, <1>2, <1>3, <1>4, <1>5

(* What formatSI() and formatIEC() print of any quantity that a double     *)
(* holds exactly is as short as LogStream.h:236-244 promises, of three or  *)
(* four digits, and no text of as many decimals is nearer to the quantity  *)
(* (LogStream.cc:92-205): whatever the precision of a double, and however  *)
(* many units there are.                                                   *)
THEOREM QuantitiesFit == UnitsSpec => []UnitsFit
<1>1. UnitsInit => UnitsInv
  BY UnitsAssumption DEF UnitsInit, UnitsInv
<1>2. UnitsInv /\ [UnitsNext]_format => UnitsInv'
  <2> SUFFICES ASSUME UnitsInv, [UnitsNext]_format PROVE UnitsInv'
    OBVIOUS
  <2>1. function' = function /\ number' = number
    BY DEF UnitsNext, Format, Printed, format
  <2>2. formatSI' = formatSI /\ formatIEC' = formatIEC
    BY <2>1 DEF formatSI, formatIEC, InUnit, AsItIs
  <2>3. CASE SI
    BY <2>1, <2>2, <2>3 DEF UnitsInv, SI
  <2>4. CASE IEC
    BY <2>1, <2>2, <2>4 DEF UnitsInv, IEC
  <2>5. CASE UNCHANGED format
    BY <2>1, <2>2, <2>5 DEF UnitsInv, format
  <2> QED
    BY <2>3, <2>4, <2>5 DEF UnitsNext, Format, Printed
<1> QED
  BY <1>1, <1>2, UnitsInvFits, PTL DEF UnitsSpec
=============================================================================
