------------------------------ MODULE Logging ------------------------------
(***************************************************************************)
(* The life of a log statement (src/Logging.{h,cc}): the Logger on the     *)
(* stack of each thread, from its constructor through the operands of <<   *)
(* to the destructor that hands the line to g_output and, for FATAL, calls *)
(* g_flush and aborts.  The globals can be set by anybody at any time; the *)
(* text of the current second is cached in each thread.                    *)
(*                                                                         *)
(* A line is the sequence of its pieces; of a piece only its length, and   *)
(* whether it is a number, matters.                                        *)
(***************************************************************************)
EXTENDS LogStream, FiniteSets

CONSTANTS
  Threads,
  Zones,           \* what setTimeZone() may be given; NoZone is none (UTC)
  NoZone,
  Sinks,           \* what setOutput() and setFlush() may be given
  stdout,          \* the one that is there at the beginning
  LogLevels,       \* the levels statements are written with
  HeaderLen,       \* bytes of time, thread id and level together
  BaseLen,         \* bytes of the file's basename
  TextLen, NumberLen,    \* the lengths of the operands of <<
  MaxPieces,       \* bound of the model: operands of a statement
  MaxStatements,   \* bound of the model: statements
  MaxTime,         \* bound of the model: the clock's last second
  MaxSets          \* bound of the model: calls of the set functions

TRACE == 0  DEBUG == 1  INFO == 2  WARN == 3  ERROR == 4  FATAL == 5

ASSUME LoggingAssumption ==
  /\ NoZone \in Zones /\ stdout \in Sinks /\ LogLevels \subseteq TRACE..FATAL
  /\ HeaderLen \in Nat /\ HeaderLen < kSmallBuffer /\ BaseLen \in Nat
  /\ TextLen \subseteq Nat /\ NumberLen \subseteq 1..(kMaxNumericSize - 2)
  /\ MaxTime \in Nat \ {0} /\ {MaxPieces, MaxStatements, MaxSets} \subseteq Nat

VARIABLES
  now,                      \* the clock, in seconds
  latest,                   \* the highest second it has shown
  g_logLevel, g_output, g_flush, g_logTimeZone,
  t_lastSecond, t_time,     \* of each thread; of t_time second and zone
  pc,                       \* where each thread is in its statement
  impl,                     \* its Logger::Impl, and what happened to it
  buffered, durable,        \* the lines in the sinks' buffers and on disk
  begun, sets,              \* statements begun, calls of the set functions
  zoneSet                   \* latest, when the zone was last set

clock   == <<now, latest>>
globals == <<g_logLevel, g_output, g_flush, g_logTimeZone, zoneSet, sets>>
cache   == <<t_lastSecond, t_time>>
sinks   == <<buffered, durable>>
vars    == <<clock, globals, cache, pc, impl, sinks, begun>>

(* The pieces of a line.                                                   *)
Header == 1  Operand == 2  Dash == 3  Basename == 4  Colon == 5  LineNo == 6
Newline == 7

NoStatement == [id |-> 0, level |-> TRACE, second |-> 0,
                stamp |-> [second |-> 0, zone |-> NoZone], suffix |-> NoZone,
                stream_ |-> NoText, pieces |-> 0, said |-> 0, free |-> 0,
                sink |-> stdout, flushed |-> stdout]

Init ==
  /\ now = 1 /\ latest = 1
  /\ g_logLevel \in {TRACE, DEBUG, INFO}
  /\ g_output = stdout /\ g_flush = stdout /\ g_logTimeZone = NoZone
  /\ t_lastSecond = [t \in Threads |-> 0]
  /\ t_time = [t \in Threads |-> [second |-> 0, zone |-> NoZone]]
  /\ pc = [t \in Threads |-> "idle"] /\ impl = [t \in Threads |-> NoStatement]
  /\ buffered = [s \in Sinks |-> {}] /\ durable = {}
  /\ begun = 0 /\ sets = 0 /\ zoneSet = 0

Alive == \A t \in Threads : pc[t] # "aborted"

Goto(t, from, to) == Alive /\ pc[t] = from /\ pc' = [pc EXCEPT ![t] = to]

-----------------------------------------------------------------------------
(* The macros: only the statements below WARN look at the log level.       *)
Passes(level) == level >= WARN \/ g_logLevel <= level

(* Timestamp::now() comes first, the time text later.                      *)
Construct(t, level) ==
  /\ begun < MaxStatements /\ begun' = begun + 1
  /\ Passes(level)
  /\ Goto(t, "idle", "format")
  /\ impl' = [impl EXCEPT ![t] = [NoStatement EXCEPT
                  !.id = begun + 1, !.level = level, !.second = now]]
  /\ UNCHANGED <<clock, globals, cache, sinks>>

NewSecond_First(t) == t_lastSecond[t] = 0     \* mutation: cached for ever
NewSecond(t) == impl[t].second # t_lastSecond[t]

(* formatTime(): the text is made anew only when the second is another one.*)
CacheTime(t) ==
  /\ Goto(t, "format", "header")
  /\ IF NewSecond(t)
       THEN /\ t_lastSecond' = [t_lastSecond EXCEPT ![t] = impl[t].second]
            /\ t_time' = [t_time EXCEPT ![t] =
                            [second |-> impl[t].second, zone |-> g_logTimeZone]]
       ELSE UNCHANGED cache
  /\ UNCHANGED <<clock, globals, impl, sinks, begun>>

(* The zone is looked at again for the end of the time text.  The function *)
(* name and the errno text that some constructors add come as operands.    *)
(* said counts the bytes a statement is given, those left out included.    *)
AddHeader(t) ==
  /\ Goto(t, "header", "stream")
  /\ impl' = [impl EXCEPT ![t].stamp = t_time[t], ![t].suffix = g_logTimeZone,
                          ![t].stream_ = Text(@, Header, HeaderLen), ![t].said = HeaderLen]
  /\ UNCHANGED <<clock, globals, cache, sinks, begun>>

StreamIn(t, b, len) ==
  impl' = [impl EXCEPT ![t].stream_ = b, ![t].pieces = @ + 1, ![t].said = @ + len]

Stream(t) ==
  /\ Goto(t, "stream", "stream") /\ impl[t].pieces < MaxPieces
  /\ \/ \E len \in TextLen : StreamIn(t, Text(impl[t].stream_, Operand, len), len)
     \/ \E len \in NumberLen : StreamIn(t, Number(impl[t].stream_, Operand, len), len)
  /\ UNCHANGED <<clock, globals, cache, sinks, begun>>

-----------------------------------------------------------------------------
(* The destructor.                                                         *)

(* finish()                                                                *)
Trailer(b, len) ==
  Text(Number(Text(Text(Text(b, Dash, 3), Basename, BaseLen), Colon, 1), LineNo, len),
       Newline, 1)

Finish(t) ==
  /\ Goto(t, "stream", "output")
  /\ \E len \in NumberLen :
       impl' = [impl EXCEPT ![t].stream_ = Trailer(@, len), ![t].free = Free(impl[t].stream_)]
  /\ UNCHANGED <<clock, globals, cache, sinks, begun>>

Output(t) ==
  /\ Goto(t, "output", IF impl[t].level = FATAL THEN "flush" ELSE "idle")
  /\ buffered' = [buffered EXCEPT ![g_output] = @ \cup {impl[t].id}]
  /\ impl' = [impl EXCEPT ![t].sink = g_output]
  /\ UNCHANGED <<clock, globals, cache, durable, begun>>

FlushedBy_Nothing(s) == {}          \* mutation: FATAL does not flush
FlushedBy(s) == buffered[s]

FatalFlush(t) ==
  /\ Goto(t, "flush", "abort")
  /\ durable' = durable \cup FlushedBy(g_flush)
  /\ buffered' = [buffered EXCEPT ![g_flush] = {}]
  /\ impl' = [impl EXCEPT ![t].flushed = g_flush]
  /\ UNCHANGED <<clock, globals, cache, begun>>

FatalAbort(t) ==
  /\ Goto(t, "abort", "aborted")
  /\ UNCHANGED <<clock, globals, cache, impl, sinks, begun>>

-----------------------------------------------------------------------------
(* The functions that set the globals, and the clock.                      *)

MaySet == Alive /\ sets < MaxSets /\ sets' = sets + 1

SetLogLevel ==
  /\ MaySet /\ g_logLevel' \in LogLevels
  /\ UNCHANGED <<clock, g_output, g_flush, g_logTimeZone, zoneSet, cache, pc, impl, sinks, begun>>

SetOutput ==
  /\ MaySet /\ g_output' \in Sinks
  /\ UNCHANGED <<clock, g_logLevel, g_flush, g_logTimeZone, zoneSet, cache, pc, impl, sinks, begun>>

SetFlush ==
  /\ MaySet /\ g_flush' \in Sinks
  /\ UNCHANGED <<clock, g_logLevel, g_output, g_logTimeZone, zoneSet, cache, pc, impl, sinks, begun>>

SetTimeZone ==
  /\ MaySet /\ g_logTimeZone' \in Zones /\ zoneSet' = latest
  /\ UNCHANGED <<clock, g_logLevel, g_output, g_flush, cache, pc, impl, sinks, begun>>

Tick ==
  /\ Alive /\ now < MaxTime /\ now' = now + 1
  /\ latest' = IF now' > latest THEN now' ELSE latest
  /\ UNCHANGED <<globals, cache, pc, impl, sinks, begun>>

(* gettimeofday() is the wall clock, which may be set back.                *)
StepBack ==
  /\ Alive /\ now' \in 1..(now - 1)
  /\ UNCHANGED <<latest, globals, cache, pc, impl, sinks, begun>>

-----------------------------------------------------------------------------
Statement(t) ==
  \/ \E level \in LogLevels : Construct(t, level)
  \/ CacheTime(t) \/ AddHeader(t) \/ Stream(t) \/ Finish(t)
  \/ Output(t) \/ FatalFlush(t) \/ FatalAbort(t)

(* The process has aborted, or the model's statements are used up.         *)
Over ==
  /\ Alive => begun = MaxStatements /\ \A t \in Threads : pc[t] = "idle"
  /\ UNCHANGED vars

Next ==
  \/ \E t \in Threads : Statement(t)
  \/ SetLogLevel \/ SetOutput \/ SetFlush \/ SetTimeZone \/ Tick \/ StepBack
  \/ Over

Spec == Init /\ [][Next]_vars

-----------------------------------------------------------------------------
Stamped(t)  == pc[t] \in {"stream", "output", "flush", "abort", "aborted"}
Finished(t) == pc[t] \in {"output", "flush", "abort", "aborted"}

(* The cursor of a stream's buffer stays below its end, in whatever order  *)
(* texts and numbers come and however little room is left, so that the 0   *)
(* byte which the number conversions and debugString() write behind it is  *)
(* inside the buffer (LogStream.cc:62, 81 and 210, LogStream.h:41).        *)
CursorInside ==
  \A t \in Threads : impl[t].stream_.length \in 0..(kSmallBuffer - 1)

(* What finish() adds is all there when there was room for it, a number's  *)
(* worth to spare included; and of a statement whose header and operands   *)
(* leave that room nothing at all is left out                              *)
(* (Logging.cc:164-167, LogStream.h:38-45, LogStream.cc:240-246).          *)
TrailerRoom == 4 + BaseLen + kMaxNumericSize

ShortLinesWhole ==
  \A t \in Threads : Finished(t) =>
    LET d == impl[t].stream_.data IN
      /\ impl[t].free >= TrailerRoom =>
           SubSeq(d, Len(d) - 4, Len(d)) = <<Dash, Basename, Colon, LineNo, Newline>>
      /\ impl[t].said + TrailerRoom <= kSmallBuffer => Len(d) = 1 + impl[t].pieces + 5

(* The time text of a line, though taken from a cache that the thread's    *)
(* other statements filled, is that of the line's own second.  Its zone    *)
(* may be another than the one that the text behind it says, but only in a *)
(* line of a second that was not ahead of all the clock had shown when the *)
(* zone was last set: a later second, unlike one that comes again because  *)
(* the clock was set back, is in no cache (Logging.cc:137-162).            *)
TimeTextIsItsOwn ==
  \A t \in Threads : Stamped(t) =>
    /\ impl[t].stamp.second = impl[t].second
    /\ impl[t].stamp.zone # impl[t].suffix => impl[t].second <= zoneSet

(* When the flush function belongs to the output function, the line of a   *)
(* FATAL statement has been flushed before the process aborts, whatever    *)
(* other threads log meanwhile (Logging.cc:190-199).                       *)
FatalLineFlushed ==
  \A t \in Threads :
    pc[t] = "aborted" /\ impl[t].sink = impl[t].flushed => impl[t].id \in durable
=============================================================================
