------------------------------ MODULE TimeZone ------------------------------
(***************************************************************************)
(* A TimeZone of src/TimeZone.{h,cc}: how its table is read from a zone    *)
(* file, which may be missing or broken off anywhere, and the conversions  *)
(* between GMT and local time that look into it.  A struct tm is the       *)
(* number of its second on the local calendar and tm_isdst: gmtime_r() and *)
(* timegm() go from the one to the other.                                  *)
(***************************************************************************)
EXTENDS Integers, Sequences, SequencesExt

CONSTANTS
  ZoneFiles,      \* the zones that files describe: types and transitions
  Offsets,        \* what eastOfUtc may be
  Minute, Day,    \* in seconds
  Hour,           \* the 3600 of fromLocalTime()
  Times           \* the GMT seconds that are converted

ASSUME TimeZoneAssumption ==
  /\ Minute \in Nat \ {0} /\ Day \in Nat \ {0} /\ Hour \in Nat \ {0}
  /\ Times \subseteq Int /\ Offsets \subseteq Int

(* What a zone file is: its changes come in the order of time, as          *)
(* std::lower_bound() needs it, and name types that the file has.          *)
ASSUME ZoneFilesAssumption ==
  \A z \in ZoneFiles :
    /\ z.types \in Seq([gmtOffset : Int, isDst : BOOLEAN])
    /\ z.transitions \in Seq([at : Int, type : DOMAIN z.types])
    /\ \A i, j \in DOMAIN z.transitions :
         i < j => z.transitions[i].at < z.transitions[j].at

VARIABLES
  zoneFile,  \* the zone the constructor's file describes
  zpc,        \* where the constructor is
  data_,     \* the Data: transitions, localtimes and abbreviation
  valid,     \* data_ is not null
  failed     \* an exception was thrown while it was read

zoneVars == <<zoneFile, zpc, data_, valid, failed>>

Localtime(gmtOffset, isDst) == [gmtOffset |-> gmtOffset, isDst |-> isDst]

EmptyData == [transitions |-> << >>, localtimes |-> << >>, names |-> FALSE]

ZoneInit ==
  /\ zoneFile \in ZoneFiles /\ zpc = "new" /\ data_ = EmptyData /\ valid = FALSE /\ failed = FALSE

-----------------------------------------------------------------------------
(* Constructors.                                                           *)

(* TimeZone(eastOfUtc, tzname)                                             *)
FixedZone ==
  /\ zpc = "new" /\ zpc' = "built" /\ valid' = TRUE
  /\ \E eastOfUtc \in Offsets :
       data_' = [EmptyData EXCEPT !.localtimes = <<Localtime(eastOfUtc, FALSE)>>, !.names = TRUE]
  /\ UNCHANGED <<zoneFile, failed>>

(* fopen(): when it fails nothing is read.                                 *)
OpenFile == zpc = "new" /\ zpc' = "head" /\ UNCHANGED <<zoneFile, data_, valid, failed>>

(* readTimeZoneFile() returns true from here too.                          *)
OpenFails ==
  /\ zpc = "new" /\ zpc' = "built" /\ valid' = TRUE
  /\ UNCHANGED <<zoneFile, data_, failed>>

(* A short read, or a bad head: the exception is caught, and what has been *)
(* read so far is kept.                                                    *)
Throw ==
  /\ zpc \in {"head", "types", "names"} /\ zpc' = "built"
  /\ valid' = TRUE /\ failed' = TRUE
  /\ UNCHANGED <<zoneFile, data_>>

(* The head, the counts, and the two arrays that stay in local variables.  *)
ReadHead == zpc = "head" /\ zpc' = "types" /\ UNCHANGED <<zoneFile, data_, valid, failed>>

ReadType ==
  LET n == Len(data_.localtimes) IN
  /\ zpc = "types" /\ n < Len(zoneFile.types)
  /\ data_' = [data_ EXCEPT !.localtimes = Append(@, zoneFile.types[n + 1])]
  /\ UNCHANGED <<zoneFile, zpc, valid, failed>>

LocalOf(at, type) == at + type.gmtOffset

FillTransitions ==
  /\ zpc = "types" /\ Len(data_.localtimes) = Len(zoneFile.types) /\ zpc' = "names"
  /\ data_' = [data_ EXCEPT !.transitions =
        [i \in DOMAIN zoneFile.transitions |->
           LET t == zoneFile.transitions[i] IN
           [gmttime |-> t.at, localtimeIdx |-> t.type,
            localtime |-> LocalOf(t.at, data_.localtimes[t.type])]]]
  /\ UNCHANGED <<zoneFile, valid, failed>>

ReadNames ==
  /\ zpc = "names" /\ zpc' = "built" /\ valid' = TRUE
  /\ data_' = [data_ EXCEPT !.names = TRUE] /\ UNCHANGED <<zoneFile, failed>>

-----------------------------------------------------------------------------
(* Conversions; compare is the field that Comp compares.                   *)

(* std::lower_bound(): the first transition that is not before the sentry, *)
(* 0 for the end.                                                          *)
lower_bound(transitions, sentry, compare) ==
  SelectInSeq(transitions, LAMBDA t : t[compare] >= sentry)

StepsBack_Never(transition, sentry, compare) == FALSE            \* mutation
StepsBack(transition, sentry, compare) == transition[compare] # sentry

(* Without a localtime there is nothing to return: the code then looks at  *)
(* the front of an empty vector.                                           *)
findLocaltime(sentry, compare) ==
  LET transitions == data_.transitions
      i == lower_bound(transitions, sentry, compare)
  IN data_.localtimes[
       IF transitions = << >> \/ sentry < transitions[1][compare] THEN 1
       ELSE IF i = 0 THEN Last(transitions).localtimeIdx
       ELSE IF StepsBack(transitions[i], sentry, compare) THEN transitions[i - 1].localtimeIdx
       ELSE transitions[i].localtimeIdx]

toLocalTime(seconds) ==
  LET local == findLocaltime(seconds, "gmttime")
  IN [second |-> LocalOf(seconds, local), isDst |-> local.isDst]

SameHourAndMinute(s, t) == (s % Day) \div Minute = (t % Day) \div Minute

IsRepeated_Never(localTm, gmtOffset) == FALSE                    \* mutation
(* The hour that comes twice when daylight saving ends.                    *)
IsRepeated(localTm, gmtOffset) ==
  localTm.isDst /\
    LET tryTm == toLocalTime(localTm.second - gmtOffset) IN
    ~tryTm.isDst /\ SameHourAndMinute(tryTm.second, localTm.second)

fromLocalTime(localTm) ==
  LET local == findLocaltime(localTm.second, "localtime")
      seconds == localTm.second - IF IsRepeated(localTm, local.gmtOffset) THEN Hour ELSE 0
  IN seconds - local.gmtOffset

-----------------------------------------------------------------------------
Reading ==
  \/ OpenFile \/ OpenFails \/ Throw \/ ReadHead \/ ReadType \/ FillTransitions \/ ReadNames

Built == zpc = "built" /\ UNCHANGED zoneVars

ZoneNext == FixedZone \/ Reading \/ Built

ZoneSpec == ZoneInit /\ [][ZoneNext]_zoneVars

-----------------------------------------------------------------------------
Convertible == zpc = "built" /\ data_.localtimes # << >>

(* The zone that holds at a time is that of the latest change so far.      *)
(* Before the first change and after the last one the source itself says   *)
(* that it may be another one than the code takes (the FIXMEs of lines 227 *)
(* and 241), unless there is only one.                                     *)
Changes(t) == {i \in DOMAIN data_.transitions : data_.transitions[i].gmttime <= t}
TypeAt(t) ==
  IF Changes(t) = {} THEN 1
  ELSE data_.transitions[CHOOSE i \in Changes(t) : \A j \in Changes(t) : j <= i].localtimeIdx
Settled(t) ==
  \/ Changes(t) \notin {{}, DOMAIN data_.transitions}
  \/ Len(data_.localtimes) = 1

(* From the first change to the last, and in a zone without changes,       *)
(* toLocalTime() applies the zone that holds at the time, at the very      *)
(* second of a change and next to it too (TimeZone.cc:222-290).            *)
ZoneInForce ==
  zpc = "built" => \A t \in Times : Settled(t) =>
    LET type == data_.localtimes[TypeAt(t)] IN
    toLocalTime(t) = [second |-> t + type.gmtOffset, isDst |-> type.isDst]

(* Daylight saving is one hour, as fromLocalTime() takes it to be, and no  *)
(* change is so soon after another that the repeated hour spans both.      *)
StandardOffset(type) == type.gmtOffset - IF type.isDst THEN Hour ELSE 0
SavesOneHour(z) ==
  /\ \A i, j \in DOMAIN z.types :
       StandardOffset(z.types[i]) = StandardOffset(z.types[j])
  /\ \A i \in 2..Len(z.transitions) :
       z.transitions[i].at > z.transitions[i - 1].at + Hour

(* In such a zone fromLocalTime() finds the way back, through the hour     *)
(* that comes twice as well (TimeZone.cc:294).                             *)
LocalRoundTrip ==
  SavesOneHour(zoneFile) /\ Convertible =>
    \A t \in Times : fromLocalTime(toLocalTime(t)) = t

(* What the comment at TimeZone.cc:158 says: readTimeZoneFile() returns    *)
(* true, except when there was an exception, so that the constructor then  *)
(* drops what was read.                                                    *)
FailedReadIsInvalid == zpc = "built" /\ failed => ~valid
=============================================================================
