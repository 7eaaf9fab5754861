------------------------------ MODULE UtcTime -------------------------------
(***************************************************************************)
(* TimeZone::toUtcTime() and fromUtcTime() of src/TimeZone.cc, the         *)
(* library's own gmtime() and timegm().  How long minutes, hours and days  *)
(* are is left open.                                                       *)
(***************************************************************************)
EXTENDS Date, CInt

CONSTANTS
  SecondsPerMinute, MinutesPerHour, HoursPerDay    \* 60, 60 and 24

ASSUME ClockAssumption ==
  /\ SecondsPerMinute \in Nat \ {0} /\ MinutesPerHour \in Nat \ {0}
  /\ HoursPerDay \in Nat \ {0}

SecondsPerHour == MinutesPerHour * SecondsPerMinute
kSecondsPerDay == HoursPerDay * SecondsPerHour

fillHMS(seconds) ==
  LET minutes == seconds \div SecondsPerMinute
  IN [sec  |-> seconds % SecondsPerMinute, min |-> minutes % MinutesPerHour,
      hour |-> minutes \div MinutesPerHour]

(* Before 1970 the remainder is negative.                                  *)
DayOf_Rounded(secondsSinceEpoch) == Quot(secondsSinceEpoch, kSecondsPerDay)  \* mutation
DayOf(secondsSinceEpoch) ==
  Quot(secondsSinceEpoch, kSecondsPerDay) -
    IF Rem(secondsSinceEpoch, kSecondsPerDay) < 0 THEN 1 ELSE 0

SecondOf(secondsSinceEpoch) ==
  LET seconds == Rem(secondsSinceEpoch, kSecondsPerDay)
  IN IF seconds < 0 THEN seconds + kSecondsPerDay ELSE seconds

toUtcTime(secondsSinceEpoch) ==
  LET jdn == DayOf(secondsSinceEpoch) + kJulianDayOf1970_01_01
      ymd == getYearMonthDay(jdn)
  IN [date |-> ymd, time |-> fillHMS(SecondOf(secondsSinceEpoch)), wday |-> weekDay(jdn),
      yday |-> jdn - getJulianDayNumber(ymd.year, 1, 1)]

fromUtcTime(tm) ==
  LET secondsInDay == tm.time.hour * SecondsPerHour + tm.time.min * SecondsPerMinute + tm.time.sec
      days == getJulianDayNumber(tm.date.year, tm.date.month, tm.date.day) - kJulianDayOf1970_01_01
  IN days * kSecondsPerDay + secondsInDay
=============================================================================
