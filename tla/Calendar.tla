------------------------------ MODULE Calendar ------------------------------
(***************************************************************************)
(* The Gregorian calendar, walked day by day and year by year with nothing *)
(* but the rule of leap years and the lengths of the months: what Date and *)
(* UtcTime have to agree with.  The walk starts on 2000-01-01, a Saturday, *)
(* whose Julian day number the comment at Date.h:23 gives.                 *)
(***************************************************************************)
EXTENDS UtcTime

CONSTANTS FirstYear, LastYear    \* Date.h:31 says [1900..2500]

ASSUME YearsAssumption ==
  FirstYear \in Nat /\ LastYear \in Nat /\ FirstYear <= 2000 /\ 2000 <= LastYear

VARIABLES today, julianDay, weekday, dayOfYear

calendar == <<today, julianDay, weekday, dayOfYear>>

IsLeap(year) == year % 4 = 0 /\ (year % 100 # 0 \/ year % 400 = 0)

DaysIn(year, month) ==
  CASE month = 2 -> IF IsLeap(year) THEN 29 ELSE 28
    [] month \in {4, 6, 9, 11} -> 30
    [] OTHER -> 31

YearLength(year) == IF IsLeap(year) THEN 366 ELSE 365

Ymd(year, month, day) == [year |-> year, month |-> month, day |-> day]

CalendarInit ==
  today = Ymd(2000, 1, 1) /\ julianDay = 2451545 /\ weekday = 6 /\ dayOfYear = 0

IsNewYear == dayOfYear = 0

Tomorrow ==
  /\ dayOfYear + 1 < YearLength(today.year)
  /\ today' = IF today.day < DaysIn(today.year, today.month)
                THEN [today EXCEPT !.day = @ + 1]
                ELSE Ymd(today.year, today.month + 1, 1)
  /\ julianDay' = julianDay + 1 /\ dayOfYear' = dayOfYear + 1
  /\ weekday' = (weekday + 1) % 7

(* From one new year's day to the next, and to the one before.             *)
NextYear ==
  /\ IsNewYear /\ today.year < LastYear
  /\ today' = Ymd(today.year + 1, 1, 1) /\ julianDay' = julianDay + YearLength(today.year)
  /\ weekday' = (weekday + YearLength(today.year)) % 7 /\ UNCHANGED dayOfYear

PreviousYear ==
  /\ IsNewYear /\ today.year > FirstYear
  /\ today' = Ymd(today.year - 1, 1, 1) /\ julianDay' = julianDay - YearLength(today.year - 1)
  /\ weekday' = (weekday - YearLength(today.year - 1)) % 7 /\ UNCHANGED dayOfYear

(* The last day of a year is the day before the next new year's day.       *)
YearEnds == dayOfYear + 1 = YearLength(today.year) /\ UNCHANGED calendar

CalendarNext == Tomorrow \/ NextYear \/ PreviousYear \/ YearEnds

CalendarSpec == CalendarInit /\ [][CalendarNext]_calendar

-----------------------------------------------------------------------------
(* Date agrees with the calendar on every day, in both directions, and on  *)
(* the day of the week (Date.cc:21-44, Date.h:99-102).                     *)
DateOfEveryDay ==
  /\ getJulianDayNumber(today.year, today.month, today.day) = julianDay
  /\ getYearMonthDay(julianDay) = today
  /\ weekDay(julianDay) = weekday

(* toUtcTime() gives every second of every day its date, its day of the    *)
(* week and of the year, before 1970 too, and fromUtcTime() is its inverse *)
(* (TimeZone.cc:317-360).                                                  *)
UtcRoundTrip ==
  \A s \in 0..(kSecondsPerDay - 1) :
    LET seconds == (julianDay - kJulianDayOf1970_01_01) * kSecondsPerDay + s
        tm == toUtcTime(seconds)
    IN /\ tm.date = today /\ tm.wday = weekday /\ tm.yday = dayOfYear
       /\ fromUtcTime(tm) = seconds
=============================================================================
