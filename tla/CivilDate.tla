------------------------------ MODULE CivilDate ------------------------------
(***************************************************************************)
(* The daemon's calendar: the date and the time of day of a Unix second,   *)
(* written twice in the code with the same steps, for the stamp of a       *)
(* record (ClockReading, CivilDate) and for the date and time of a         *)
(* handover marker (HandoverClockReading, HandoverCivilDate).              *)
(*                                                                         *)
(* Years are counted from the first of March, so that the leap day is the  *)
(* last of its year, in eras of 400 years that all have the same length.   *)
(***************************************************************************)
EXTENDS Integers

SecondsPerDay == 86400

\* duration_since(UNIX_EPOCH) fails before the epoch and counts as 0.
ClockSeconds(now) == IF now < 0 THEN 0 ELSE now

-----------------------------------------------------------------------------
(* from_unix_days *)

\* Days after the first of March of the year 0.
ZeroBased(days) == days + 719468

\* The code divides with truncation and corrects a negative dividend, which
\* is the division of TLA+.
Era(days) == ZeroBased(days) \div 146097

DayOfEra(days) == ZeroBased(days) - Era(days) * 146097

YearOfEra(dayOfEra) ==
  (dayOfEra - dayOfEra \div 1460 + dayOfEra \div 36524 - dayOfEra \div 146096)
    \div 365

DaysBefore(yearOfEra) ==
  365 * yearOfEra + yearOfEra \div 4 - yearOfEra \div 100

DayOfYear(dayOfEra) == dayOfEra - DaysBefore(YearOfEra(dayOfEra))

\* 0 for March to 11 for February.
MonthParameter(dayOfYear) == (5 * dayOfYear + 2) \div 153

DayOfMonth(dayOfYear) ==
  dayOfYear - (153 * MonthParameter(dayOfYear) + 2) \div 5 + 1

Month(parameter) == IF parameter < 10 THEN parameter + 3 ELSE parameter - 9

\* The date before its year is cast.
UnixDate(days) ==
  LET dayOfEra  == DayOfEra(days)
      dayOfYear == DayOfYear(dayOfEra)
      month     == Month(MonthParameter(dayOfYear))
  IN  [year  |-> YearOfEra(dayOfEra) + Era(days) * 400
                   + (IF month <= 2 THEN 1 ELSE 0),
       month |-> month,
       day   |-> DayOfMonth(dayOfYear)]

-----------------------------------------------------------------------------
(* from_unix_seconds *)

YearRange == 65536

FromUnixDays(days) ==
  [UnixDate(days) EXCEPT !.year = @ % YearRange]

\* The year of the day fits the sixteen bits that keep it.
YearFits(seconds) == UnixDate(seconds \div SecondsPerDay).year < YearRange

TimeOfDay(second) ==
  [hour   |-> second \div 3600,
   minute |-> (second % 3600) \div 60,
   second |-> second % 60]

\* Mutant: the clock is read once for the time and again for the date.
FromUnixSecondsReadTwice(seconds) ==
  [date |-> FromUnixDays((seconds + 1) \div SecondsPerDay),
   time |-> TimeOfDay(seconds % SecondsPerDay)]

FromUnixSeconds(seconds) ==
  [date |-> FromUnixDays(seconds \div SecondsPerDay),
   time |-> TimeOfDay(seconds % SecondsPerDay)]

-----------------------------------------------------------------------------
(* The order of recorded times, which the records are sorted by *)

DateBefore(a, b) ==
  \/ a.year < b.year
  \/ a.year = b.year /\ a.month < b.month
  \/ a.year = b.year /\ a.month = b.month /\ a.day < b.day

TimeBefore(a, b) ==
  \/ a.hour < b.hour
  \/ a.hour = b.hour /\ a.minute < b.minute
  \/ a.hour = b.hour /\ a.minute = b.minute /\ a.second < b.second

Earlier(a, b) ==
  DateBefore(a.date, b.date) \/ (a.date = b.date /\ TimeBefore(a.time, b.time))

-----------------------------------------------------------------------------
(* A reference: the Gregorian calendar, one day after the other *)

IsLeapYear(year) == year % 4 = 0 /\ (year % 100 # 0 \/ year % 400 = 0)

DaysInMonth(year, month) ==
  IF month = 2 THEN IF IsLeapYear(year) THEN 29 ELSE 28
  ELSE IF month \in {4, 6, 9, 11} THEN 30 ELSE 31

NextDay(date) ==
  IF date.day < DaysInMonth(date.year, date.month)
    THEN [year |-> date.year, month |-> date.month, day |-> date.day + 1]
  ELSE IF date.month < 12
    THEN [year |-> date.year, month |-> date.month + 1, day |-> 1]
  ELSE [year |-> date.year + 1, month |-> 1, day |-> 1]
=============================================================================
