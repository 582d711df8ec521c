--------------------------- MODULE CivilDate_proofs ---------------------------
(***************************************************************************)
(* Proofs about CivilDate: the daemon's calendar is the Gregorian one, and *)
(* recorded times are in the order of the seconds they stand for.          *)
(***************************************************************************)
EXTENDS CivilDate, TLAPS

\* The day within its era, and the era, of the days after the epoch.
LEMMA EraBounds ==
  ASSUME NEW days \in Int, 0 <= days
  PROVE  /\ Era(days) \in Int /\ DayOfEra(days) \in Int
         /\ 0 <= Era(days)
         /\ 0 <= DayOfEra(days) /\ DayOfEra(days) <= 146096
         /\ days + 719468 = 146097 * Era(days) + DayOfEra(days)
  BY SMTT(60) DEF Era, DayOfEra, ZeroBased

\* The year of a day of the era is the one whose days it falls in.
LEMMA YearBounds ==
  ASSUME NEW d \in Int, 0 <= d, d <= 146096
  PROVE  /\ YearOfEra(d) \in Int
         /\ 0 <= YearOfEra(d) /\ YearOfEra(d) <= 399
         /\ DaysBefore(YearOfEra(d)) <= d
         /\ YearOfEra(d) < 399 => d < DaysBefore(YearOfEra(d) + 1)
  <1>1. YearOfEra(d) \in Int /\ 0 <= YearOfEra(d) /\ YearOfEra(d) <= 399
    BY SMTT(60) DEF YearOfEra
  <1>2. DaysBefore(YearOfEra(d)) <= d
    BY SMTT(60) DEF YearOfEra, DaysBefore
  <1>3. YearOfEra(d) < 399 => d < DaysBefore(YearOfEra(d) + 1)
    BY SMTT(60) DEF YearOfEra, DaysBefore
  <1>4. QED
    BY <1>1, <1>2, <1>3

\* A year has 366 days when its last month, February, is that of a leap
\* year, and 365 otherwise.
LEMMA YearLength ==
  ASSUME NEW y \in Int, 0 <= y, y <= 399
  PROVE  LET leap == (y + 1) % 4 = 0 /\ ((y + 1) % 100 # 0 \/ y = 399)
             next == IF y = 399 THEN 146097 ELSE DaysBefore(y + 1)
         IN  /\ DaysBefore(y) \in Int
             /\ next = DaysBefore(y) + (IF leap THEN 366 ELSE 365)
             /\ y < 399 => next <= 145731
  BY SMTT(60) DEF DaysBefore

LEMMA MonthBounds ==
  ASSUME NEW d \in Int, 0 <= d, d <= 365
  PROVE  /\ MonthParameter(d) \in Int
         /\ 0 <= MonthParameter(d) /\ MonthParameter(d) <= 11
         /\ DayOfMonth(d) \in Int
         /\ 1 <= DayOfMonth(d) /\ DayOfMonth(d) <= 31
         /\ MonthParameter(d) = 11 => DayOfMonth(d) = d - 336
  BY SMTT(60) DEF MonthParameter, DayOfMonth

\* The next day of the same year.
LEMMA MonthStep ==
  ASSUME NEW d \in Int, 0 <= d, d <= 364
  PROVE  LET p == MonthParameter(d)
             length == IF p \in {1, 3, 6, 8} THEN 30 ELSE 31
         IN  \/ /\ MonthParameter(d + 1) = p
                /\ DayOfMonth(d + 1) = DayOfMonth(d) + 1
                /\ p # 11 => DayOfMonth(d) < length
             \/ /\ p # 11
                /\ MonthParameter(d + 1) = p + 1
                /\ DayOfMonth(d + 1) = 1
                /\ DayOfMonth(d) = length
  BY SMTT(60) DEF MonthParameter, DayOfMonth

\* The day within its year.
LEMMA DayOfYearBounds ==
  ASSUME NEW e \in Int, 0 <= e, e <= 146096
  PROVE  /\ DayOfYear(e) \in Int
         /\ 0 <= DayOfYear(e) /\ DayOfYear(e) <= 365
         /\ e = DaysBefore(YearOfEra(e)) + DayOfYear(e)
  BY SMTT(60) DEF DayOfYear, DaysBefore, YearOfEra

\* The parts the date of a day is put together from.
LEMMA DateParts ==
  ASSUME NEW days \in Int, 0 <= days
  PROVE  LET y == YearOfEra(DayOfEra(days))
             d == DayOfYear(DayOfEra(days))
             p == MonthParameter(d)
         IN  /\ y \in Int /\ 0 <= y /\ y <= 399
             /\ d \in Int /\ 0 <= d /\ d <= 365
             /\ DayOfEra(days) = DaysBefore(y) + d
             /\ UnixDate(days) =
                  [year  |-> y + 400 * Era(days) + (IF p >= 10 THEN 1 ELSE 0),
                   month |-> IF p >= 10 THEN p - 9 ELSE p + 3,
                   day   |-> DayOfMonth(d)]
  <1> DEFINE y == YearOfEra(DayOfEra(days))
             d == DayOfYear(DayOfEra(days))
             p == MonthParameter(d)
  <1>1. /\ DayOfEra(days) \in Int
        /\ 0 <= DayOfEra(days) /\ DayOfEra(days) <= 146096
        /\ Era(days) \in Int
    BY EraBounds
  <1>2. y \in Int /\ 0 <= y /\ y <= 399
    BY <1>1, YearBounds
  <1>3. d \in Int /\ 0 <= d /\ d <= 365 /\ DayOfEra(days) = DaysBefore(y) + d
    BY <1>1, DayOfYearBounds
  <1>4. p \in Int /\ 0 <= p /\ p <= 11
    BY <1>3, MonthBounds
  <1>5. /\ Month(p) = IF p >= 10 THEN p - 9 ELSE p + 3
        /\ Month(p) <= 2 <=> p >= 10
    BY <1>4 DEF Month
  <1>6. y + Era(days) * 400 = y + 400 * Era(days)
    BY <1>1, <1>2
  <1>7. UnixDate(days) =
          [year  |-> y + 400 * Era(days) + (IF p >= 10 THEN 1 ELSE 0),
           month |-> IF p >= 10 THEN p - 9 ELSE p + 3,
           day   |-> DayOfMonth(d)]
    BY <1>5, <1>6 DEF UnixDate
  <1>8. QED
    BY <1>2, <1>3, <1>7

\* The days of the year of an era that starts in March of year y.
YearDays(y) ==
  IF (y + 1) % 4 = 0 /\ ((y + 1) % 100 # 0 \/ y = 399) THEN 366 ELSE 365

\* A day of the era is in one year only.
LEMMA YearIsUnique ==
  ASSUME NEW e \in Int, 0 <= e, e <= 146096,
         NEW y \in Int, 0 <= y, y <= 399,
         DaysBefore(y) <= e, e < DaysBefore(y) + YearDays(y)
  PROVE  YearOfEra(e) = y
  BY SMTT(60) DEF YearOfEra, DaysBefore, YearDays

\* The day after the epoch and the day after it in era, year and day.
LEMMA NextParts ==
  ASSUME NEW days \in Int, 0 <= days
  PROVE  LET y == YearOfEra(DayOfEra(days))
             d == DayOfYear(DayOfEra(days))
             e == DayOfEra(days + 1)
         IN  /\ d < YearDays(y)
             /\ \/ /\ d + 1 < YearDays(y)
                   /\ Era(days + 1) = Era(days)
                   /\ YearOfEra(e) = y /\ DayOfYear(e) = d + 1
                \/ /\ d + 1 = YearDays(y) /\ y < 399
                   /\ Era(days + 1) = Era(days)
                   /\ YearOfEra(e) = y + 1 /\ DayOfYear(e) = 0
                \/ /\ d + 1 = YearDays(y) /\ y = 399
                   /\ Era(days + 1) = Era(days) + 1
                   /\ YearOfEra(e) = 0 /\ DayOfYear(e) = 0
  <1> DEFINE y == YearOfEra(DayOfEra(days))
             d == DayOfYear(DayOfEra(days))
             e == DayOfEra(days + 1)
  <1>1. /\ DayOfEra(days) \in Int
        /\ 0 <= DayOfEra(days) /\ DayOfEra(days) <= 146096
        /\ Era(days) \in Int
        /\ e \in Int /\ 0 <= e /\ e <= 146096
        /\ Era(days + 1) \in Int
        /\ 146097 * Era(days) + DayOfEra(days) + 1 = 146097 * Era(days + 1) + e
    <2>1. /\ days + 1 \in Int /\ 0 <= days + 1
          /\ (days + 1) + 719468 = (days + 719468) + 1
      OBVIOUS
    <2>2. /\ e \in Int /\ 0 <= e /\ e <= 146096
          /\ Era(days + 1) \in Int
          /\ (days + 1) + 719468 = 146097 * Era(days + 1) + e
      BY <2>1, EraBounds
    <2>3. QED
      BY <2>1, <2>2, EraBounds
  <1>2. \/ Era(days + 1) = Era(days) /\ e = DayOfEra(days) + 1
        \/ Era(days + 1) = Era(days) + 1 /\ e = 0 /\ DayOfEra(days) = 146096
    BY <1>1, SMTT(60)
  <1>3. y \in Int /\ 0 <= y /\ y <= 399
    BY <1>1, YearBounds
  <1>4. /\ d \in Int /\ 0 <= d /\ d <= 365
        /\ DayOfEra(days) = DaysBefore(y) + d
    BY <1>1, DayOfYearBounds
  <1>5. /\ DaysBefore(y) \in Int
        /\ y < 399 => /\ DaysBefore(y + 1) = DaysBefore(y) + YearDays(y)
                      /\ DaysBefore(y + 1) <= 145731
        /\ y = 399 => DaysBefore(y) + YearDays(y) = 146097
        /\ DaysBefore(0) = 0
        /\ YearDays(y) \in {365, 366}
    <2>1. DaysBefore(0) = 0
      BY SMT DEF DaysBefore
    <2>2. QED
      BY <1>3, <2>1, YearLength DEF YearDays
  <1>6. d < YearDays(y)
    BY <1>1, <1>3, <1>4, <1>5, YearBounds
  <1>7. e = DaysBefore(YearOfEra(e)) + DayOfYear(e) /\ DayOfYear(e) \in Int
    BY <1>1, DayOfYearBounds
  <1> HIDE DEF y, d, e
  <1>8. CASE d + 1 < YearDays(y)
    <2>1. Era(days + 1) = Era(days) /\ e = DayOfEra(days) + 1
      BY <1>1, <1>2, <1>3, <1>4, <1>5, <1>8
    <2>2. YearOfEra(e) = y
      BY <1>1, <1>3, <1>4, <1>5, <1>8, <2>1, YearIsUnique
    <2>3. DayOfYear(e) = d + 1
      BY <1>4, <1>5, <1>7, <2>1, <2>2
    <2>4. QED
      BY <1>6, <1>8, <2>1, <2>2, <2>3 DEF y, d, e
  <1>9. CASE d + 1 = YearDays(y) /\ y < 399
    <2>1. Era(days + 1) = Era(days) /\ e = DaysBefore(y + 1)
      BY <1>1, <1>2, <1>3, <1>4, <1>5, <1>9, SMT DEF DaysBefore
    <2>2. YearOfEra(e) = y + 1
      <3>1. DaysBefore(y + 1) < DaysBefore(y + 1) + YearDays(y + 1)
        BY <1>1, <2>1 DEF YearDays
      <3>2. QED
        BY <1>1, <1>3, <1>9, <2>1, <3>1, YearIsUnique
    <2>3. DayOfYear(e) = 0
      BY <1>1, <1>7, <2>1, <2>2
    <2>4. QED
      BY <1>6, <1>9, <2>1, <2>2, <2>3 DEF y, d, e
  <1>10. CASE d + 1 = YearDays(y) /\ y = 399
    <2>1. Era(days + 1) = Era(days) + 1 /\ e = 0
      BY <1>1, <1>2, <1>3, <1>4, <1>5, <1>10
    <2>2. YearOfEra(e) = 0
      BY <1>5, <2>1, YearIsUnique, SMT DEF YearDays
    <2>3. DayOfYear(e) = 0
      BY <1>5, <1>7, <2>1, <2>2
    <2>4. QED
      BY <1>6, <1>10, <2>1, <2>2, <2>3 DEF y, d, e
  <1>11. QED
    <2>1. d + 1 <= YearDays(y)
      BY <1>4, <1>5, <1>6
    <2>2. QED
      BY <1>3, <1>4, <1>5, <1>8, <1>9, <1>10, <2>1

LEMMA NextDayOf ==
  ASSUME NEW year, NEW month, NEW day
  PROVE  NextDay([year |-> year, month |-> month, day |-> day]) =
           IF day < DaysInMonth(year, month)
             THEN [year |-> year, month |-> month, day |-> day + 1]
           ELSE IF month < 12
             THEN [year |-> year, month |-> month + 1, day |-> 1]
           ELSE [year |-> year + 1, month |-> 1, day |-> 1]
  BY DEF NextDay

\* The calendar of the code (CivilDate and HandoverCivilDate::from_unix_days)
\* is the Gregorian one: 1970-01-01 is day 0, and each day of it is followed
\* by the next day of the reference, leap days and centuries included.
THEOREM CalendarIsGregorian ==
  /\ UnixDate(0) = [year |-> 1970, month |-> 1, day |-> 1]
  /\ \A days \in Nat : UnixDate(days + 1) = NextDay(UnixDate(days))
  <1>1. UnixDate(0) = [year |-> 1970, month |-> 1, day |-> 1]
    BY SMTT(60)
       DEF UnixDate, DayOfEra, ZeroBased, Era, DayOfYear, YearOfEra, DaysBefore,
           MonthParameter, DayOfMonth, Month
  <1>2. ASSUME NEW days \in Nat
        PROVE  UnixDate(days + 1) = NextDay(UnixDate(days))
    <2> DEFINE E == Era(days)
               y == YearOfEra(DayOfEra(days))
               d == DayOfYear(DayOfEra(days))
               p == MonthParameter(d)
               year == y + 400 * E + (IF p >= 10 THEN 1 ELSE 0)
               y2 == YearOfEra(DayOfEra(days + 1))
               d2 == DayOfYear(DayOfEra(days + 1))
               p2 == MonthParameter(d2)
    <2>1. /\ y \in Int /\ 0 <= y /\ y <= 399
          /\ d \in Int /\ 0 <= d /\ d <= 365
          /\ UnixDate(days) =
               [year  |-> year,
                month |-> IF p >= 10 THEN p - 9 ELSE p + 3,
                day   |-> DayOfMonth(d)]
      BY DateParts
    <2>2. UnixDate(days + 1) =
            [year  |-> y2 + 400 * Era(days + 1) + (IF p2 >= 10 THEN 1 ELSE 0),
             month |-> IF p2 >= 10 THEN p2 - 9 ELSE p2 + 3,
             day   |-> DayOfMonth(d2)]
      <3>1. days + 1 \in Int /\ 0 <= days + 1
        OBVIOUS
      <3>2. QED
        BY <3>1, DateParts
    <2>3. /\ d < YearDays(y)
          /\ \/ /\ d + 1 < YearDays(y)
                /\ Era(days + 1) = E /\ y2 = y /\ d2 = d + 1
             \/ /\ d + 1 = YearDays(y) /\ y < 399
                /\ Era(days + 1) = E /\ y2 = y + 1 /\ d2 = 0
             \/ /\ d + 1 = YearDays(y) /\ y = 399
                /\ Era(days + 1) = E + 1 /\ y2 = 0 /\ d2 = 0
      BY NextParts
    <2>4. E \in Int /\ 0 <= E
      BY EraBounds
    <2>5. /\ p \in Int /\ 0 <= p /\ p <= 11
          /\ DayOfMonth(d) \in Int
          /\ p = 11 => DayOfMonth(d) = d - 336
      BY <2>1, MonthBounds
    <2>6. MonthParameter(0) = 0 /\ DayOfMonth(0) = 1
      BY SMT DEF MonthParameter, DayOfMonth
    <2>7. p >= 10 => (IsLeapYear(year) <=> YearDays(y) = 366)
      <3>1. p >= 10 => year = 400 * E + (y + 1)
        BY <2>1, <2>4
      <3>2. IsLeapYear(400 * E + (y + 1)) <=> YearDays(y) = 366
        BY <2>1, <2>4, SMTT(60) DEF IsLeapYear, YearDays
      <3>3. QED
        BY <3>1, <3>2
    <2> HIDE DEF E, y, d, p, y2, d2, p2
    <2> DEFINE month == IF p >= 10 THEN p - 9 ELSE p + 3
               length == IF p = 11 THEN IF YearDays(y) = 366 THEN 29 ELSE 28
                         ELSE IF p \in {1, 3, 6, 8} THEN 30 ELSE 31
    <2>8. DaysInMonth(year, month) = length
      <3>1. /\ month = 2 <=> p = 11
            /\ month \in {4, 6, 9, 11} <=> p \in {1, 3, 6, 8}
        BY <2>5
      <3> HIDE DEF month
      <3>2. QED
        BY <2>7, <3>1, <2>5 DEF DaysInMonth
    <2> DEFINE day == DayOfMonth(d)
               next == IF day < length
                         THEN [year |-> year, month |-> month, day |-> day + 1]
                       ELSE IF month < 12
                         THEN [year |-> year, month |-> month + 1, day |-> 1]
                       ELSE [year |-> year + 1, month |-> 1, day |-> 1]
    <2>9. NextDay(UnixDate(days)) = next
      BY <2>1, <2>8, NextDayOf
    <2>10. CASE d + 1 < YearDays(y)
      <3>1. y2 = y /\ Era(days + 1) = E /\ d2 = d + 1
        BY <2>1, <2>3, <2>10 DEF YearDays
      <3>2. d <= 364
        BY <2>1, <2>10 DEF YearDays
      <3>3. p = 11 => DayOfMonth(d) < length
        BY <2>1, <2>5, <2>10 DEF YearDays
      <3>4. \/ /\ p2 = p
               /\ DayOfMonth(d2) = DayOfMonth(d) + 1
               /\ DayOfMonth(d) < length
            \/ /\ p # 11
               /\ p2 = p + 1
               /\ DayOfMonth(d2) = 1
               /\ DayOfMonth(d) = length
        BY <2>1, <2>3, <2>10, <3>2, <3>3, MonthStep DEF p, p2
      <3> HIDE DEF length
      <3>5. CASE p2 = p /\ DayOfMonth(d) < length
        <4>1. /\ next = [year |-> year, month |-> month, day |-> day + 1]
              /\ day + 1 = DayOfMonth(d2)
          BY <2>5, <3>4, <3>5
        <4>2. QED
          BY <2>2, <2>9, <3>1, <3>5, <4>1
      <3>6. CASE p # 11 /\ p2 = p + 1 /\ DayOfMonth(d) = length
        <4>1. NextDay(UnixDate(days)) =
                IF month < 12 THEN [year |-> year, month |-> month + 1, day |-> 1]
                ELSE [year |-> year + 1, month |-> 1, day |-> 1]
          <5>1. day \in Int /\ ~(day < length)
            BY <2>5, <3>6
          <5>2. QED
            BY <2>9, <5>1
        <4>2. month < 12 <=> p # 9
          BY <2>5
        <4>3. p # 9 => /\ (IF p2 >= 10 THEN p2 - 9 ELSE p2 + 3) = month + 1
                       /\ (IF p2 >= 10 THEN 1 ELSE 0) = (IF p >= 10 THEN 1 ELSE 0)
          BY <2>5, <3>6
        <4>4. p = 9 => /\ (IF p2 >= 10 THEN p2 - 9 ELSE p2 + 3) = 1
                       /\ (IF p2 >= 10 THEN 1 ELSE 0) = 1
                       /\ year = y + 400 * E
          BY <2>1, <2>4, <2>5, <3>6
        <4>5. DayOfMonth(d2) = 1 /\ y2 = y /\ Era(days + 1) = E
          <5>1. p2 # p
            BY <2>5, <3>6
          <5>2. QED
            BY <3>1, <3>4, <5>1
        <4>6. y + 400 * E \in Int
          BY <2>1, <2>4
        <4> HIDE DEF month
        <4>7. CASE p = 9
          BY <2>2, <4>1, <4>2, <4>4, <4>5, <4>6, <4>7
        <4>8. CASE p # 9
          BY <2>2, <4>1, <4>2, <4>3, <4>5, <4>6, <4>8
        <4>9. QED
          BY <4>7, <4>8
      <3>7. QED
        BY <3>4, <3>5, <3>6
    <2>11. CASE d + 1 = YearDays(y)
      <3>1. p = 11 /\ DayOfMonth(d) = length
        <4>1. \A n \in Int : n \in {364, 365} => MonthParameter(n) = 11
          BY SMT DEF MonthParameter
        <4>2. YearDays(y) \in {365, 366}
          BY DEF YearDays
        <4>3. QED
          BY <2>1, <2>5, <2>11, <4>1, <4>2 DEF p
      <3>2. p2 = 0 /\ DayOfMonth(d2) = 1
        BY <2>1, <2>3, <2>6, <2>11 DEF p2
      <3>3. y2 + 400 * Era(days + 1) = year /\ month = 2
        BY <2>1, <2>3, <2>4, <2>11, <3>1
      <3>4. NextDay(UnixDate(days)) = [year |-> year, month |-> 3, day |-> 1]
        <4>1. day \in Int /\ ~(day < length)
          BY <2>5, <3>1
        <4> HIDE DEF length
        <4>2. QED
          BY <2>9, <3>3, <4>1
      <3>5. /\ y2 + 400 * Era(days + 1) + 0 = year
        BY <2>1, <2>3, <2>4, <2>11, <3>1
      <3> HIDE DEF year
      <3>6. QED
        BY <2>2, <3>2, <3>4, <3>5
    <2>12. QED
      BY <2>1, <2>3, <2>10, <2>11
  <1>3. QED
    BY <1>1, <1>2

LEMMA MonthsAscend ==
  ASSUME NEW m \in Int, NEW n \in Int, 0 <= m, m < n, n <= 365
  PROVE  \/ MonthParameter(m) < MonthParameter(n)
         \/ /\ MonthParameter(m) = MonthParameter(n)
            /\ DayOfMonth(m) < DayOfMonth(n)
  BY SMTT(60) DEF MonthParameter, DayOfMonth

LEMMA YearsAscend ==
  ASSUME NEW m \in Int, NEW n \in Int, 0 <= m, m < n, n <= 146096
  PROVE  \/ YearOfEra(m) < YearOfEra(n)
         \/ /\ YearOfEra(m) = YearOfEra(n)
            /\ DayOfYear(m) < DayOfYear(n)
  <1>1. YearOfEra(m) <= YearOfEra(n)
    BY SMTT(60) DEF YearOfEra
  <1>2. YearOfEra(m) = YearOfEra(n) => DayOfYear(m) < DayOfYear(n)
    <2>1. DaysBefore(YearOfEra(m)) \in Int
      BY YearBounds DEF DaysBefore
    <2>2. QED
      BY <2>1, DayOfYearBounds DEF DayOfYear
  <1>3. QED
    BY <1>1, <1>2, YearBounds

\* A later day has a later date.
LEMMA DatesAscend ==
  ASSUME NEW m \in Nat, NEW n \in Nat, m < n
  PROVE  DateBefore(UnixDate(m), UnixDate(n))
  <1> DEFINE ym == YearOfEra(DayOfEra(m))
             dm == DayOfYear(DayOfEra(m))
             pm == MonthParameter(dm)
             yn == YearOfEra(DayOfEra(n))
             dn == DayOfYear(DayOfEra(n))
             pn == MonthParameter(dn)
  <1>1. /\ ym \in Int /\ 0 <= ym /\ ym <= 399
        /\ dm \in Int /\ 0 <= dm /\ dm <= 365
        /\ UnixDate(m) =
             [year  |-> ym + 400 * Era(m) + (IF pm >= 10 THEN 1 ELSE 0),
              month |-> IF pm >= 10 THEN pm - 9 ELSE pm + 3,
              day   |-> DayOfMonth(dm)]
    BY DateParts
  <1>2. /\ yn \in Int /\ 0 <= yn /\ yn <= 399
        /\ dn \in Int /\ 0 <= dn /\ dn <= 365
        /\ UnixDate(n) =
             [year  |-> yn + 400 * Era(n) + (IF pn >= 10 THEN 1 ELSE 0),
              month |-> IF pn >= 10 THEN pn - 9 ELSE pn + 3,
              day   |-> DayOfMonth(dn)]
    BY DateParts
  <1>3. /\ Era(m) \in Int /\ Era(n) \in Int
        /\ \/ Era(m) < Era(n)
           \/ Era(m) = Era(n) /\ ym < yn
           \/ Era(m) = Era(n) /\ ym = yn /\ dm < dn
    <2>1. /\ Era(m) \in Int /\ DayOfEra(m) \in Int
          /\ 0 <= DayOfEra(m) /\ DayOfEra(m) <= 146096
          /\ m + 719468 = 146097 * Era(m) + DayOfEra(m)
      BY EraBounds
    <2>2. /\ Era(n) \in Int /\ DayOfEra(n) \in Int
          /\ 0 <= DayOfEra(n) /\ DayOfEra(n) <= 146096
          /\ n + 719468 = 146097 * Era(n) + DayOfEra(n)
      BY EraBounds
    <2>3. \/ Era(m) < Era(n)
          \/ Era(m) = Era(n) /\ DayOfEra(m) < DayOfEra(n)
      BY <2>1, <2>2, SMTT(60)
    <2>4. QED
      BY <2>1, <2>2, <2>3, YearsAscend
  <1>4. /\ pm \in Int /\ 0 <= pm /\ pm <= 11 /\ DayOfMonth(dm) \in Int
        /\ pn \in Int /\ 0 <= pn /\ pn <= 11 /\ DayOfMonth(dn) \in Int
    BY <1>1, <1>2, MonthBounds
  <1>5. dm < dn => pm < pn \/ (pm = pn /\ DayOfMonth(dm) < DayOfMonth(dn))
    BY <1>1, <1>2, MonthsAscend
  <1> HIDE DEF ym, dm, pm, yn, dn, pn
  <1> DEFINE Jan(p) == IF p >= 10 THEN 1 ELSE 0
             Cal(p) == IF p >= 10 THEN p - 9 ELSE p + 3
  <1>6. ym + 400 * Era(m) < yn + 400 * Era(n) \/
          (ym + 400 * Era(m) = yn + 400 * Era(n) /\ dm < dn)
    BY <1>1, <1>2, <1>3
  <1>7. PICK y1 \in Int, y2 \in Int :
          y1 = ym + 400 * Era(m) /\ y2 = yn + 400 * Era(n)
    BY <1>1, <1>2, <1>3
  <1>8. \/ y1 + Jan(pm) < y2 + Jan(pn)
        \/ y1 + Jan(pm) = y2 + Jan(pn) /\ Cal(pm) < Cal(pn)
        \/ /\ y1 + Jan(pm) = y2 + Jan(pn) /\ Cal(pm) = Cal(pn)
           /\ DayOfMonth(dm) < DayOfMonth(dn)
    <2>1. y1 < y2 \/ (y1 = y2 /\ pm < pn)
            \/ (y1 = y2 /\ pm = pn /\ DayOfMonth(dm) < DayOfMonth(dn))
      BY <1>5, <1>6, <1>7
    <2>2. QED
      BY <1>4, <1>7, <2>1
  <1>9. QED
    BY <1>1, <1>2, <1>7, <1>8 DEF DateBefore

LEMMA DateIsWhole ==
  ASSUME NEW days \in Nat
  PROVE  \E year \in Int, month \in Int, day \in Int :
           /\ 0 <= year
           /\ UnixDate(days) = [year |-> year, month |-> month, day |-> day]
  <1> DEFINE y == YearOfEra(DayOfEra(days))
             p == MonthParameter(DayOfYear(DayOfEra(days)))
             year == y + 400 * Era(days) + (IF p >= 10 THEN 1 ELSE 0)
             month == IF p >= 10 THEN p - 9 ELSE p + 3
             day == DayOfMonth(DayOfYear(DayOfEra(days)))
  <1>1. /\ Era(days) \in Int /\ 0 <= Era(days)
        /\ DayOfEra(days) \in Int /\ 0 <= DayOfEra(days)
        /\ DayOfEra(days) <= 146096
    BY EraBounds
  <1>2. y \in Int /\ 0 <= y
    BY <1>1, YearBounds
  <1>3. p \in Int /\ day \in Int
    <2>1. /\ DayOfYear(DayOfEra(days)) \in Int
          /\ 0 <= DayOfYear(DayOfEra(days)) /\ DayOfYear(DayOfEra(days)) <= 365
      BY <1>1, DayOfYearBounds
    <2>2. QED
      BY <2>1, MonthBounds
  <1>4. UnixDate(days) = [year |-> year, month |-> month, day |-> day]
    BY DateParts
  <1> HIDE DEF y, p, day
  <1>5. year \in Int /\ 0 <= year /\ month \in Int
    BY <1>1, <1>2, <1>3
  <1> HIDE DEF year, month
  <1>6. QED
    BY <1>3, <1>4, <1>5

\* A year that fits survives the cast.
LEMMA DateKept ==
  ASSUME NEW days \in Nat, UnixDate(days).year < YearRange
  PROVE  FromUnixDays(days) = UnixDate(days)
  <1>1. PICK year \in Int, month \in Int, day \in Int :
          /\ 0 <= year
          /\ UnixDate(days) = [year |-> year, month |-> month, day |-> day]
    BY DateIsWhole
  <1>2. year % YearRange = year
    BY <1>1, SMT DEF YearRange
  <1>3. QED
    BY <1>1, <1>2 DEF FromUnixDays

\* A date kept is made of integers.
LEMMA KeptIsWhole ==
  ASSUME NEW days \in Nat
  PROVE  /\ FromUnixDays(days).year \in Int
         /\ FromUnixDays(days).month \in Int
         /\ FromUnixDays(days).day \in Int
  <1>1. PICK year \in Int, month \in Int, day \in Int :
          UnixDate(days) = [year |-> year, month |-> month, day |-> day]
    BY DateIsWhole
  <1>2. year % YearRange \in Int
    BY SMT DEF YearRange
  <1>3. FromUnixDays(days) =
          [year |-> year % YearRange, month |-> month, day |-> day]
    BY <1>1 DEF FromUnixDays
  <1>4. QED
    BY <1>2, <1>3

LEMMA TimesAscend ==
  ASSUME NEW a \in Int, NEW b \in Int, 0 <= a, a < b, b < 86400
  PROVE  TimeBefore(TimeOfDay(a), TimeOfDay(b))
  <1>1. \/ a \div 3600 < b \div 3600
        \/ /\ a \div 3600 = b \div 3600
           /\ \/ (a % 3600) \div 60 < (b % 3600) \div 60
              \/ /\ (a % 3600) \div 60 = (b % 3600) \div 60
                 /\ a % 60 < b % 60
    BY SMTT(60)
  <1>2. QED
    BY <1>1 DEF TimeBefore, TimeOfDay

\* Records sort by their date and time as by the second they were stamped
\* in (ClockReading::from_unix_seconds, StoredRecord::recorded_time), as long
\* as years fit the sixteen bits the date keeps of them.
THEOREM RecordedTimesAscend ==
  ASSUME NEW a \in Nat, NEW b \in Nat, a < b, YearFits(a), YearFits(b)
  PROVE  Earlier(FromUnixSeconds(a), FromUnixSeconds(b))
  <1> DEFINE m == a \div SecondsPerDay
             n == b \div SecondsPerDay
             s == a % SecondsPerDay
             t == b % SecondsPerDay
  <1>1. /\ m \in Nat /\ n \in Nat
        /\ s \in Int /\ 0 <= s /\ s < 86400
        /\ t \in Int /\ 0 <= t /\ t < 86400
        /\ m < n \/ (m = n /\ s < t)
    BY SMTT(60) DEF SecondsPerDay
  <1>2. FromUnixDays(m) = UnixDate(m) /\ FromUnixDays(n) = UnixDate(n)
    BY <1>1, DateKept DEF YearFits
  <1> HIDE DEF m, n, s, t
  <1>3. CASE m < n
    BY <1>1, <1>2, <1>3, DatesAscend DEF Earlier, FromUnixSeconds, m, n
  <1>4. CASE m = n /\ s < t
    BY <1>1, <1>2, <1>4, TimesAscend DEF Earlier, FromUnixSeconds, m, n, s, t
  <1>5. QED
    BY <1>1, <1>3, <1>4

\* Earlier is a strict order on readings.
LEMMA NotBothEarlier ==
  ASSUME NEW a \in Nat, NEW b \in Nat,
         Earlier(FromUnixSeconds(b), FromUnixSeconds(a))
  PROVE  ~Earlier(FromUnixSeconds(a), FromUnixSeconds(b))
  <1>1. \A s \in Nat : LET r == FromUnixSeconds(s)
                       IN  /\ r.date.year \in Int /\ r.date.month \in Int
                           /\ r.date.day \in Int /\ r.time.hour \in Int
                           /\ r.time.minute \in Int /\ r.time.second \in Int
    <2> SUFFICES ASSUME NEW s \in Nat
                 PROVE  LET r == FromUnixSeconds(s)
                        IN  /\ r.date.year \in Int /\ r.date.month \in Int
                            /\ r.date.day \in Int /\ r.time.hour \in Int
                            /\ r.time.minute \in Int /\ r.time.second \in Int
      OBVIOUS
    <2>1. s \div SecondsPerDay \in Nat /\ s % SecondsPerDay \in Nat
      BY SMT DEF SecondsPerDay
    <2>2. QED
      BY <2>1, KeptIsWhole, SMT DEF FromUnixSeconds, TimeOfDay
  <1>2. QED
    BY <1>1 DEF Earlier, DateBefore, TimeBefore
===============================================================================
