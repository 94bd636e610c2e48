----------------------------- MODULE KeyGateProofs -----------------------------
(***************************************************************************)
(* The date arithmetic of key.rs is the Gregorian calendar for every day   *)
(* the calendar reaches, and a key of any year is good until its expiry.   *)
(* The source counts years from March, so the leap day ends one, and puts  *)
(* them together to eras of 400; what is to be shown is that the year      *)
(* after yoe of an era is a leap year exactly when the count says so.      *)
(***************************************************************************)
EXTENDS KeyGate, TLAPS

Date(y, m, d) == y \in Nat \ {0} /\ m \in 1..12 /\ d \in 1..DaysIn(y, m)

CalendarInv ==
  /\ Date(year, month, day) /\ year >= 1970 /\ epoch \in Int
  /\ CalendarAgrees

\* The days before the March year y, and the day of that year on which month m
\* begins.
Before(y) ==
  LET era == y \div 400
      yoe == y - era * 400
  IN  era * 146097 + yoe * 365 + yoe \div 4 - yoe \div 100

MonthBegins(m) == (153 * ((m + 9) % 12) + 2) \div 5

-------------------------------------------------------------------------------
(* The arithmetic. *)

\* A March year is an era of 400 years and the rest.
LEMMA Parts ==
  ASSUME NEW y \in Nat
  PROVE  /\ y \div 400 \in Nat
         /\ y - (y \div 400) * 400 \in 0..399
         /\ Before(y) \in Int
BY DEF Before

\* days_from_civil is the days before the March year, before the month, and of the month.
LEMMA CivilParts ==
  ASSUME NEW y \in Nat \ {0}, NEW m \in 1..12, NEW d \in Int
  PROVE  days_from_civil(y, m, d)
           = Before(IF m <= 2 THEN y - 1 ELSE y) + MonthBegins(m) + d - 1 - 719468
BY DEF days_from_civil, Before, MonthBegins

\* The day of the March year on which each month begins.
LEMMA MonthTable ==
  /\ MonthBegins(3) = 0 /\ MonthBegins(4) = 31 /\ MonthBegins(5) = 61
  /\ MonthBegins(6) = 92 /\ MonthBegins(7) = 122 /\ MonthBegins(8) = 153
  /\ MonthBegins(9) = 184 /\ MonthBegins(10) = 214 /\ MonthBegins(11) = 245
  /\ MonthBegins(12) = 275 /\ MonthBegins(1) = 306 /\ MonthBegins(2) = 337
BY DEF MonthBegins

\* The days on which March and January begin.
LEMMA MarchAndJanuary ==
  ASSUME NEW y \in Nat \ {0}
  PROVE  /\ Before(y) \in Int /\ Before(y - 1) \in Int
         /\ days_from_civil(y, 3, 1) = Before(y) - 719468
         /\ days_from_civil(y, 1, 1) = Before(y - 1) + 306 - 719468
         /\ days_from_civil(y + 1, 1, 1) = Before(y) + 306 - 719468
<1>1. Before(y) \in Int /\ Before(y - 1) \in Int
  BY Parts
<1>2. days_from_civil(y, 3, 1) = Before(y) + MonthBegins(3) + 1 - 1 - 719468
  BY CivilParts
<1>3. days_from_civil(y, 1, 1) = Before(y - 1) + MonthBegins(1) + 1 - 1 - 719468
  BY CivilParts
<1>4. y + 1 \in Nat \ {0} /\ (y + 1) - 1 = y
  OBVIOUS
<1>5. days_from_civil(y + 1, 1, 1) = Before((y + 1) - 1) + MonthBegins(1) + 1 - 1 - 719468
  BY <1>4, CivilParts
<1>6. days_from_civil(y + 1, 1, 1) = Before(y) + MonthBegins(1) + 1 - 1 - 719468
  BY <1>4, <1>5
<1> QED
  BY <1>1, <1>2, <1>3, <1>6, MonthTable

\* A March year has 366 days when the civil year in which it ends is a leap year.
LEMMA YearLength ==
  ASSUME NEW y \in Nat
  PROVE  Before(y + 1) = Before(y) + (IF Leap(y + 1) THEN 366 ELSE 365)
<1> DEFINE era == y \div 400
           yoe == y - era * 400
<1>1. era \in Nat /\ yoe \in 0..399 /\ y = era * 400 + yoe
  BY Parts
<1>2. CASE yoe < 399
  <2>1. (y + 1) \div 400 = era
    BY <1>1, <1>2
  <2>2. Leap(y + 1) <=> (yoe + 1) % 4 = 0 /\ ((yoe + 1) % 100 # 0 \/ (yoe + 1) % 400 = 0)
    BY <1>1 DEF Leap
  <2>3. (yoe + 1) % 400 # 0
    BY <1>1, <1>2
  <2>4. (yoe + 1) \div 4 = yoe \div 4 + (IF (yoe + 1) % 4 = 0 THEN 1 ELSE 0)
    BY <1>1
  <2>5. (yoe + 1) \div 100 = yoe \div 100 + (IF (yoe + 1) % 100 = 0 THEN 1 ELSE 0)
    BY <1>1
  <2>6. (yoe + 1) % 100 = 0 => (yoe + 1) % 4 = 0
    BY <1>1
  <2> QED
    BY <1>1, <2>1, <2>2, <2>3, <2>4, <2>5, <2>6 DEF Before
<1>3. CASE yoe = 399
  <2>1. (y + 1) \div 400 = era + 1
    BY <1>1, <1>3
  <2>2. Leap(y + 1)
    BY <1>1, <1>3 DEF Leap
  <2> QED
    BY <1>1, <1>3, <2>1, <2>2 DEF Before
<1> QED
  BY <1>1, <1>2, <1>3

\* A later March year begins at least 362 days later, enough to order the first days of two years.
LEMMA YearsGrow ==
  ASSUME NEW y \in Nat, NEW z \in Nat, y < z
  PROVE  Before(y) + 362 <= Before(z)
<1> DEFINE e == y \div 400
           f == z \div 400
           a == y - e * 400
           b == z - f * 400
<1>1. /\ e \in Nat /\ a \in 0..399 /\ y = e * 400 + a
      /\ f \in Nat /\ b \in 0..399 /\ z = f * 400 + b
  BY Parts
<1>2. /\ Before(y) = e * 146097 + a * 365 + a \div 4 - a \div 100
      /\ Before(z) = f * 146097 + b * 365 + b \div 4 - b \div 100
  BY DEF Before
<1>3. /\ a \div 4 \in 0..99 /\ a \div 100 \in 0..3
      /\ b \div 4 \in 0..99 /\ b \div 100 \in 0..3
  BY <1>1
<1>4. e < f \/ (e = f /\ a < b)
  BY <1>1
<1>5. a < b => a \div 4 <= b \div 4
  BY <1>1
<1> HIDE DEF e, f, a, b
<1> QED
  BY <1>1, <1>2, <1>3, <1>4, <1>5

-------------------------------------------------------------------------------
(* The calendar. *)

\* The number goes up by one with the day: within a month, at the end of a month, of a year.
LEMMA Tomorrows ==
  ASSUME CalendarInv, Tomorrow
  PROVE  CalendarInv'
<1>1. year \in Nat \ {0} /\ month \in 1..12 /\ day \in 1..DaysIn(year, month)
  BY DEF CalendarInv, Date
<1>2. epoch = days_from_civil(year, month, day) /\ epoch' = epoch + 1
  BY DEF CalendarInv, CalendarAgrees, Tomorrow
<1>3. DaysIn(year, month) \in 28..31 /\ day \in Nat
  BY <1>1 DEF DaysIn
<1>4. CASE day < DaysIn(year, month)
  <2>1. year' = year /\ month' = month /\ day' = day + 1
    BY <1>4 DEF Tomorrow
  <2>2. Date(year', month', day')
    BY <1>1, <1>3, <1>4, <2>1 DEF Date
  <2>3. days_from_civil(year', month', day') = days_from_civil(year, month, day) + 1
    <3>1. year \in Nat \ {0} /\ month \in 1..12 /\ day \in Int /\ day + 1 \in Int
      BY <1>1, <1>3
    <3> DEFINE y == IF month <= 2 THEN year - 1 ELSE year
    <3>2. y \in Nat /\ Before(y) \in Int /\ MonthBegins(month) \in Int
      BY <3>1, Parts DEF MonthBegins
    <3>3. days_from_civil(year, month, day) = Before(y) + MonthBegins(month) + day - 1 - 719468
      BY <3>1, CivilParts
    <3>4. days_from_civil(year, month, day + 1)
            = Before(y) + MonthBegins(month) + (day + 1) - 1 - 719468
      BY <3>1, CivilParts
    <3> HIDE DEF y
    <3> QED
      BY <2>1, <3>1, <3>2, <3>3, <3>4
  <2> QED
    BY <1>2, <2>1, <2>2, <2>3 DEF CalendarInv, CalendarAgrees
<1>5. CASE day = DaysIn(year, month)
  <2>1. /\ day' = 1 /\ month' = (month % 12) + 1
        /\ year' = IF month = 12 THEN year + 1 ELSE year
    BY <1>3, <1>5 DEF Tomorrow
  <2>2. Date(year', month', day') /\ year' >= year
    BY <1>1, <2>1 DEF Date, DaysIn
  <2>3. days_from_civil(year', month', day') = days_from_civil(year, month, day) + 1
    <3>1. CASE month = 2
      <4>1. Before(year) = Before(year - 1) + (IF Leap(year) THEN 366 ELSE 365)
        BY <1>1, YearLength
      <4>2. days_from_civil(year', month', day') = Before(year) - 719468
        BY <1>1, <2>1, <3>1, MarchAndJanuary
      <4>3. days_from_civil(year, month, day)
              = Before(year - 1) + 337 + (IF Leap(year) THEN 29 ELSE 28) - 1 - 719468
        BY <1>1, <1>3, <1>5, <3>1, CivilParts, MonthTable DEF DaysIn
      <4>4. Before(year - 1) \in Int
        BY <1>1, Parts
      <4> QED
        BY <4>1, <4>2, <4>3, <4>4
    <3>2. CASE month = 12
      <4>1. days_from_civil(year', month', day') = Before(year) + 306 - 719468
        BY <1>1, <2>1, <3>2, MarchAndJanuary
      <4>2. days_from_civil(year, month, day) = Before(year) + 275 + 31 - 1 - 719468
        BY <1>1, <1>3, <1>5, <3>2, CivilParts, MonthTable DEF DaysIn
      <4> QED
        BY <1>1, <4>1, <4>2, Parts
    <3>3. CASE month \notin {2, 12}
      <4>1. month' = month + 1 /\ year' = year /\ day' = 1
        BY <1>1, <2>1, <3>3
      <4>2. MonthBegins(month + 1) = MonthBegins(month) + DaysIn(year, month)
        BY <1>1, <3>3, MonthTable DEF DaysIn
      <4>3. MonthBegins(month) \in Int
        BY <1>1, MonthTable
      <4>4. (month + 1 <= 2) <=> (month <= 2)
        BY <1>1, <3>3
      <4> DEFINE y == IF month <= 2 THEN year - 1 ELSE year
      <4>5. y \in Nat /\ Before(y) \in Int
        BY <1>1, Parts
      <4>6. days_from_civil(year, month + 1, 1)
              = Before(y) + MonthBegins(month + 1) + 1 - 1 - 719468
        <5>1. month + 1 \in 1..12
          BY <1>1, <3>3
        <5>2. y = IF month + 1 <= 2 THEN year - 1 ELSE year
          BY <1>1, <4>4
        <5> QED
          BY <1>1, <5>1, <5>2, CivilParts
      <4>7. days_from_civil(year, month, day)
              = Before(y) + MonthBegins(month) + DaysIn(year, month) - 1 - 719468
        BY <1>1, <1>3, <1>5, CivilParts
      <4> HIDE DEF y
      <4> QED
        BY <1>3, <4>1, <4>2, <4>3, <4>5, <4>6, <4>7
    <3> QED
      BY <3>1, <3>2, <3>3
  <2> QED
    BY <1>1, <1>2, <2>2, <2>3 DEF CalendarInv, CalendarAgrees, Date
<1> QED
  BY <1>1, <1>3, <1>4, <1>5

LEMMA InitCalendar == Init => CalendarInv
<1>1. Date(1970, 1, 1)
  BY DEF Date, DaysIn
<1>2. days_from_civil(1970, 1, 1) = 0
  BY DEF days_from_civil
<1> QED
  BY <1>1, <1>2 DEF Init, CalendarInv, CalendarAgrees

\* The 1st of January lies before every other day of its year, and every day of a
\* year before the next 1st of January.
LEMMA WithinYear ==
  ASSUME NEW y \in Nat \ {0}, NEW m \in 1..12, NEW d \in 1..DaysIn(y, m)
  PROVE  /\ days_from_civil(y, m, d) \in Int /\ days_from_civil(y, 1, 1) \in Int
         /\ days_from_civil(y, 1, 1) <= days_from_civil(y, m, d)
         /\ days_from_civil(y, 1, 1) = days_from_civil(y, m, d) => m = 1 /\ d = 1
         /\ days_from_civil(y, m, d) < days_from_civil(y + 1, 1, 1)
<1>1. Before(y) = Before(y - 1) + (IF Leap(y) THEN 366 ELSE 365)
  BY YearLength
<1>2. Before(y) \in Int /\ Before(y - 1) \in Int
  BY Parts
<1>3. days_from_civil(y, 1, 1) = Before(y - 1) + 306 - 719468
  BY MarchAndJanuary
<1>4. days_from_civil(y + 1, 1, 1) = Before(y) + 306 - 719468
  BY MarchAndJanuary
<1>5. d \in 1..31 /\ (m = 2 => d \in 1..(IF Leap(y) THEN 29 ELSE 28))
                  /\ (m \in {4, 6, 9, 11} => d \in 1..30)
  BY DEF DaysIn
<1>6. days_from_civil(y, m, d)
        = Before(IF m <= 2 THEN y - 1 ELSE y) + MonthBegins(m) + d - 1 - 719468
  BY <1>5, CivilParts
<1> QED
  BY <1>1, <1>2, <1>3, <1>4, <1>5, <1>6, MonthTable

\* The 1sts of January are in the order of their years.
LEMMA YearsInOrder ==
  ASSUME NEW y \in Nat \ {0}, NEW z \in Nat \ {0}, y < z
  PROVE  /\ days_from_civil(y, 1, 1) \in Int /\ days_from_civil(z, 1, 1) \in Int
         /\ days_from_civil(y, 1, 1) < days_from_civil(z, 1, 1)
<1>1. y - 1 \in Nat /\ z - 1 \in Nat /\ y - 1 < z - 1
  OBVIOUS
<1>3. Before(y - 1) + 362 <= Before(z - 1)
  BY <1>1, YearsGrow
<1>2. /\ days_from_civil(y, 1, 1) = Before(y - 1) + 306 - 719468
      /\ days_from_civil(z, 1, 1) = Before(z - 1) + 306 - 719468
  BY MarchAndJanuary
<1>4. Before(y - 1) \in Int /\ Before(z - 1) \in Int
  BY MarchAndJanuary
<1> QED
  BY <1>2, <1>3, <1>4

\* An earlier date has an earlier number, so the key expires on its day.
LEMMA GoodByDate == CalendarInv => GoodUntilExpiry
<1> SUFFICES ASSUME CalendarInv, NEW k \in Keys
             PROVE  key_is_good(k) <=>
                      year < ExpiryYear[k]
                      \/ (year = ExpiryYear[k] /\ month = 1 /\ day = 1)
  BY DEF GoodUntilExpiry
<1> DEFINE end == ExpiryYear[k]
<1>1. end \in Nat \ {0} /\ end >= 1971
  BY KeyAssumption
<1>2. year \in Nat \ {0} /\ month \in 1..12 /\ day \in 1..DaysIn(year, month)
  BY DEF CalendarInv, Date
<1>3. epoch = days_from_civil(year, month, day)
  BY DEF CalendarInv, CalendarAgrees
<1>4. key_is_good(k) <=> days_from_civil(year, month, day) <= days_from_civil(end, 1, 1)
  BY <1>3 DEF key_is_good, expiry
<1> HIDE DEF end
<1>5. CASE year < end
  <2>1. days_from_civil(year, month, day) < days_from_civil(year + 1, 1, 1)
    BY <1>2, WithinYear
  <2>2. year + 1 = end \/ days_from_civil(year + 1, 1, 1) < days_from_civil(end, 1, 1)
    BY <1>1, <1>2, <1>5, YearsInOrder
  <2>3. /\ days_from_civil(year, month, day) \in Int /\ days_from_civil(end, 1, 1) \in Int
        /\ days_from_civil(year + 1, 1, 1) \in Int
    BY <1>1, <1>2, <1>5, WithinYear, YearsInOrder
  <2> QED
    BY <1>1, <1>2, <1>4, <1>5, <2>1, <2>2, <2>3 DEF end
<1>6. CASE year = end
  <2>1. /\ days_from_civil(year, month, day) \in Int /\ days_from_civil(year, 1, 1) \in Int
        /\ days_from_civil(year, 1, 1) <= days_from_civil(year, month, day)
        /\ days_from_civil(year, 1, 1) = days_from_civil(year, month, day)
             => month = 1 /\ day = 1
    BY <1>2, WithinYear
  <2> QED
    BY <1>2, <1>4, <1>6, <2>1 DEF end
<1>7. CASE year > end
  <2>1. days_from_civil(end, 1, 1) < days_from_civil(year, 1, 1)
    BY <1>1, <1>2, <1>7, YearsInOrder
  <2>2. days_from_civil(year, 1, 1) <= days_from_civil(year, month, day)
    BY <1>2, WithinYear
  <2>3. /\ days_from_civil(year, month, day) \in Int /\ days_from_civil(end, 1, 1) \in Int
        /\ days_from_civil(year, 1, 1) \in Int
    BY <1>1, <1>2, <1>7, WithinYear, YearsInOrder
  <2> QED
    BY <1>1, <1>2, <1>4, <1>7, <2>1, <2>2, <2>3 DEF end
<1> QED
  BY <1>1, <1>2, <1>5, <1>6, <1>7

-------------------------------------------------------------------------------
(* Theorems. *)

THEOREM CalendarInvariance == Spec => []CalendarInv
<1>1. CalendarInv /\ [Tomorrow]_vars => CalendarInv'
  <2>1. ASSUME CalendarInv, UNCHANGED vars PROVE CalendarInv'
    BY <2>1 DEF vars, CalendarInv, CalendarAgrees, Date
  <2> QED
    BY <2>1, Tomorrows
<1> QED
  BY <1>1, InitCalendar, PTL DEF Spec

\* On every day, however far the calendar goes, days_from_civil() is the number of
\* days since the epoch.
THEOREM ArithmeticIsCalendar == Spec => []CalendarAgrees
BY CalendarInvariance, PTL DEF CalendarInv

\* A key of any year of expiry is good until its 1st of January, and no longer.
THEOREM KeysExpireOnTime == Spec => []GoodUntilExpiry
BY CalendarInvariance, GoodByDate, PTL

================================================================================
