--------------------------------- MODULE KeyGate ---------------------------------
(***************************************************************************)
(* The licence gate of key.rs: the date arithmetic it does without a date  *)
(* library, and which keys it accepts as the days go by.  The calendar the *)
(* arithmetic is compared with goes from one day to the next by the rules  *)
(* of the Gregorian calendar.                                              *)
(***************************************************************************)
EXTENDS Integers

CONSTANTS LastYear,   \* bound: the calendar stops there
          Keys,       \* KEYS, as the index of its expiry in DATES
          ExpiryYear  \* DATES: each key expires when this year begins

ASSUME KeyAssumption ==
  /\ LastYear \in 1970..9999
  /\ ExpiryYear \in [Keys -> 1971..LastYear]

VARIABLES year, month, day,   \* the civil date
          epoch               \* days since 1970-01-01

vars == <<year, month, day, epoch>>

Leap(y) == y % 4 = 0 /\ (y % 100 # 0 \/ y % 400 = 0)
DaysIn(y, m) == CASE m = 2 -> (IF Leap(y) THEN 29 ELSE 28)
                  [] m \in {4, 6, 9, 11} -> 30
                  [] OTHER -> 31

\* Mutant of days_from_civil: February is counted with the new year.
FebruaryInNewYear(y0, m, d) ==
  LET y == IF m < 2 THEN y0 - 1 ELSE y0
      era == (IF y >= 0 THEN y ELSE y - 399) \div 400
      yoe == y - era * 400
      doy == (153 * ((m + 9) % 12) + 2) \div 5 + d - 1
  IN  era * 146097 + yoe * 365 + yoe \div 4 - yoe \div 100 + doy - 719468

\* Years begin in March here, so that the leap day comes last.  The divisions of
\* the source see no negative number but in the era of a year before 0.
days_from_civil(y0, m, d) ==
  LET y == IF m <= 2 THEN y0 - 1 ELSE y0
      era == (IF y >= 0 THEN y ELSE y - 399) \div 400
      yoe == y - era * 400
      doy == (153 * ((m + 9) % 12) + 2) \div 5 + d - 1
  IN  era * 146097 + yoe * 365 + yoe \div 4 - yoe \div 100 + doy - 719468

\* Every entry of DATES is a 1st of January, 00:00:00, so whole days do for
\* string_to_time().
expiry(k) == days_from_civil(ExpiryYear[k], 1, 1)

\* Mutant of key_is_good: the comparison leaves out the moment of expiry.
KeyIsGoodBefore(k) == epoch < expiry(k)

\* At the first second of the day.
key_is_good(k) == epoch <= expiry(k)

Init == year = 1970 /\ month = 1 /\ day = 1 /\ epoch = 0

Tomorrow ==
  /\ year <= LastYear
  /\ epoch' = epoch + 1
  /\ IF day < DaysIn(year, month)
       THEN day' = day + 1 /\ UNCHANGED <<month, year>>
       ELSE /\ day' = 1
            /\ month' = (month % 12) + 1
            /\ year' = IF month = 12 THEN year + 1 ELSE year

Spec == Init /\ [][Tomorrow]_vars
----------------------------------------------------------------------------------
(* Properties *)

\* The arithmetic is the calendar: on every day, over leap years, centuries and
\* the 400-year era, days_from_civil() counts the days since the epoch.
CalendarAgrees == days_from_civil(year, month, day) = epoch

\* A key is good up to the moment DATES gives, on the 1st of January of its year,
\* and no longer: the gate, which counts seconds, agrees with the civil date.
GoodUntilExpiry ==
  \A k \in Keys : key_is_good(k) <=>
    year < ExpiryYear[k] \/ (year = ExpiryYear[k] /\ month = 1 /\ day = 1)
==================================================================================
