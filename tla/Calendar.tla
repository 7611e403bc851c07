------------------------------ MODULE Calendar ------------------------------
(***************************************************************************)
(* The calendar of crates/store: parse_rfc3339_utc reads a timestamp of    *)
(* the form YYYY-MM-DDThh:mm:ssZ and days_from_civil counts its days, with *)
(* no date library.  The manifest's lifetime and expiry rest on them.      *)
(*                                                                         *)
(* The reference is a calendar that is turned one month at a time from the *)
(* first year that four digits can write.                                  *)
(***************************************************************************)
EXTENDS Integers

CONSTANT
  LastYear       \* bound: the last year that the reference is turned to

ASSUME CalendarAssumption == LastYear \in Nat

(* Rust's `/' truncates, where \div rounds down. *)
Quotient(a, b) == IF a >= 0 THEN a \div b ELSE -((-a) \div b)

(* The 400-year era of a year that counts from March, rounded down.        *)
(* Mutant: the correction for years before zero is missing.                *)
EraTruncated(y) == Quotient(y, 400)

Era(y) == Quotient(IF y >= 0 THEN y ELSE y - 399, 400)

DayOfEra(yoe, doy) == yoe * 365 + Quotient(yoe, 4) - Quotient(yoe, 100) + doy

DaysFromCivil(year, month, day) ==
  LET y   == year - (IF month <= 2 THEN 1 ELSE 0)
      yoe == y - Era(y) * 400
      mp  == month + (IF month > 2 THEN -3 ELSE 9)
      doy == Quotient(153 * mp + 2, 5) + day - 1
  IN  Era(y) * 146097 + DayOfEra(yoe, doy) - 719468

(* The days that parse_rfc3339_utc accepts in every month. *)
AcceptedDays == 1..31

-----------------------------------------------------------------------------
VARIABLES
  year, month,   \* the month that the reference calendar shows
  elapsed        \* the days it has counted before the first of that month

vars == <<year, month, elapsed>>

Epoch == 719528  \* the days from 0000-01-01 to 1970-01-01

LeapYear(y) == (y % 4 = 0 /\ y % 100 # 0) \/ y % 400 = 0

MonthLength(y, m) ==
  CASE m = 2              -> IF LeapYear(y) THEN 29 ELSE 28
    [] m \in {4, 6, 9, 11} -> 30
    [] OTHER              -> 31

Init == year = 0 /\ month = 1 /\ elapsed = 0

NextMonth ==
  /\ month < 12
  /\ month' = month + 1
  /\ elapsed' = elapsed + MonthLength(year, month)
  /\ UNCHANGED year

NextYear ==
  /\ month = 12
  /\ year < LastYear
  /\ year' = year + 1
  /\ month' = 1
  /\ elapsed' = elapsed + MonthLength(year, month)

Next == NextMonth \/ NextYear

Spec == Init /\ [][Next]_vars

-----------------------------------------------------------------------------
(* Every date that the parser accepts is counted as the calendar counts:   *)
(* leap years, centuries and eras included, in the year zero as well, and  *)
(* a day that its month does not have (02-31 is accepted) as so many days  *)
(* into the next month.                                                    *)
DaysCounted ==
  \A d \in AcceptedDays :
    DaysFromCivil(year, month, d) = elapsed + (d - 1) - Epoch
=============================================================================
