--------------------------- MODULE CalendarProofs ---------------------------
(***************************************************************************)
(* days_from_civil agrees with the calendar in every month of every year   *)
(* from the year zero on, however far the calendar is turned.              *)
(***************************************************************************)
EXTENDS Calendar, TLAPS

(* The days before the first of March of year y ... *)
YearStart(y) == Era(y) * 146097 + DayOfEra(y - Era(y) * 400, 0) - 719468

(* ... and from there to the first of the month mp months later. *)
MonthStart(mp) == Quotient(153 * mp + 2, 5)

LEMMA MonthStarts ==
  /\ MonthStart(0) = 0    /\ MonthStart(1) = 31   /\ MonthStart(2) = 61
  /\ MonthStart(3) = 92   /\ MonthStart(4) = 122  /\ MonthStart(5) = 153
  /\ MonthStart(6) = 184  /\ MonthStart(7) = 214  /\ MonthStart(8) = 245
  /\ MonthStart(9) = 275  /\ MonthStart(10) = 306 /\ MonthStart(11) = 337
  BY DEF MonthStart, Quotient

(* Every year is one of the 400 of an era. *)
YearOfEra(y, e, q) == y = 400 * e + q

LEMMA EraOfYear ==
  ASSUME NEW y \in Nat
  PROVE  \E e \in Nat, q \in 0..399 : YearOfEra(y, e, q)
  <1>1. y \div 400 \in Nat /\ y - 400 * (y \div 400) \in 0..399
    OBVIOUS
  <1> QED
    BY <1>1 DEF YearOfEra

(* In an era, leap days are counted at every fourth year, and not at every *)
(* hundredth.                                                              *)
DaysInEra(e, q) ==
  146097 * e + 365 * q + (q \div 4) - (q \div 100) - 719468

LEMMA YearStartInEra ==
  ASSUME NEW y \in Nat, NEW e \in Nat, NEW q \in 0..399, YearOfEra(y, e, q)
  PROVE  YearStart(y) = DaysInEra(e, q)
  <1>1. y >= 0 /\ y \div 400 = e
    BY DEF YearOfEra
  <1>2. Era(y) = e
    BY <1>1 DEF Era, Quotient
  <1>3. y - e * 400 = q
    BY DEF YearOfEra
  <1>4. DayOfEra(q, 0) = q * 365 + (q \div 4) - (q \div 100)
    BY DEF DayOfEra, Quotient
  <1>5. q \div 4 \in Int /\ q \div 100 \in Int
    OBVIOUS
  <1> QED
    BY <1>2, <1>3, <1>4, <1>5 DEF YearStart, DaysInEra

LEMMA LeapDivisions ==
  ASSUME NEW q \in 0..399
  PROVE  /\ ((q + 1) \div 4) - (q \div 4) = IF (q + 1) % 4 = 0 THEN 1 ELSE 0
         /\ ((q + 1) \div 100) - (q \div 100) = IF (q + 1) % 100 = 0 THEN 1 ELSE 0
         /\ (q + 1) % 100 = 0 => (q + 1) % 4 = 0
  OBVIOUS

YearLength(y) == IF LeapYear(y) THEN 366 ELSE 365

(* From March to March: the year that ends with the February of year y has *)
(* a leap day exactly if y is a leap year, also at the turn of an era, and *)
(* for the year zero, whose January belongs to the era before.             *)
LEMMA YearStep ==
  ASSUME NEW y \in Nat
  PROVE  YearStart(y) = YearStart(y - 1) + YearLength(y)
  <1>1. CASE y = 0
    <2>1. YearStart(0) = -719468
      BY DEF YearStart, Era, DayOfEra, Quotient
    <2>2. Era(-1) = -1
      BY DEF Era, Quotient
    <2>3. DayOfEra(399, 0) = 145731
      BY DEF DayOfEra, Quotient
    <2>4. YearStart(-1) = -146097 + 145731 - 719468
      BY <2>2, <2>3 DEF YearStart
    <2>5. YearLength(0) = 366
      BY DEF YearLength, LeapYear
    <2> QED
      BY <1>1, <2>1, <2>4, <2>5
  <1>2. CASE y # 0
    <2>0. PICK x \in Nat : x = y - 1
      BY <1>2
    <2>1. PICK e \in Nat, q \in 0..399 : YearOfEra(x, e, q)
      BY EraOfYear
    <2>2. YearStart(y - 1) = DaysInEra(e, q)
      <3>1. YearStart(x) = DaysInEra(e, q)
        BY <2>1, YearStartInEra
      <3> QED
        BY <2>0, <3>1
    <2>3. CASE q < 399
      <3>1. PICK r \in 0..399 : r = q + 1
        BY <2>3
      <3>0. YearOfEra(y, e, r)
        BY <2>0, <2>1, <3>1 DEF YearOfEra
      <3>2. YearStart(y) = DaysInEra(e, r)
        BY <3>0, YearStartInEra
      <3>3. y % 4 = r % 4 /\ y % 100 = r % 100 /\ y % 400 = r
        BY <3>0 DEF YearOfEra
      <3>4. YearLength(y) = 365 + ((r \div 4) - (q \div 4))
                                - ((r \div 100) - (q \div 100))
        BY <3>1, <3>3, LeapDivisions DEF YearLength, LeapYear
      <3> QED
        BY <2>2, <3>1, <3>2, <3>4 DEF DaysInEra
    <2>4. CASE q = 399
      <3>1. YearOfEra(y, e + 1, 0)
        BY <2>0, <2>1, <2>4 DEF YearOfEra
      <3>2. YearStart(y) = 146097 * (e + 1) - 719468
        <4>1. e + 1 \in Nat /\ 0 \in 0..399
          OBVIOUS
        <4>2. YearStart(y) = DaysInEra(e + 1, 0)
          BY <3>1, <4>1, YearStartInEra
        <4> QED
          BY <4>2 DEF DaysInEra
      <3>3. y % 400 = 0
        BY <3>1 DEF YearOfEra
      <3>4. YearLength(y) = 366
        BY <3>3 DEF YearLength, LeapYear
      <3>5. YearStart(y - 1) = 146097 * e + 145731 - 719468
        BY <2>2, <2>4 DEF DaysInEra
      <3> QED
        BY <3>2, <3>4, <3>5
    <2> QED
      BY <2>3, <2>4
  <1> QED
    BY <1>1, <1>2

-----------------------------------------------------------------------------
(* days_from_civil, by the year that begins in March. *)

LEMMA YearStartType ==
  ASSUME NEW y \in Int
  PROVE  YearStart(y) \in Int
  BY DEF YearStart, Era, DayOfEra, Quotient

LEMMA FromMarch ==
  ASSUME NEW y \in Nat, NEW m \in 1..12, NEW d \in Nat
  PROVE  DaysFromCivil(y, m, d) =
           IF m <= 2 THEN YearStart(y - 1) + MonthStart(m + 9) + d - 1
                     ELSE YearStart(y) + MonthStart(m - 3) + d - 1
  <1>1. CASE m <= 2
    BY <1>1 DEF DaysFromCivil, YearStart, MonthStart, DayOfEra, Era, Quotient
  <1>2. CASE m > 2
    BY <1>2 DEF DaysFromCivil, YearStart, MonthStart, DayOfEra, Era, Quotient
  <1> QED
    BY <1>1, <1>2

(* Every month that is turned adds its days. *)
LEMMA MonthStep ==
  ASSUME NEW y \in Nat, NEW m \in 1..11
  PROVE  DaysFromCivil(y, m + 1, 1) = DaysFromCivil(y, m, 1) + MonthLength(y, m)
  <1>0. YearStart(y) \in Int /\ YearStart(y - 1) \in Int
    BY YearStartType
  <1>1. CASE m = 1
    BY <1>0, <1>1, FromMarch, MonthStarts DEF MonthLength
  <1>2. CASE m = 2
    <2>1. YearStart(y) = YearStart(y - 1) + YearLength(y)
      BY YearStep
    <2>2. MonthLength(y, 2) = YearLength(y) - 337 /\ YearLength(y) \in Int
      BY DEF MonthLength, YearLength
    <2>3. /\ DaysFromCivil(y, 2, 1) = YearStart(y - 1) + 337
          /\ DaysFromCivil(y, 3, 1) = YearStart(y)
      BY <1>0, FromMarch, MonthStarts
    <2> QED
      BY <1>0, <1>2, <2>1, <2>2, <2>3
  <1>3. CASE m > 2
    <2>1. /\ DaysFromCivil(y, m, 1) = YearStart(y) + MonthStart(m - 3)
          /\ DaysFromCivil(y, m + 1, 1) = YearStart(y) + MonthStart(m - 2)
      <3>1. MonthStart(m - 3) \in Int /\ MonthStart(m - 2) \in Int
        BY DEF MonthStart, Quotient
      <3> QED
        BY <1>0, <1>3, <3>1, FromMarch
    <2>2. MonthStart(m - 2) = MonthStart(m - 3) + MonthLength(y, m)
      <3>1. m \in {3, 4, 5, 6, 7, 8, 9, 10, 11}
        BY <1>3
      <3> QED
        BY <3>1, MonthStarts DEF MonthLength
    <2>3. MonthStart(m - 3) \in Int /\ MonthLength(y, m) \in Int
      BY DEF MonthStart, Quotient, MonthLength
    <2> QED
      BY <1>0, <2>1, <2>2, <2>3
  <1> QED
    BY <1>1, <1>2, <1>3

LEMMA DecemberStep ==
  ASSUME NEW y \in Nat
  PROVE  DaysFromCivil(y + 1, 1, 1) = DaysFromCivil(y, 12, 1) + MonthLength(y, 12)
  <1>1. YearStart(y) \in Int /\ (y + 1) - 1 = y
    BY YearStartType
  <1>2. DaysFromCivil(y + 1, 1, 1) = YearStart(y) + 306
    BY <1>1, FromMarch, MonthStarts
  <1>3. DaysFromCivil(y, 12, 1) = YearStart(y) + 275
    BY <1>1, FromMarch, MonthStarts
  <1>4. MonthLength(y, 12) = 31
    BY DEF MonthLength
  <1> QED
    BY <1>1, <1>2, <1>3, <1>4

-----------------------------------------------------------------------------
(* The strengthening of DaysCounted. *)
TurnedInv ==
  /\ year \in Nat /\ month \in 1..12 /\ elapsed \in Int
  /\ DaysFromCivil(year, month, 1) = elapsed - Epoch

LEMMA TurnedInit == Init => TurnedInv
  <1> SUFFICES ASSUME Init PROVE TurnedInv
    OBVIOUS
  <1>1. year = 0 /\ month = 1 /\ elapsed = 0
    BY DEF Init
  <1>2. YearStart(0) = -719468 /\ YearLength(0) = 366
    BY DEF YearStart, Era, DayOfEra, Quotient, YearLength, LeapYear
  <1>3. YearStart(0 - 1) = -719834
    BY <1>2, YearStep, YearStartType
  <1>4. DaysFromCivil(0, 1, 1) = -719528
    BY <1>3, FromMarch, MonthStarts
  <1> QED
    BY <1>1, <1>4 DEF TurnedInv, Epoch

LEMMA TurnedStep == TurnedInv /\ [Next]_vars => TurnedInv'
  <1> SUFFICES ASSUME TurnedInv, [Next]_vars PROVE TurnedInv'
    OBVIOUS
  <1>0. MonthLength(year, month) \in Int
    BY DEF MonthLength
  <1>1. CASE NextMonth
    <2>1. /\ month \in 1..11 /\ year' = year /\ month' = month + 1
          /\ elapsed' = elapsed + MonthLength(year, month)
      BY <1>1 DEF NextMonth, TurnedInv
    <2>2. DaysFromCivil(year', month', 1) =
            DaysFromCivil(year, month, 1) + MonthLength(year, month)
      BY <2>1, MonthStep DEF TurnedInv
    <2> QED
      BY <1>0, <2>1, <2>2 DEF TurnedInv, Epoch
  <1>2. CASE NextYear
    <2>1. /\ month = 12 /\ year' = year + 1 /\ month' = 1
          /\ elapsed' = elapsed + MonthLength(year, month)
      BY <1>2 DEF NextYear
    <2>2. DaysFromCivil(year', month', 1) =
            DaysFromCivil(year, month, 1) + MonthLength(year, month)
      BY <2>1, DecemberStep DEF TurnedInv
    <2> QED
      BY <1>0, <2>1, <2>2 DEF TurnedInv, Epoch
  <1>3. CASE UNCHANGED vars
    BY <1>3 DEF vars, TurnedInv
  <1> QED
    BY <1>1, <1>2, <1>3 DEF Next

(* Every date of every year that the parser accepts is counted as the      *)
(* calendar counts: days_from_civil needs no table of months or leap years *)
(* and has no last year short of the width of its integers.                *)
THEOREM DaysAreCounted == Spec => []DaysCounted
  <1>1. TurnedInv => DaysCounted
    <2> SUFFICES ASSUME TurnedInv, NEW d \in AcceptedDays
                 PROVE  DaysFromCivil(year, month, d) = elapsed + (d - 1) - Epoch
      BY DEF DaysCounted
    <2>1. d \in Nat /\ year \in Nat /\ month \in 1..12
      BY DEF AcceptedDays, TurnedInv
    <2>2. DaysFromCivil(year, month, d) = DaysFromCivil(year, month, 1) + (d - 1)
      <3>1. /\ YearStart(year) \in Int /\ YearStart(year - 1) \in Int
            /\ MonthStart(month + 9) \in Int /\ MonthStart(month - 3) \in Int
        BY <2>1, YearStartType DEF MonthStart, Quotient
      <3> QED
        BY <2>1, <3>1, FromMarch
    <2> QED
      BY <2>1, <2>2 DEF TurnedInv, Epoch
  <1> QED
    BY <1>1, TurnedInit, TurnedStep, PTL DEF Spec
=============================================================================
