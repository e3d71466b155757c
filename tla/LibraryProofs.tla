--------------------------- MODULE LibraryProofs ---------------------------
(***************************************************************************)
(* The routines without state, for every operand: the dates are those of   *)
(* the calendar, up to the last year; quotients, products, shifts,         *)
(* comparisons and bit fields are those of arithmetic, in words of any     *)
(* even width up to 512 bits; an array of any size is sorted, in place; a  *)
(* number written in digits is read back; lines lose nothing on their way  *)
(* through a stream, whole or in pieces.                                   *)
(*                                                                         *)
(* What a loop computes is shown by a set of turns, which holds those that *)
(* keep to what is claimed: it has turn 0, and with every turn the next    *)
(* (Induction).  A function that is to have a value for every number of    *)
(* turns is shown to exist in the same way (TurnsExist).                   *)
(***************************************************************************)
EXTENDS Library, FiniteSetTheorems, SequenceTheorems, WellFoundedInduction, TLAPS

(* A set of numbers has a least element.                                   *)
LEMMA LeastExists ==
  ASSUME NEW T \in SUBSET Nat, T # {}
  PROVE  \E m \in T : \A x \in T : m <= x
<1> DEFINE Less == OpToRel(<, Nat)
<1>1. \A x, y \in Nat : x < y => <<x, y>> \in Less
  BY DEF OpToRel
<1>2. PICK m \in T : \A y \in T : <<y, m>> \notin Less
  BY NatLessThanWellFounded, WFMin, Zenon
<1> HIDE DEF Less
<1>3. \A x \in T : ~(x < m)
  BY <1>1, <1>2
<1> QED
  BY <1>3

(* A bounded set of numbers has a greatest element.                        *)
LEMMA GreatestExists ==
  ASSUME NEW n \in Nat, NEW T \in SUBSET (0..n), T # {}
  PROVE  \E m \in T : \A x \in T : m >= x
<1> DEFINE U == {n - x : x \in T}
<1>1. U \in SUBSET Nat /\ U # {}
  <2>1. PICK x \in T : TRUE
    OBVIOUS
  <2>2. \A y \in T : n - y \in Nat
    OBVIOUS
  <2>3. n - x \in U
    OBVIOUS
  <2> QED
    BY <2>2, <2>3
<1>2. PICK u \in U : \A x \in U : u <= x
  <2> HIDE DEF U
  <2> QED
    BY <1>1, LeastExists
<1>3. PICK m \in T : u = n - m
  OBVIOUS
<1>4. ASSUME NEW x \in T PROVE m >= x
  <2>1. n - m <= n - x
    BY <1>2, <1>3
  <2> QED
    BY <2>1
<1> QED
  BY <1>4


(* A set of numbers that holds 0 and with every number the next one.       *)
LEMMA Induction ==
  ASSUME NEW T \in SUBSET Nat, 0 \in T, \A k \in T : k + 1 \in T
  PROVE  \A k \in Nat : k \in T
<1> DEFINE U == Nat \ T
<1>1. SUFFICES ASSUME U # {} PROVE FALSE
  OBVIOUS
<1>2. PICK m \in U : \A x \in U : m <= x
  <2> HIDE DEF U
  <2>1. U \in SUBSET Nat
    BY DEF U
  <2> QED
    BY <1>1, <2>1, LeastExists
<1>3. m - 1 \in Nat /\ m - 1 < m
  OBVIOUS
<1>4. m - 1 \in T
  BY <1>2, <1>3
<1> QED
  BY <1>4, <1>2

LEMMA DivModUnique ==
  ASSUME NEW a \in Int, NEW d \in Nat \ {0}, NEW q \in Int, NEW r \in 0..(d - 1), a = q * d + r
  PROVE  a \div d = q /\ a % d = r
OBVIOUS

-----------------------------------------------------------------------------
(* The years before y of so many days.                                      *)
YearsOf(y, days) == {z \in 70..(y - 1) : dylen(z) = days}

LEMMA CumYearIs ==
  ASSUME NEW y \in Nat
  PROVE  CumYear(y) = 365 * Cardinality(YearsOf(y, 365)) + 366 * Cardinality(YearsOf(y, 366))
BY DEF CumYear, YearsOf

LEMMA YearsFinite ==
  ASSUME NEW y \in Nat, NEW days
  PROVE  IsFiniteSet(YearsOf(y, days)) /\ Cardinality(YearsOf(y, days)) \in Nat
<1>1. IsFiniteSet(70..(y - 1))
  BY FS_Interval
<1>2. YearsOf(y, days) \subseteq 70..(y - 1)
  BY DEF YearsOf
<1>3. IsFiniteSet(YearsOf(y, days))
  BY <1>1, <1>2, FS_Subset
<1> QED
  BY <1>3, FS_CardinalityType

LEMMA NextYear ==
  ASSUME NEW y \in Nat, y >= 70, NEW days
  PROVE  Cardinality(YearsOf(y + 1, days)) = Cardinality(YearsOf(y, days)) + (IF dylen(y) = days THEN 1 ELSE 0)
<1>1. CASE dylen(y) = days
  <2>1. YearsOf(y + 1, days) = YearsOf(y, days) \cup {y}
    BY <1>1 DEF YearsOf
  <2>2. y \notin YearsOf(y, days)
    BY DEF YearsOf
  <2>3. Cardinality(YearsOf(y, days) \cup {y}) = Cardinality(YearsOf(y, days)) + 1
    BY <2>2, YearsFinite, FS_AddElement
  <2> QED
    BY <1>1, <2>1, <2>3
<1>2. CASE dylen(y) # days
  <2>1. YearsOf(y + 1, days) = YearsOf(y, days)
    BY <1>2 DEF YearsOf
  <2> QED
    BY <1>2, <2>1, YearsFinite
<1> QED
  BY <1>1, <1>2

(* A year has 366 days when four divide it, and 365 otherwise.              *)
LEMMA CumYearNext ==
  ASSUME NEW y \in Nat, y >= 70
  PROVE  CumYear(y + 1) = CumYear(y) + dylen(y)
<1>1. /\ CumYear(y + 1) = 365 * Cardinality(YearsOf(y + 1, 365)) + 366 * Cardinality(YearsOf(y + 1, 366))
      /\ CumYear(y) = 365 * Cardinality(YearsOf(y, 365)) + 366 * Cardinality(YearsOf(y, 366))
  BY CumYearIs
<1>2. Cardinality(YearsOf(y, 365)) \in Nat /\ Cardinality(YearsOf(y, 366)) \in Nat
  BY YearsFinite
<1>3. CASE dylen(y) = 365
  BY <1>1, <1>2, <1>3, NextYear
<1>4. CASE dylen(y) = 366
  BY <1>1, <1>2, <1>4, NextYear
<1> QED
  BY <1>3, <1>4 DEF dylen

(* The days before a year: the code counts its years one by one, the       *)
(* calendar by its rules.                                                  *)
LEMMA CumYearIsDays ==
  \A y \in 70..200 : CumYear(y) = 365 * (y - 70) + Leaps(1900 + y - 1) - Leaps(1969)
<1> DEFINE Days1(y) == 365 * (y - 70) + Leaps(1900 + y - 1) - Leaps(1969)
           T == {k \in Nat : k <= 130 => CumYear(70 + k) = Days1(70 + k)}
<1>1. 0 \in T
  <2>1. CumYear(70) = 365 * Cardinality(YearsOf(70, 365)) + 366 * Cardinality(YearsOf(70, 366))
    BY CumYearIs
  <2>2. YearsOf(70, 365) = {} /\ YearsOf(70, 366) = {}
    BY DEF YearsOf
  <2>3. CumYear(70) = 0
    BY <2>1, <2>2, FS_EmptySet
  <2> QED
    BY <2>3 DEF Leaps
<1>2. ASSUME NEW k \in T PROVE k + 1 \in T
  <2>1. SUFFICES ASSUME k + 1 <= 130 PROVE CumYear(70 + (k + 1)) = Days1(70 + (k + 1))
    OBVIOUS
  <2>2. CumYear(70 + k) = Days1(70 + k)
    BY <2>1
  <2>3. CumYear((70 + k) + 1) = CumYear(70 + k) + dylen(70 + k)
    BY CumYearNext
  <2>4. Days1((70 + k) + 1) = Days1(70 + k) + dylen(70 + k)
    <3> DEFINE y == 70 + k
    <3>1. y \in 70..199
      BY <2>1
    <3> HIDE DEF y
    <3>2. Leaps(1900 + y) = Leaps(1900 + y - 1) + (IF y % 4 = 0 THEN 1 ELSE 0)
      BY <3>1 DEF Leaps
    <3>3. dylen(y) = 365 + (IF y % 4 = 0 THEN 1 ELSE 0)
      BY <3>1 DEF dylen
    <3>4. Leaps(1900 + y - 1) \in Int /\ Leaps(1969) \in Int
      BY <3>1 DEF Leaps
    <3>5. Days1(y + 1) = 365 * (y + 1 - 70) + Leaps(1900 + y) - Leaps(1969)
      BY <3>1
    <3>6. Days1(y + 1) = Days1(y) + dylen(y)
      BY <3>1, <3>2, <3>3, <3>4, <3>5
    <3> QED
      BY <3>6 DEF y
  <2> QED
    BY <2>2, <2>3, <2>4
<1>3. \A k \in Nat : k \in T
  <2> HIDE DEF T
  <2>1. T \in SUBSET Nat
    BY DEF T
  <2> QED
    BY <1>1, <1>2, <2>1, Induction
<1>4. ASSUME NEW y \in 70..200 PROVE CumYear(y) = Days1(y)
  <2>1. y - 70 \in Nat /\ y - 70 <= 130 /\ 70 + (y - 70) = y
    OBVIOUS
  <2> QED
    BY <1>3, <2>1
<1> QED
  BY <1>4

-----------------------------------------------------------------------------
LeapDay(yr) == IF yr % 4 = 0 THEN 1 ELSE 0

(* The days of a year before each of its months, and at its end.           *)
LEMMA CumMonthIs ==
  ASSUME NEW yr \in Nat
  PROVE  LET cum == CumMonth(yr)  leap == LeapDay(yr) IN
         /\ cum[0] = 0 /\ cum[1] = 31 /\ cum[2] = 59 + leap /\ cum[3] = 90 + leap /\ cum[4] = 120 + leap
         /\ cum[5] = 151 + leap /\ cum[6] = 181 + leap /\ cum[7] = 212 + leap /\ cum[8] = 243 + leap
         /\ cum[9] = 273 + leap /\ cum[10] = 304 + leap /\ cum[11] = 334 + leap /\ cum[12] = 365 + leap
<1> DEFINE leap == LeapDay(yr)
           len(m) == MonLen(yr, m)
           Body(f) == [mon \in 0..12 |-> IF mon = 0 THEN 0 ELSE f[mon - 1] + len(mon - 1)]
           table == <<31, 59 + leap, 90 + leap, 120 + leap, 151 + leap, 181 + leap, 212 + leap,
                      243 + leap, 273 + leap, 304 + leap, 334 + leap, 365 + leap>>
           f0 == [mon \in 0..12 |-> IF mon = 0 THEN 0 ELSE table[mon]]
<1>1. leap \in Int
  BY DEF LeapDay
<1>2. /\ len(0) = 31 /\ len(1) = 28 + leap /\ len(2) = 31 /\ len(3) = 30 /\ len(4) = 31 /\ len(5) = 30
      /\ len(6) = 31 /\ len(7) = 31 /\ len(8) = 30 /\ len(9) = 31 /\ len(10) = 30 /\ len(11) = 31
  BY DEF MonLen, monlen, LeapDay
<1> HIDE DEF leap, len
<1>3. f0 = Body(f0)
  <2>1. ASSUME NEW m \in 0..12 PROVE f0[m] = IF m = 0 THEN 0 ELSE f0[m - 1] + len(m - 1)
    <3>1. /\ f0[0] = 0 /\ f0[1] = 31 /\ f0[2] = 59 + leap /\ f0[3] = 90 + leap /\ f0[4] = 120 + leap
          /\ f0[5] = 151 + leap /\ f0[6] = 181 + leap /\ f0[7] = 212 + leap /\ f0[8] = 243 + leap
          /\ f0[9] = 273 + leap /\ f0[10] = 304 + leap /\ f0[11] = 334 + leap /\ f0[12] = 365 + leap
      OBVIOUS
    <3> HIDE DEF f0
    <3>2. m \in {0, 1, 2, 3, 4, 5, 6, 7, 8, 9, 10, 11, 12}
      OBVIOUS
    <3> QED
      BY <1>1, <1>2, <3>1, <3>2
  <2> QED
    BY <2>1
<1>4. CumMonth(yr) = CHOOSE f : f = Body(f)
  BY DEF CumMonth, len
<1> HIDE DEF f0
<1>5. PICK cum : cum = CumMonth(yr) /\ cum = Body(cum)
  <2> HIDE DEF Body
  <2> QED
    BY <1>3, <1>4
<1>6. /\ cum[0] = 0 /\ \A m \in 1..12 : cum[m] = cum[m - 1] + len(m - 1)
  BY <1>5
<1>7. /\ cum[1] = cum[0] + len(0) /\ cum[2] = cum[1] + len(1) /\ cum[3] = cum[2] + len(2)
      /\ cum[4] = cum[3] + len(3) /\ cum[5] = cum[4] + len(4) /\ cum[6] = cum[5] + len(5)
      /\ cum[7] = cum[6] + len(6) /\ cum[8] = cum[7] + len(7) /\ cum[9] = cum[8] + len(8)
      /\ cum[10] = cum[9] + len(9) /\ cum[11] = cum[10] + len(10) /\ cum[12] = cum[11] + len(11)
  BY <1>6
<1> HIDE DEF Body
<1>8. /\ cum[0] = 0 /\ cum[1] = 31 /\ cum[2] = 59 + leap /\ cum[3] = 90 + leap /\ cum[4] = 120 + leap
      /\ cum[5] = 151 + leap /\ cum[6] = 181 + leap /\ cum[7] = 212 + leap /\ cum[8] = 243 + leap
      /\ cum[9] = 273 + leap /\ cum[10] = 304 + leap /\ cum[11] = 334 + leap /\ cum[12] = 365 + leap
  BY <1>1, <1>2, <1>6, <1>7
<1> QED
  BY <1>5, <1>8 DEF leap

(* A year holds every day before the end of the last one.                  *)
LEMMA YearExists ==
  ASSUME NEW day \in Nat, day < CumYear(LastYear)
  PROVE  \E y \in 70..(LastYear - 1) : CumYear(y) <= day /\ day < CumYear(y + 1)
<1> DEFINE T == {y \in 0..LastYear : y >= 70 /\ CumYear(y) <= day}
<1>1. LastYear \in Nat /\ LastYear > 70 /\ LastYear <= 200
  BY YearsAssumption
<1>2. CumYear(70) = 0
  BY <1>1, CumYearIsDays DEF Leaps
<1>3. T \in SUBSET (0..LastYear) /\ T # {}
  BY <1>1, <1>2
<1>4. PICK y \in T : \A x \in T : y >= x
  <2> HIDE DEF T
  <2> QED
    BY <1>1, <1>3, GreatestExists
<1>5. y # LastYear
  BY <1>1, CumYearIsDays DEF Leaps
<1>6. y \in 70..(LastYear - 1) /\ CumYear(y) <= day
  BY <1>1, <1>5
<1>7. day < CumYear(y + 1)
  <2>1. y + 1 \in 0..LastYear /\ y + 1 >= 70 /\ ~(y + 1 <= y)
    BY <1>1, <1>6
  <2>2. CumYear(y + 1) \in Int
    BY <1>1, <1>6, CumYearIsDays DEF Leaps
  <2>3. y + 1 \notin T
    BY <1>4, <1>6, <2>1
  <2> QED
    BY <2>1, <2>2, <2>3
<1> QED
  BY <1>6, <1>7

LEMMA MonthExists ==
  ASSUME NEW yr \in Nat, NEW yday \in 0..(364 + LeapDay(yr))
  PROVE  \E m \in 0..11 : CumMonth(yr)[m] <= yday /\ yday < CumMonth(yr)[m + 1]
<1> DEFINE cum == CumMonth(yr)
           leap == LeapDay(yr)
<1>1. /\ cum[0] = 0 /\ cum[1] = 31 /\ cum[2] = 59 + leap /\ cum[3] = 90 + leap /\ cum[4] = 120 + leap
      /\ cum[5] = 151 + leap /\ cum[6] = 181 + leap /\ cum[7] = 212 + leap /\ cum[8] = 243 + leap
      /\ cum[9] = 273 + leap /\ cum[10] = 304 + leap /\ cum[11] = 334 + leap /\ cum[12] = 365 + leap
  BY CumMonthIs
<1>2. leap \in {0, 1} /\ yday \in Nat /\ yday < 365 + leap
  BY DEF LeapDay
<1> HIDE DEF cum, leap
<1> SUFFICES \E m \in 0..11 : cum[m] <= yday /\ yday < cum[m + 1]
  BY DEF cum
<1>3. ASSUME \A m \in 0..11 : cum[m] <= yday => cum[m + 1] <= yday PROVE FALSE
  <2>1. /\ cum[0] <= yday => cum[1] <= yday
        /\ cum[1] <= yday => cum[2] <= yday
        /\ cum[2] <= yday => cum[3] <= yday
        /\ cum[3] <= yday => cum[4] <= yday
        /\ cum[4] <= yday => cum[5] <= yday
        /\ cum[5] <= yday => cum[6] <= yday
        /\ cum[6] <= yday => cum[7] <= yday
        /\ cum[7] <= yday => cum[8] <= yday
        /\ cum[8] <= yday => cum[9] <= yday
        /\ cum[9] <= yday => cum[10] <= yday
        /\ cum[10] <= yday => cum[11] <= yday
        /\ cum[11] <= yday => cum[12] <= yday
    BY <1>3
  <2> QED
    BY <1>1, <1>2, <2>1
<1>4. ASSUME NEW m \in 0..11 PROVE cum[m] \in Int /\ cum[m + 1] \in Int
  <2>1. m \in {0, 1, 2, 3, 4, 5, 6, 7, 8, 9, 10, 11}
    OBVIOUS
  <2> QED
    BY <1>1, <1>2, <2>1
<1> QED
  BY <1>2, <1>3, <1>4

(* The calendar's days by the numbers the code has for years and months.   *)
DayOf(yr, m, d) == DayNumber(1900 + yr, m + 1, d)
LengthOf(yr, m) == DaysOf(1900 + yr, m + 1)

(* The days before a date, whatever the month.                             *)
LEMMA DayNumberIs ==
  ASSUME NEW yr \in 70..199, NEW m \in 0..11, NEW d \in Int
  PROVE  DayOf(yr, m, d) = CumYear(yr) + CumMonth(yr)[m] + d - 1
<1> DEFINE cum == CumMonth(yr)
           leap == LeapDay(yr)
<1>1. /\ cum[0] = 0 /\ cum[1] = 31 /\ cum[2] = 59 + leap /\ cum[3] = 90 + leap /\ cum[4] = 120 + leap
      /\ cum[5] = 151 + leap /\ cum[6] = 181 + leap /\ cum[7] = 212 + leap /\ cum[8] = 243 + leap
      /\ cum[9] = 273 + leap /\ cum[10] = 304 + leap /\ cum[11] = 334 + leap
  BY CumMonthIs
<1>2. leap = IF Leap(1900 + yr) THEN 1 ELSE 0
  BY DEF LeapDay, Leap
<1>3. CumYear(yr) = 365 * (yr - 70) + Leaps(1900 + yr - 1) - Leaps(1969)
  BY CumYearIsDays
<1>4. Leaps(1900 + yr - 1) \in Int /\ Leaps(1969) \in Int
  BY DEF Leaps
<1>5. cum[m] = Before[m + 1] + (IF m + 1 > 2 /\ Leap(1900 + yr) THEN 1 ELSE 0)
  <2>1. m \in {0, 1, 2, 3, 4, 5, 6, 7, 8, 9, 10, 11}
    OBVIOUS
  <2>2. /\ Before[1] = 0 /\ Before[2] = 31 /\ Before[3] = 59 /\ Before[4] = 90 /\ Before[5] = 120
        /\ Before[6] = 151 /\ Before[7] = 181 /\ Before[8] = 212 /\ Before[9] = 243 /\ Before[10] = 273
        /\ Before[11] = 304 /\ Before[12] = 334
    BY DEF Before
  <2> HIDE DEF cum, leap
  <2> QED
    BY <1>1, <1>2, <2>1, <2>2
<1>6. Before[m + 1] \in Int
  BY DEF Before
<1> HIDE DEF cum, leap
<1>7. DayNumber(1900 + yr, m + 1, d) =
        365 * (1900 + yr - 1970) + Leaps(1900 + yr - 1) - Leaps(1969)
          + Before[m + 1] + (IF m + 1 > 2 /\ Leap(1900 + yr) THEN 1 ELSE 0) + d - 1
  BY DEF DayNumber
<1> QED
  BY <1>3, <1>4, <1>5, <1>6, <1>7 DEF cum, DayOf

LEMMA MonthLength ==
  ASSUME NEW yr \in 70..199, NEW m \in 0..11
  PROVE  /\ LengthOf(yr, m) = CumMonth(yr)[m + 1] - CumMonth(yr)[m]
         /\ CumMonth(yr)[m] \in Int /\ CumMonth(yr)[m + 1] \in Int
<1> DEFINE cum == CumMonth(yr)
           leap == LeapDay(yr)
<1>1. /\ cum[0] = 0 /\ cum[1] = 31 /\ cum[2] = 59 + leap /\ cum[3] = 90 + leap /\ cum[4] = 120 + leap
      /\ cum[5] = 151 + leap /\ cum[6] = 181 + leap /\ cum[7] = 212 + leap /\ cum[8] = 243 + leap
      /\ cum[9] = 273 + leap /\ cum[10] = 304 + leap /\ cum[11] = 334 + leap /\ cum[12] = 365 + leap
  BY CumMonthIs
<1>2. leap = (IF Leap(1900 + yr) THEN 1 ELSE 0) /\ leap \in Int
  BY DEF LeapDay, Leap
<1>3. m \in {0, 1, 2, 3, 4, 5, 6, 7, 8, 9, 10, 11}
  OBVIOUS
<1> HIDE DEF cum, leap
<1>4. LengthOf(yr, m) = cum[m + 1] - cum[m] /\ cum[m] \in Int /\ cum[m + 1] \in Int
  BY <1>1, <1>2, <1>3 DEF LengthOf, DaysOf
<1> QED
  BY <1>4 DEF cum

-----------------------------------------------------------------------------
(* The moments the code's years are right for.                              *)
WithinYears(t) == t \div 86400 < CumYear(LastYear)

(* A moment up to the last year is broken into the date of the calendar.   *)
LEMMA GmtimeDenotes ==
  ASSUME NEW t \in Nat, WithinYears(t)
  PROVE  Denotes(gmtime(t), t) /\ gmtime(t).tm_year \in 70..199
<1> DEFINE day == ((t \div 60) \div 60) \div 24
           yr == CHOOSE y \in 70..(LastYear - 1) : CumYear(y) <= day /\ day < CumYear(y + 1)
           yday == day - CumYear(yr)
           cum == CumMonth(yr)
           mon == CHOOSE m \in 0..11 : cum[m] <= yday /\ yday < cum[m + 1]
           tm == gmtime(t)
<1>1. /\ tm.tm_sec = t % 60 /\ tm.tm_min = (t \div 60) % 60 /\ tm.tm_hour = ((t \div 60) \div 60) % 24
      /\ tm.tm_wday = (day + 4) % 7 /\ tm.tm_year = yr /\ tm.tm_yday = yday
      /\ tm.tm_mon = mon /\ tm.tm_mday = yday - cum[mon] + 1
  BY DEF gmtime
<1>2. /\ day \in Nat /\ day = t \div 86400
      /\ t = ((day * 24 + (((t \div 60) \div 60) % 24)) * 60 + ((t \div 60) % 60)) * 60 + (t % 60)
      /\ t % 60 \in 0..59 /\ (t \div 60) % 60 \in 0..59 /\ ((t \div 60) \div 60) % 24 \in 0..23
  <2> DEFINE minutes == t \div 60
             hours == minutes \div 60
  <2>1. minutes \in Nat /\ t = minutes * 60 + (t % 60) /\ t % 60 \in 0..59
    OBVIOUS
  <2>2. hours \in Nat /\ minutes = hours * 60 + (minutes % 60) /\ minutes % 60 \in 0..59
    OBVIOUS
  <2>3. day \in Nat /\ hours = day * 24 + (hours % 24) /\ hours % 24 \in 0..23
    OBVIOUS
  <2>4. day = t \div 86400
    OBVIOUS
  <2> QED
    BY <2>1, <2>2, <2>3, <2>4
<1> HIDE DEF day, tm
<1>3. yr \in 70..(LastYear - 1) /\ CumYear(yr) <= day /\ day < CumYear(yr + 1)
  BY <1>2, YearExists DEF WithinYears
<1>4. LastYear \in Nat /\ LastYear <= 200
  BY YearsAssumption
<1>5. yr \in 70..199
  BY <1>3, <1>4
<1> HIDE DEF yr
<1>6. CumYear(yr) \in Int /\ CumYear(yr + 1) = CumYear(yr) + 365 + LeapDay(yr) /\ LeapDay(yr) \in 0..1
  <2>1. CumYear(yr) \in Int
    BY <1>5, CumYearIsDays DEF Leaps
  <2>2. CumYear(yr + 1) = CumYear(yr) + dylen(yr)
    BY <1>5, CumYearNext
  <2>3. dylen(yr) = 365 + LeapDay(yr) /\ LeapDay(yr) \in 0..1
    BY <1>5 DEF dylen, LeapDay
  <2> QED
    BY <2>1, <2>2, <2>3
<1>7. yday \in 0..(364 + LeapDay(yr))
  BY <1>2, <1>3, <1>6
<1> HIDE DEF yday
<1>8. mon \in 0..11 /\ cum[mon] <= yday /\ yday < cum[mon + 1]
  BY <1>5, <1>7, MonthExists
<1> HIDE DEF mon
<1>9. LengthOf(yr, mon) = cum[mon + 1] - cum[mon] /\ cum[mon] \in Int /\ cum[mon + 1] \in Int
  <2>1. mon \in 0..11
    BY <1>8
  <2> QED
    BY <1>5, <2>1, MonthLength, Zenon
<1> HIDE DEF cum
<1>10. tm.tm_mday \in 1..LengthOf(yr, mon) /\ tm.tm_mday \in Int
  BY <1>1, <1>6, <1>7, <1>8, <1>9
<1>11. DayOf(yr, mon, tm.tm_mday) = day
  <2>1. DayOf(yr, mon, tm.tm_mday) = CumYear(yr) + cum[mon] + tm.tm_mday - 1
    <3>1. mon \in 0..11 /\ tm.tm_mday \in Int
      BY <1>8, <1>10
    <3> QED
      BY <1>5, <3>1, DayNumberIs, Zenon DEF cum
  <2> QED
    BY <1>1, <1>2, <1>6, <1>9, <2>1 DEF yday
<1>12. DayNumber(1900 + yr, 1, 1) = CumYear(yr)
  <2>1. DayOf(yr, 0, 1) = CumYear(yr) + cum[0] + 1 - 1
    BY <1>5, DayNumberIs DEF cum
  <2>2. cum[0] = 0
    BY <1>5, CumMonthIs DEF cum
  <2> QED
    BY <1>6, <2>1, <2>2 DEF DayOf
<1>13. mon + 1 \in 1..12
  BY <1>8
<1>14. tm.tm_wday = (4 + day) % 7
  BY <1>1, <1>2
<1>15. tm.tm_yday = day - CumYear(yr)
  BY <1>1 DEF yday
<1>16. t = ((day * 24 + tm.tm_hour) * 60 + tm.tm_min) * 60 + tm.tm_sec
  BY <1>1, <1>2
<1>17. tm.tm_hour \in 0..23 /\ tm.tm_min \in 0..59 /\ tm.tm_sec \in 0..59
  BY <1>1, <1>2
<1>18. tm.tm_year = yr /\ tm.tm_mon = mon
  BY <1>1
<1>19. Denotes(tm, t)
  BY <1>10, <1>11, <1>12, <1>13, <1>14, <1>15, <1>16, <1>17, <1>18 DEF Denotes, DayOf, LengthOf
<1> QED
  BY <1>5, <1>18, <1>19 DEF tm

(* The letters of a date are read back as the date.                        *)
LEMMA TwoDigits ==
  ASSUME NEW i \in 0..99, NEW cl \in {0, Blank}
  PROVE  Number(put2d(i, cl)) = i
<1>1. i = 10 * (i \div 10) + (i % 10) /\ i \div 10 \in Nat /\ i % 10 \in Nat
  OBVIOUS
<1>2. put2d(i, cl)[1] = (IF i \div 10 # 0 THEN i \div 10 ELSE cl) /\ put2d(i, cl)[2] = i % 10
  BY DEF put2d
<1> QED
  BY <1>1, <1>2 DEF Number, Blank

LEMMA AsctimeReads ==
  ASSUME NEW t \in Nat, WithinYears(t)
  PROVE  Reads(asctime(gmtime(t)), gmtime(t))
<1> DEFINE tm == gmtime(t)
           text == asctime(tm)
<1>1. Denotes(tm, t) /\ tm.tm_year \in 70..199
  BY GmtimeDenotes
<1> HIDE DEF tm
<1>2. tm.tm_hour \in 0..99 /\ tm.tm_min \in 0..99 /\ tm.tm_sec \in 0..99
  BY <1>1 DEF Denotes
<1>3. tm.tm_mday \in 0..99
  BY <1>1 DEF Denotes, DaysOf
<1>4. /\ tm.tm_year \div 100 + 19 \in 0..99 /\ tm.tm_year % 100 \in 0..99
      /\ 100 * (tm.tm_year \div 100 + 19) + (tm.tm_year % 100) = 1900 + tm.tm_year
  BY <1>1
<1>5. /\ text[1] = tm.tm_wday /\ text[2] = tm.tm_mon
      /\ text[3] = put2d(tm.tm_mday, Blank) /\ text[4] = put2d(tm.tm_hour, 0)
      /\ text[5] = put2d(tm.tm_min, 0) /\ text[6] = put2d(tm.tm_sec, 0)
      /\ text[7] = put2d(tm.tm_year \div 100 + 19, Blank) /\ text[8] = put2d(tm.tm_year % 100, 0)
  BY DEF asctime
<1> HIDE DEF text
<1>6. /\ Number(text[3]) = tm.tm_mday /\ Number(text[4]) = tm.tm_hour
      /\ Number(text[5]) = tm.tm_min /\ Number(text[6]) = tm.tm_sec
      /\ Number(text[7]) = tm.tm_year \div 100 + 19 /\ Number(text[8]) = tm.tm_year % 100
  BY <1>2, <1>3, <1>4, <1>5, TwoDigits
<1>7. [k \in 1..4 |-> Number(text[k + 2])] = <<tm.tm_mday, tm.tm_hour, tm.tm_min, tm.tm_sec>>
  <2> DEFINE f == [k \in 1..4 |-> Number(text[k + 2])]
  <2>1. f[1] = tm.tm_mday /\ f[2] = tm.tm_hour /\ f[3] = tm.tm_min /\ f[4] = tm.tm_sec
    BY <1>6
  <2>2. f = <<f[1], f[2], f[3], f[4]>>
    OBVIOUS
  <2> QED
    BY <2>1, <2>2
<1>8. 100 * Number(text[7]) + Number(text[8]) = 1900 + tm.tm_year
  BY <1>4, <1>6
<1>9. Reads(text, tm)
  BY <1>5, <1>7, <1>8 DEF Reads
<1> QED
  BY <1>9 DEF tm, text

(* CP/M's date and time are the moment they say.                           *)
LEMMA BcdReadBack == \A v \in 0..99 : frmbcd(Bcd(v)) = v
<1> SUFFICES ASSUME NEW v \in 0..99 PROVE frmbcd(Bcd(v)) = v
  OBVIOUS
<1>1. v \div 10 \in 0..9 /\ v % 10 \in 0..9 /\ v = 10 * (v \div 10) + (v % 10)
  OBVIOUS
<1>2. Bcd(v) = 16 * (v \div 10) + (v % 10)
  BY DEF Bcd
<1>3. Bcd(v) % 16 = v % 10 /\ Bcd(v) \div 16 = v \div 10
  BY <1>1, <1>2
<1> QED
  BY <1>1, <1>3 DEF frmbcd

(* The days from 1970 to 1978, which the code has as a number.             *)
LEMMA Epoch == DayNumber(1978, 1, 1) = 2922
BY DEF DayNumber, Leaps, Before, Leap

LEMMA CpmMoment ==
  ASSUME NEW day \in Nat, NEW time \in (0..23) \X (0..59) \X (0..59)
  PROVE  LET tod == [days |-> day + 1, hour |-> Bcd(time[1]), min |-> Bcd(time[2]), sec |-> Bcd(time[3])]
         IN convtime(tod) = Seconds(DayNumber(1978, 1, 1) + day, time)
<1> DEFINE tod == [days |-> day + 1, hour |-> Bcd(time[1]), min |-> Bcd(time[2]), sec |-> Bcd(time[3])]
<1>1. time[1] \in 0..23 /\ time[2] \in 0..59 /\ time[3] \in 0..59
  OBVIOUS
<1>2. frmbcd(tod.hour) = time[1] /\ frmbcd(tod.min) = time[2] /\ frmbcd(tod.sec) = time[3]
  BY <1>1, BcdReadBack
<1>3. tod.days + EPOCH = DayNumber(1978, 1, 1) + day
  <2>1. tod.days = day + 1 /\ EPOCH = 2921
    BY DEF EPOCH
  <2> HIDE DEF tod
  <2> QED
    BY <2>1, Epoch
<1> HIDE DEF tod
<1>4. convtime(tod) = Seconds(DayNumber(1978, 1, 1) + day, time)
  BY <1>2, <1>3, SMT DEF convtime, Seconds
<1> QED
  BY <1>4 DEF tod

-----------------------------------------------------------------------------
(* Only the call made tells what the result is compared with.               *)
Made(op) == \E x, y, r : Called(op, x, y, r)

LEMMA MadeCalls ==
  /\ WordCall => \E op \in {"ldiv", "adiv", "lmul", "wrelop", "brelop"} : Made(op)
  /\ LongCall => \E op \in {"lldiv", "aldiv", "llmul", "lrelop"} : Made(op)
  /\ ShiftCall => \E op \in {"shift", "lshift"} : Made(op)
  /\ BitFieldCall => \E op \in {"bfext", "bfins"} : Made(op)
  /\ NumeralCall => Made("numerals")
  /\ FloatCall => \E op \in {"fladd", "flsub", "flmul", "fldiv", "frelop"} : Made(op)
  /\ PartsCall => \E op \in {"ftol", "ldexp", "floor", "ceil"} : Made(op)
  /\ ToFloatCall => \E op \in {"aitof", "litof", "altof", "lltof"} : Made(op)
  /\ ExactCall => Made("exact")
  /\ SortCall => Made("qsort")
  /\ FormatCall => Made("formats")
  /\ LinesCall => Made("lines")
  /\ PutwCall => Made("putw")
  /\ LineCall => Made("getargs")
<1>1. WordCall => \E op \in {"ldiv", "adiv", "lmul", "wrelop", "brelop"} : Made(op)
  BY Zenon DEF WordCall, Made
<1>2. LongCall => \E op \in {"lldiv", "aldiv", "llmul", "lrelop"} : Made(op)
  BY Zenon DEF LongCall, Made
<1>3. ShiftCall => \E op \in {"shift", "lshift"} : Made(op)
  BY Zenon DEF ShiftCall, Made
<1>4. BitFieldCall => \E op \in {"bfext", "bfins"} : Made(op)
  BY Zenon DEF BitFieldCall, Made
<1>5. NumeralCall => Made("numerals")
  <2> SUFFICES ASSUME NumeralCall PROVE Made("numerals")
    OBVIOUS
  <2>1. \E x, y, r : Called("numerals", x, y, r)
    BY SMT DEF NumeralCall
  <2> QED
    BY <2>1 DEF Made
<1>6. FloatCall => \E op \in {"fladd", "flsub", "flmul", "fldiv", "frelop"} : Made(op)
  BY Zenon DEF FloatCall, Made
<1>7. PartsCall => \E op \in {"ftol", "ldexp", "floor", "ceil"} : Made(op)
  BY Zenon DEF PartsCall, Made
<1>8. ToFloatCall => \E op \in {"aitof", "litof", "altof", "lltof"} : Made(op)
  BY Zenon DEF ToFloatCall, Made
<1>9. ExactCall => Made("exact")
  BY Zenon DEF ExactCall, Made
<1>10. SortCall => Made("qsort")
  BY Zenon DEF SortCall, Made
<1>11. FormatCall => Made("formats")
  <2> SUFFICES ASSUME FormatCall PROVE Made("formats")
    OBVIOUS
  <2>1. \E x, y, r : Called("formats", x, y, r)
    BY SMT DEF FormatCall
  <2> QED
    BY <2>1 DEF Made
<1>12. LinesCall => Made("lines")
  BY Zenon DEF LinesCall, Made
<1>13. PutwCall => Made("putw")
  BY Zenon DEF PutwCall, Made
<1>14. LineCall => Made("getargs")
  BY Zenon DEF LineCall, Made
<1> QED
  BY <1>1, <1>2, <1>3, <1>4, <1>5, <1>6, <1>7, <1>8, <1>9, <1>10, <1>11, <1>12, <1>13, <1>14

DateOps == {"localtime", "ctime", "convtime"}

LEMMA NoDate ==
  ASSUME NEW op, Made(op), op \notin DateOps
  PROVE  DatesRight'
<1>1. PICK x, y, r : Called(op, x, y, r)
  BY DEF Made
<1>2. call'.op = op
  BY <1>1 DEF Called
<1> QED
  BY <1>2 DEF DatesRight, DateOps

(* The calls of gmtime(), localtime() and asctime(), and of convtime().     *)
LEMMA ClockDates == ClockCall => DatesRight'
<1> SUFFICES ASSUME ClockCall PROVE DatesRight'
  OBVIOUS
<1>1. PICK day \in Days, time \in Times, zone \in Zones :
        LET t == Seconds(day, time) IN
        /\ t >= zone * 60
        /\ \/ Called("localtime", t, zone, localtime(t, zone))
           \/ Called("ctime", t, zone, asctime(localtime(t, zone)))
  BY DEF ClockCall
<1> DEFINE t == Seconds(day, time)
           u == t - zone * 60
<1>2. /\ day \in Nat /\ time[1] \in 0..23 /\ time[2] \in 0..59 /\ time[3] \in 0..59
      /\ zone \in -(24 * 60)..(24 * 60) /\ day + 1 < CumYear(LastYear)
  BY SamplesAssumption
<1>3. t \in Nat /\ t < (day + 1) * 86400
  <2> DEFINE h == time[1]
             m == time[2]
             s == time[3]
  <2>1. t = ((day * 24 + h) * 60 + m) * 60 + s
    BY DEF Seconds
  <2>2. h \in 0..23 /\ m \in 0..59 /\ s \in 0..59
    BY <1>2
  <2> HIDE DEF h, m, s, t
  <2> QED
    BY <1>2, <2>1, <2>2
<1>4. t >= zone * 60
  BY <1>1
<1> HIDE DEF t
<1>5. u \in Nat /\ u < (day + 2) * 86400
  BY <1>2, <1>3, <1>4
<1>6. CumYear(LastYear) \in Nat
  BY YearsFinite, YearsAssumption, CumYearIs
<1>7. WithinYears(u)
  <2>1. u \div 86400 < day + 2
    BY <1>2, <1>5
  <2>2. u \div 86400 \in Nat
    BY <1>5
  <2> HIDE DEF u
  <2> QED
    BY <1>2, <1>6, <2>1, <2>2 DEF WithinYears
<1> HIDE DEF u
<1>8. Denotes(gmtime(u), u) /\ Reads(asctime(gmtime(u)), gmtime(u))
  BY <1>5, <1>7, GmtimeDenotes, AsctimeReads
<1>9. localtime(t, zone) = gmtime(u)
  BY DEF localtime, u
<1>10. CASE Called("localtime", t, zone, localtime(t, zone))
  <2>1. call'.op = "localtime" /\ call'.x = t /\ call'.y = zone /\ call'.res = gmtime(u)
    BY <1>9, <1>10 DEF Called
  <2> QED
    BY <1>8, <2>1 DEF DatesRight, u
<1>11. CASE Called("ctime", t, zone, asctime(localtime(t, zone)))
  <2>1. call'.op = "ctime" /\ call'.x = t /\ call'.y = zone /\ call'.res = asctime(gmtime(u))
    BY <1>9, <1>11 DEF Called
  <2> QED
    BY <1>8, <2>1 DEF DatesRight, u
<1> QED
  BY <1>1, <1>10, <1>11 DEF t

LEMMA CpmClockDates == CpmClockCall => DatesRight'
<1> SUFFICES ASSUME CpmClockCall PROVE DatesRight'
  OBVIOUS
<1>1. PICK day \in Days, time \in Times :
        LET tod == [days |-> day + 1, hour |-> Bcd(time[1]), min |-> Bcd(time[2]), sec |-> Bcd(time[3])] IN
        Called("convtime", day, time, convtime(tod))
  BY DEF CpmClockCall
<1>2. day \in Nat /\ time \in (0..23) \X (0..59) \X (0..59)
  BY SamplesAssumption
<1>3. convtime([days |-> day + 1, hour |-> Bcd(time[1]), min |-> Bcd(time[2]), sec |-> Bcd(time[3])])
        = Seconds(DayNumber(1978, 1, 1) + day, time)
  BY <1>2, CpmMoment
<1>4. call'.op = "convtime" /\ call'.x = day /\ call'.y = time
        /\ call'.res = Seconds(DayNumber(1978, 1, 1) + day, time)
  BY <1>1, <1>3 DEF Called
<1> QED
  BY <1>4 DEF DatesRight

(* The date and its letters are those of the calendar, in any zone, and the *)
(* date CP/M gives is the same moment (stdio/CTIME.C, cpm/CONVTIME.C).      *)
THEOREM DatesAreRight == Spec => []DatesRight
<1>1. Init => DatesRight
  BY DEF Init, Idle, DatesRight
<1>2. DatesRight /\ [Next]_vars => DatesRight'
  <2> SUFFICES ASSUME DatesRight, [Next]_vars PROVE DatesRight'
    OBVIOUS
  <2>1. CASE ClockCall
    BY <2>1, ClockDates
  <2>2. CASE CpmClockCall
    BY <2>2, CpmClockDates
  <2>3. CASE Return
    BY <2>3 DEF Return, Idle, DatesRight
  <2>4. CASE UNCHANGED vars
    BY <2>4 DEF vars, DatesRight
  <2>5. CASE WordCall \/ LongCall \/ ShiftCall \/ BitFieldCall \/ NumeralCall
    BY <2>5, MadeCalls, NoDate DEF DateOps
  <2>6. CASE FloatCall \/ PartsCall \/ ToFloatCall \/ ExactCall
    BY <2>6, MadeCalls, NoDate DEF DateOps
  <2>7. CASE SortCall \/ FormatCall \/ LinesCall \/ PutwCall \/ LineCall
    BY <2>7, MadeCalls, NoDate DEF DateOps
  <2> QED
    BY <2>1, <2>2, <2>3, <2>4, <2>5, <2>6, <2>7 DEF Next
<1> QED
  BY <1>1, <1>2, PTL DEF Spec

-----------------------------------------------------------------------------
(* Division: by one, twice, of a sum, of a product.                         *)
LEMMA DivMod ==
  ASSUME NEW a \in Int, NEW d \in Nat \ {0}
  PROVE  a = (a \div d) * d + (a % d) /\ a \div d \in Int /\ a % d \in 0..(d - 1)
OBVIOUS

LEMMA DivByOne == \A a \in Int : a \div 1 = a /\ a % 1 = 0
OBVIOUS

LEMMA DivInRange ==
  ASSUME NEW a \in Nat, NEW d \in Nat \ {0}
  PROVE  a \div d \in Nat /\ (a < d => a \div d = 0 /\ a % d = a)
OBVIOUS

LEMMA DivTwice ==
  ASSUME NEW a \in Int, NEW d \in Nat \ {0}, NEW e \in Nat \ {0}
  PROVE  (a \div d) \div e = a \div (d * e)
<1> DEFINE q == a \div d
           p == q \div e
           r == a % d
           s == q % e
<1>1. a = q * d + r /\ q \in Int /\ r \in 0..(d - 1)
  BY DivMod
<1>2. q = p * e + s /\ p \in Int /\ s \in 0..(e - 1)
  BY <1>1, DivMod
<1> HIDE DEF q, p, r, s
<1>3. a = p * (d * e) + (s * d + r)
  <2>1. a = (p * e + s) * d + r
    BY <1>1, <1>2
  <2> QED
    BY <1>1, <1>2, <2>1
<1>4. s * d + r \in 0..(d * e - 1)
  <2>1. s * d <= (e - 1) * d /\ s * d >= 0
    BY <1>2
  <2>2. (e - 1) * d = d * e - d
    OBVIOUS
  <2>3. s * d \in Int /\ d * e \in Int
    BY <1>2
  <2> QED
    BY <1>1, <2>1, <2>2, <2>3
<1>5. d * e \in Nat \ {0}
  OBVIOUS
<1>6. a \div (d * e) = p
  BY <1>2, <1>3, <1>4, <1>5, DivModUnique
<1> QED
  BY <1>6 DEF p, q

LEMMA HalvedQuotient ==
  ASSUME NEW a \in Int, NEW d \in Nat \ {0}
  PROVE  (a \div d) \div 2 = a \div (2 * d)
<1>1. 2 \in Nat \ {0} /\ d * 2 = 2 * d
  OBVIOUS
<1>2. (a \div d) \div 2 = a \div (d * 2)
  BY <1>1, DivTwice, Zenon
<1> QED
  BY <1>1, <1>2

LEMMA ModPlusMultiple ==
  ASSUME NEW a \in Int, NEW k \in Int, NEW m \in Nat \ {0}
  PROVE  (a + k * m) % m = a % m
<1>1. a = (a \div m) * m + (a % m) /\ a \div m \in Int /\ a % m \in 0..(m - 1)
  BY DivMod
<1> DEFINE q == a \div m
           r == a % m
<1> HIDE DEF q, r
<1>2. a = q * m + r /\ q \in Int /\ r \in 0..(m - 1)
  BY <1>1 DEF q, r
<1>3. a + k * m = (q + k) * m + r
  BY <1>2
<1>4. (a + k * m) % m = r
  BY <1>2, <1>3, DivModUnique
<1> QED
  BY <1>4 DEF r

LEMMA ModOfTimes ==
  ASSUME NEW a \in Int, NEW c \in Int, NEW m \in Nat \ {0}
  PROVE  (c * (a % m)) % m = (c * a) % m
<1> DEFINE q == a \div m
           r == a % m
<1>1. a = q * m + r /\ q \in Int /\ r \in Int
  BY DivMod
<1> HIDE DEF q, r
<1>2. c * a = c * r + (c * q) * m
  BY <1>1
<1>3. (c * r + (c * q) * m) % m = (c * r) % m
  <2> DEFINE k == c * q
             b == c * r
  <2>1. k \in Int /\ b \in Int
    BY <1>1
  <2> HIDE DEF k, b
  <2>2. (b + k * m) % m = b % m
    BY <2>1, ModPlusMultiple
  <2> QED
    BY <2>2 DEF k, b
<1> QED
  BY <1>2, <1>3 DEF r

LEMMA ModOfSum ==
  ASSUME NEW a \in Int, NEW b \in Int, NEW m \in Nat \ {0}
  PROVE  ((a % m) + b) % m = (a + b) % m
<1> DEFINE q == a \div m
           r == a % m
<1>1. a = q * m + r /\ q \in Int /\ r \in Int
  BY DivMod
<1> HIDE DEF q, r
<1>2. a + b = (r + b) + q * m
  BY <1>1
<1>3. ((r + b) + q * m) % m = (r + b) % m
  <2> DEFINE c == r + b
  <2>1. c \in Int
    BY <1>1
  <2> HIDE DEF c
  <2>2. (c + q * m) % m = c % m
    BY <1>1, <2>1, ModPlusMultiple
  <2> QED
    BY <2>2 DEF c
<1> QED
  BY <1>2, <1>3 DEF r

LEMMA ModScaled ==
  ASSUME NEW a \in Int, NEW m \in Nat \ {0}, NEW p \in Nat \ {0}
  PROVE  (a * p) % (m * p) = (a % m) * p
<1> DEFINE q == a \div m
           r == a % m
<1>1. a = q * m + r /\ q \in Int /\ r \in 0..(m - 1)
  BY DivMod
<1> HIDE DEF q, r
<1>2. a * p = q * (m * p) + r * p
  BY <1>1
<1>3. r * p \in 0..(m * p - 1)
  <2>1. r * p <= (m - 1) * p /\ r * p >= 0 /\ r * p \in Int
    BY <1>1
  <2>2. (m - 1) * p = m * p - p /\ m * p \in Int
    OBVIOUS
  <2> QED
    BY <2>1, <2>2
<1>4. m * p \in Nat \ {0} /\ a * p \in Int
  OBVIOUS
<1>5. (a * p) % (m * p) = r * p
  BY <1>1, <1>2, <1>3, <1>4, DivModUnique
<1> QED
  BY <1>5 DEF r

-----------------------------------------------------------------------------
(* Powers of two.  What the library says of them is that a set of n         *)
(* elements has 2^n subsets.                                                *)
LEMMA PowerType == \A n \in Nat : 2 ^ n \in Nat \ {0}
<1> SUFFICES ASSUME NEW n \in Nat PROVE 2 ^ n \in Nat \ {0}
  OBVIOUS
<1>1. IsFiniteSet(1..n) /\ Cardinality(1..n) = n
  BY FS_Interval
<1>2. IsFiniteSet(SUBSET (1..n)) /\ Cardinality(SUBSET (1..n)) = 2 ^ n
  BY <1>1, FS_SUBSET
<1>3. Cardinality(SUBSET (1..n)) \in Nat
  BY <1>2, FS_CardinalityType
<1>4. Cardinality(SUBSET (1..n)) # 0
  <2>1. SUBSET (1..n) # {}
    OBVIOUS
  <2> QED
    BY <1>2, <2>1, FS_EmptySet
<1> QED
  BY <1>2, <1>3, <1>4

(* The subsets of 1..(n+1) are those of 1..n, without and with n+1.        *)
LEMMA PowerNext == \A n \in Nat : 2 ^ (n + 1) = 2 * 2 ^ n
<1> SUFFICES ASSUME NEW n \in Nat PROVE 2 ^ (n + 1) = 2 * 2 ^ n
  OBVIOUS
<1> DEFINE Old == SUBSET (1..n)
           New == {B \cup {n + 1} : B \in Old}
<1>1. IsFiniteSet(1..n) /\ Cardinality(1..n) = n /\ IsFiniteSet(1..(n + 1)) /\ Cardinality(1..(n + 1)) = n + 1
  BY FS_Interval
<1>2. IsFiniteSet(Old) /\ Cardinality(Old) = 2 ^ n /\ Cardinality(SUBSET (1..(n + 1))) = 2 ^ (n + 1)
  BY <1>1, FS_SUBSET
<1>3. SUBSET (1..(n + 1)) = Old \cup New
  <2>1. ASSUME NEW B \in SUBSET (1..(n + 1)) PROVE B \in Old \cup New
    <3>1. CASE n + 1 \in B
      <4>1. B \ {n + 1} \in Old /\ B = (B \ {n + 1}) \cup {n + 1}
        BY <3>1
      <4> QED
        BY <4>1
    <3>2. CASE n + 1 \notin B
      BY <3>2
    <3> QED
      BY <3>1, <3>2
  <2>2. ASSUME NEW B \in Old PROVE B \in SUBSET (1..(n + 1)) /\ B \cup {n + 1} \in SUBSET (1..(n + 1))
    <3>1. 1..n \subseteq 1..(n + 1) /\ n + 1 \in 1..(n + 1)
      OBVIOUS
    <3>2. B \subseteq 1..n
      OBVIOUS
    <3> QED
      BY <3>1, <3>2, Zenon
  <2>3. ASSUME NEW B \in New PROVE B \in SUBSET (1..(n + 1))
    BY <2>2, Zenon
  <2>4. \A B \in Old \cup New : B \in SUBSET (1..(n + 1))
    BY <2>2, <2>3, Zenon
  <2> HIDE DEF Old, New
  <2>5. Old \cup New \subseteq SUBSET (1..(n + 1)) /\ SUBSET (1..(n + 1)) \subseteq Old \cup New
    BY <2>1, <2>4, Zenon
  <2> QED
    BY <2>5, Zenon
<1>4. Old \cap New = {}
  <2>1. \A B \in Old : n + 1 \notin B
    OBVIOUS
  <2>2. \A B \in New : n + 1 \in B
    OBVIOUS
  <2> QED
    BY <2>1, <2>2
<1>5. IsFiniteSet(New) /\ Cardinality(New) = Cardinality(Old)
  <2> DEFINE f == [B \in Old |-> B \cup {n + 1}]
  <2>1. f \in [Old -> New]
    OBVIOUS
  <2>2. \A B, C \in Old : f[B] = f[C] => B = C
    <3> SUFFICES ASSUME NEW B \in Old, NEW C \in Old, f[B] = f[C] PROVE B = C
      OBVIOUS
    <3>1. B \cup {n + 1} = C \cup {n + 1} /\ n + 1 \notin B /\ n + 1 \notin C
      OBVIOUS
    <3> QED
      BY <3>1
  <2>3. \A C \in New : \E B \in Old : f[B] = C
    OBVIOUS
  <2> HIDE DEF f, Old, New
  <2>4. f \in Bijection(Old, New)
    BY <2>1, <2>2, <2>3 DEF Bijection, Injection, Surjection, IsInjective
  <2>5. ExistsBijection(Old, New)
    BY <2>4 DEF ExistsBijection
  <2> QED
    BY <1>2, <2>5, FS_Bijection
<1> HIDE DEF Old, New
<1>6. Cardinality(Old \cup New) = Cardinality(Old) + Cardinality(New) - Cardinality(Old \cap New)
  BY <1>2, <1>5, FS_Union
<1>7. Cardinality(Old \cap New) = 0
  BY <1>4, FS_EmptySet
<1>8. 2 ^ n \in Nat
  BY PowerType
<1> DEFINE p == 2 ^ n
           next == 2 ^ (n + 1)
<1>9. next = p + p - 0 /\ p \in Nat
  BY <1>2, <1>3, <1>5, <1>6, <1>7, <1>8
<1> HIDE DEF p, next
<1>10. next = 2 * p
  BY <1>9
<1> QED
  BY <1>10 DEF p, next

LEMMA PowerZero == 2 ^ 0 = 1 /\ 2 ^ 1 = 2
<1>1. 2 ^ 0 = 1
  OBVIOUS
<1>2. 2 ^ (0 + 1) = 2 * 2 ^ 0
  BY PowerNext
<1> QED
  BY <1>1, <1>2

LEMMA PowerSum == \A m, n \in Nat : 2 ^ (m + n) = 2 ^ m * 2 ^ n
<1> SUFFICES ASSUME NEW m \in Nat PROVE \A n \in Nat : 2 ^ (m + n) = 2 ^ m * 2 ^ n
  OBVIOUS
<1> DEFINE T == {n \in Nat : 2 ^ (m + n) = 2 ^ m * 2 ^ n}
<1>1. 0 \in T
  <2>1. 2 ^ m \in Nat
    BY PowerType
  <2> QED
    BY <2>1, PowerZero
<1>2. ASSUME NEW n \in T PROVE n + 1 \in T
  <2>1. 2 ^ (m + n + 1) = 2 * 2 ^ (m + n) /\ 2 ^ (n + 1) = 2 * 2 ^ n
    BY PowerNext
  <2>2. 2 ^ m \in Nat /\ 2 ^ n \in Nat
    BY PowerType
  <2>3. 2 ^ (m + n) = 2 ^ m * 2 ^ n
    OBVIOUS
  <2>4. 2 ^ (m + n + 1) = 2 ^ m * 2 ^ (n + 1)
    <3> DEFINE a == 2 ^ m
               b == 2 ^ n
    <3> HIDE DEF a, b
    <3>1. 2 * (a * b) = a * (2 * b)
      BY <2>2 DEF a, b
    <3> QED
      BY <2>1, <2>3, <3>1 DEF a, b
  <2>5. m + (n + 1) = m + n + 1
    OBVIOUS
  <2> QED
    BY <2>4, <2>5
<1> HIDE DEF T
<1>3. \A n \in Nat : n \in T
  <2>1. T \in SUBSET Nat
    BY DEF T
  <2> QED
    BY <1>1, <1>2, <2>1, Induction
<1> QED
  BY <1>3 DEF T

LEMMA PowerGrows == \A m, n \in Nat : m <= n => 2 ^ m <= 2 ^ n
<1> SUFFICES ASSUME NEW m \in Nat, NEW n \in Nat, m <= n PROVE 2 ^ m <= 2 ^ n
  OBVIOUS
<1>1. n - m \in Nat /\ m + (n - m) = n
  OBVIOUS
<1>2. 2 ^ n = 2 ^ m * 2 ^ (n - m)
  BY <1>1, PowerSum
<1>3. 2 ^ m \in Nat \ {0} /\ 2 ^ (n - m) \in Nat \ {0}
  BY <1>1, PowerType
<1> DEFINE a == 2 ^ m
           b == 2 ^ (n - m)
<1> HIDE DEF a, b
<1>4. a <= a * b
  BY <1>3 DEF a, b
<1> QED
  BY <1>2, <1>4 DEF a, b

-----------------------------------------------------------------------------
(* A loop of n turns with a step that keeps to a set.                      *)
LEMMA UpTo ==
  ASSUME NEW n \in Nat, NEW T, 0 \in T, \A k \in 0..(n - 1) : k \in T => k + 1 \in T
  PROVE  \A k \in 0..n : k \in T
<1> DEFINE U == {k \in Nat : k <= n => k \in T}
<1>1. 0 \in U
  OBVIOUS
<1>2. ASSUME NEW k \in U PROVE k + 1 \in U
  OBVIOUS
<1>3. \A k \in Nat : k \in U
  <2> HIDE DEF U
  <2>1. U \in SUBSET Nat
    BY DEF U
  <2> QED
    BY <1>1, <1>2, <2>1, Induction
<1> QED
  BY <1>3

Turns(turn, S, F, s, n) ==
  turn \in [0..n -> S] /\ turn[0] = s /\ \A k \in 1..n : turn[k] = F[turn[k - 1]]

(* The turns are a function on the naturals.                                *)
LEMMA TurnsExist ==
  ASSUME NEW S, NEW F \in [S -> S], NEW s \in S, NEW n \in Nat
  PROVE  \E turn : Turns(turn, S, F, s, n)
<1> DEFINE T == {m \in Nat : \E turn \in [0..m -> S] : turn[0] = s /\ \A k \in 1..m : turn[k] = F[turn[k - 1]]}
<1>1. 0 \in T
  <2> DEFINE turn == [k \in 0..0 |-> s]
  <2>1. turn \in [0..0 -> S] /\ turn[0] = s /\ \A k \in 1..0 : turn[k] = F[turn[k - 1]]
    OBVIOUS
  <2> QED
    BY <2>1
<1>2. ASSUME NEW m \in T PROVE m + 1 \in T
  <2>1. PICK turn \in [0..m -> S] : turn[0] = s /\ \A k \in 1..m : turn[k] = F[turn[k - 1]]
    OBVIOUS
  <2> DEFINE next == [k \in 0..(m + 1) |-> IF k = m + 1 THEN F[turn[m]] ELSE turn[k]]
  <2>2. next \in [0..(m + 1) -> S]
    OBVIOUS
  <2>3. ASSUME NEW k \in 1..(m + 1) PROVE next[k] = F[next[k - 1]]
    <3>1. CASE k = m + 1
      BY <3>1
    <3>2. CASE k # m + 1
      <4>1. k \in 1..m /\ next[k] = turn[k] /\ next[k - 1] = turn[k - 1]
        BY <3>2
      <4> QED
        BY <2>1, <4>1
    <3> QED
      BY <3>1, <3>2
  <2>4. next[0] = s
    BY <2>1
  <2> HIDE DEF next
  <2>5. \E f \in [0..(m + 1) -> S] : f[0] = s /\ \A k \in 1..(m + 1) : f[k] = F[f[k - 1]]
    BY <2>2, <2>3, <2>4
  <2> QED
    BY <2>5
<1>3. \A m \in Nat : m \in T
  <2> HIDE DEF T
  <2>1. T \in SUBSET Nat
    BY DEF T
  <2> QED
    BY <1>1, <1>2, <2>1, Induction
<1>4. PICK turn \in [0..n -> S] : turn[0] = s /\ \A k \in 1..n : turn[k] = F[turn[k - 1]]
  BY <1>3
<1> QED
  BY <1>4 DEF Turns

-----------------------------------------------------------------------------
(* Arrays, and arrays with the same elements, each as often.                *)
Array(N) == [0..(N - 1) -> Int]
Permutes(f, N, l, r) ==
  /\ \A k, m \in 0..(N - 1) : f[k] = f[m] => k = m
  /\ \A k \in 0..(N - 1) : \E m \in 0..(N - 1) : f[m] = k
  /\ \A k \in l..r : f[k] \in l..r
  /\ \A k \in 0..(N - 1) : k \notin l..r => f[k] = k
Rearranged(b, a, N, l, r) ==
  \E f \in [0..(N - 1) -> 0..(N - 1)] : Permutes(f, N, l, r) /\ \A k \in 0..(N - 1) : b[k] = a[f[k]]

LEMMA SizeIs ==
  ASSUME NEW N \in Nat \ {0}, NEW a \in Array(N)
  PROVE  DOMAIN a = 0..(N - 1) /\ Size(a) = N
<1>1. DOMAIN a = 0..(N - 1)
  BY DEF Array
<1>2. Cardinality(0..(N - 1)) = N
  <2>1. Cardinality(0..(N - 1)) = IF 0 > N - 1 THEN 0 ELSE (N - 1) - 0 + 1
    BY FS_Interval
  <2> QED
    BY <2>1
<1> QED
  BY <1>1, <1>2 DEF Size

LEMMA RearrangedSame ==
  ASSUME NEW N \in Nat, NEW a \in Array(N), NEW l \in Int, NEW r \in Int, l..r \subseteq 0..(N - 1)
  PROVE  Rearranged(a, a, N, l, r)
<1> DEFINE f == [k \in 0..(N - 1) |-> k]
<1>1. f \in [0..(N - 1) -> 0..(N - 1)] /\ \A k \in 0..(N - 1) : f[k] = k
  OBVIOUS
<1> HIDE DEF f
<1>2. Permutes(f, N, l, r)
  BY <1>1 DEF Permutes
<1>3. \A k \in 0..(N - 1) : a[k] = a[f[k]]
  BY <1>1
<1> QED
  BY <1>1, <1>2, <1>3 DEF Rearranged

LEMMA RearrangedSwap ==
  ASSUME NEW N \in Nat, NEW a \in Array(N), NEW l \in Int, NEW r \in Int, l..r \subseteq 0..(N - 1),
         NEW i \in l..r, NEW j \in l..r
  PROVE  /\ [a EXCEPT ![i] = a[j], ![j] = a[i]] \in Array(N)
         /\ Rearranged([a EXCEPT ![i] = a[j], ![j] = a[i]], a, N, l, r)
<1> DEFINE f == [k \in 0..(N - 1) |-> IF k = i THEN j ELSE IF k = j THEN i ELSE k]
           b == [a EXCEPT ![i] = a[j], ![j] = a[i]]
<1>1. f \in [0..(N - 1) -> 0..(N - 1)]
  OBVIOUS
<1>2. \A k \in 0..(N - 1) : f[k] = IF k = i THEN j ELSE IF k = j THEN i ELSE k
  OBVIOUS
<1>3. i \in 0..(N - 1) /\ j \in 0..(N - 1)
  OBVIOUS
<1>4. b \in Array(N)
  BY <1>3 DEF Array
<1>5. \A k \in 0..(N - 1) : b[k] = IF k = i THEN a[j] ELSE IF k = j THEN a[i] ELSE a[k]
  BY <1>3 DEF Array
<1> HIDE DEF f, b
<1>6. \A k \in 0..(N - 1) : b[k] = a[f[k]]
  BY <1>2, <1>3, <1>5
<1>7. Permutes(f, N, l, r)
  <2>1. \A k, m \in 0..(N - 1) : f[k] = f[m] => k = m
    BY <1>2
  <2>2. ASSUME NEW k \in 0..(N - 1) PROVE \E m \in 0..(N - 1) : f[m] = k
    <3>1. CASE k = i
      BY <1>2, <1>3, <3>1
    <3>2. CASE k = j
      BY <1>2, <1>3, <3>2
    <3>3. CASE k # i /\ k # j
      BY <1>2, <1>3, <3>3
    <3> QED
      BY <3>1, <3>2, <3>3
  <2>3. \A k \in l..r : f[k] \in l..r
    BY <1>2
  <2>4. \A k \in 0..(N - 1) : k \notin l..r => f[k] = k
    BY <1>2
  <2> QED
    BY <2>1, <2>2, <2>3, <2>4 DEF Permutes
<1>8. Rearranged(b, a, N, l, r)
  BY <1>1, <1>6, <1>7 DEF Rearranged
<1> QED
  BY <1>4, <1>8 DEF b

LEMMA RearrangedTwice ==
  ASSUME NEW N \in Nat, NEW a, NEW b, NEW c, NEW l \in Int, NEW r \in Int, l..r \subseteq 0..(N - 1),
         Rearranged(b, a, N, l, r), Rearranged(c, b, N, l, r)
  PROVE  Rearranged(c, a, N, l, r)
<1> DEFINE D == 0..(N - 1)
<1>1. PICK f \in [D -> D] : Permutes(f, N, l, r) /\ \A k \in D : b[k] = a[f[k]]
  BY DEF Rearranged
<1>2. PICK g \in [D -> D] : Permutes(g, N, l, r) /\ \A k \in D : c[k] = b[g[k]]
  BY DEF Rearranged
<1> DEFINE h == [k \in D |-> f[g[k]]]
<1>3. h \in [D -> D] /\ \A k \in D : h[k] = f[g[k]]
  OBVIOUS
<1> HIDE DEF h
<1>4. \A k \in D : c[k] = a[h[k]]
  BY <1>1, <1>2, <1>3
<1>5. Permutes(h, N, l, r)
  <2>1. /\ \A k, m \in D : f[k] = f[m] => k = m
        /\ \A k \in D : \E m \in D : f[m] = k
        /\ \A k \in l..r : f[k] \in l..r
        /\ \A k \in D : k \notin l..r => f[k] = k
    BY <1>1 DEF Permutes
  <2>2. /\ \A k, m \in D : g[k] = g[m] => k = m
        /\ \A k \in D : \E m \in D : g[m] = k
        /\ \A k \in l..r : g[k] \in l..r
        /\ \A k \in D : k \notin l..r => g[k] = k
    BY <1>2 DEF Permutes
  <2> DEFINE L == l..r
  <2>3. \A k \in L : k \in D
    OBVIOUS
  <2> HIDE DEF D, L
  <2>4. \A k, m \in D : h[k] = h[m] => k = m
    BY <1>3, <2>1, <2>2
  <2>5. \A k \in D : \E m \in D : h[m] = k
    BY <1>3, <2>1, <2>2
  <2>6. \A k \in L : h[k] \in L
    BY <1>3, <2>1, <2>2, <2>3 DEF L
  <2>7. \A k \in D : k \notin L => h[k] = k
    BY <1>3, <2>1, <2>2 DEF L
  <2> QED
    BY <2>4, <2>5, <2>6, <2>7 DEF Permutes, D, L
<1> QED
  BY <1>3, <1>4, <1>5 DEF Rearranged

LEMMA RearrangedWider ==
  ASSUME NEW N \in Nat, NEW a, NEW b, NEW l \in Int, NEW r \in Int, l..r \subseteq 0..(N - 1),
         Rearranged(b, a, N, l, r)
  PROVE  Rearranged(b, a, N, 0, N - 1)
<1>1. PICK f \in [0..(N - 1) -> 0..(N - 1)] : Permutes(f, N, l, r) /\ \A k \in 0..(N - 1) : b[k] = a[f[k]]
  BY DEF Rearranged
<1>2. Permutes(f, N, 0, N - 1)
  BY <1>1 DEF Permutes
<1> QED
  BY <1>1, <1>2 DEF Rearranged

(* As many elements of every value, which is what the run compares.         *)
LEMMA RearrangedCount ==
  ASSUME NEW N \in Nat \ {0}, NEW a \in Array(N), NEW b \in Array(N), Rearranged(b, a, N, 0, N - 1), NEW v
  PROVE  Count(b, v) = Count(a, v)
<1> DEFINE D == 0..(N - 1)
           A == {k \in D : a[k] = v}
           B == {k \in D : b[k] = v}
<1>1. PICK f \in [D -> D] : Permutes(f, N, 0, N - 1) /\ \A k \in D : b[k] = a[f[k]]
  BY DEF Rearranged
<1>2. DOMAIN a = D /\ DOMAIN b = D
  BY SizeIs
<1>3. IsFiniteSet(D)
  BY FS_Interval
<1> DEFINE g == [k \in B |-> f[k]]
<1> HIDE DEF D
<1>4. g \in [B -> A]
  BY <1>1
<1>5. \A k, m \in B : g[k] = g[m] => k = m
  BY <1>1 DEF Permutes, D
<1>6. \A k \in A : \E m \in B : g[m] = k
  <2> SUFFICES ASSUME NEW k \in A PROVE \E m \in B : g[m] = k
    OBVIOUS
  <2>1. PICK m \in D : f[m] = k
    BY <1>1 DEF Permutes, D
  <2>2. m \in B /\ g[m] = k
    BY <1>1, <2>1
  <2> QED
    BY <2>2
<1>7. IsFiniteSet(B)
  <2>1. B \subseteq D
    OBVIOUS
  <2> QED
    BY <1>3, <2>1, FS_Subset
<1> HIDE DEF g, A, B
<1>8. g \in Bijection(B, A)
  BY <1>4, <1>5, <1>6 DEF Bijection, Injection, Surjection, IsInjective
<1>9. Cardinality(A) = Cardinality(B)
  BY <1>7, <1>8, FS_Bijection DEF ExistsBijection
<1> QED
  BY <1>2, <1>9 DEF Count, A, B

-----------------------------------------------------------------------------
(* Where the loops over compar() stop.                                      *)
LEMMA UpIs ==
  ASSUME NEW N \in Nat \ {0}, NEW a \in Array(N), NEW i \in 0..(N - 1), NEW x \in Int,
         NEW s \in i..(N - 1), x <= a[s]
  PROVE  /\ Up(a, i, x) \in i..s
         /\ x <= a[Up(a, i, x)]
         /\ \A m \in i..(Up(a, i, x) - 1) : a[m] <= x
<1> DEFINE T == {k \in i..(N - 1) : x <= a[k]}
           Stop(k) == (\A m \in i..(k - 1) : a[m] < x) /\ (k \in DOMAIN a => ~(a[k] < x))
           u == Up(a, i, x)
<1>1. DOMAIN a = 0..(N - 1) /\ Size(a) = N
  BY SizeIs
<1>2. \A k \in 0..(N - 1) : a[k] \in Int
  BY DEF Array
<1>3. PICK k \in T : \A m \in T : k <= m
  <2>1. T \in SUBSET Nat /\ s \in T
    OBVIOUS
  <2> HIDE DEF T
  <2> QED
    BY <2>1, LeastExists
<1>4. k \in i..N /\ Stop(k)
  <2>1. ASSUME NEW m \in i..(k - 1) PROVE a[m] < x
    <3>1. m \notin T /\ m \in i..(N - 1)
      BY <1>3
    <3>2. ~(x <= a[m])
      BY <3>1
    <3> QED
      BY <1>2, <3>1, <3>2
  <2>2. ~(a[k] < x)
    BY <1>2, <1>3
  <2> QED
    BY <1>3, <2>1, <2>2
<1>5. u \in i..N /\ Stop(u)
  <2>1. u = CHOOSE m \in i..N : Stop(m)
    BY <1>1 DEF Up
  <2> HIDE DEF u, Stop
  <2> QED
    BY <1>4, <2>1
<1> HIDE DEF u
<1>6. u <= s
  <2>1. SUFFICES ASSUME s < u PROVE FALSE
    BY <1>5
  <2>2. a[s] < x
    BY <1>5, <2>1
  <2> QED
    BY <1>2, <2>2
<1>7. u \in 0..(N - 1) /\ ~(a[u] < x)
  BY <1>1, <1>5, <1>6
<1>8. \A m \in i..(u - 1) : a[m] <= x
  BY <1>2, <1>5
<1> QED
  BY <1>2, <1>5, <1>6, <1>7, <1>8 DEF u

LEMMA DownIs ==
  ASSUME NEW N \in Nat \ {0}, NEW a \in Array(N), NEW j \in 0..(N - 1), NEW x \in Int,
         NEW s \in 0..j, a[s] <= x
  PROVE  /\ Down(a, j, x) \in s..j
         /\ a[Down(a, j, x)] <= x
         /\ \A m \in (Down(a, j, x) + 1)..j : x <= a[m]
<1> DEFINE T == {k \in 0..j : a[k] <= x}
           Stop(k) == (\A m \in (k + 1)..j : x < a[m]) /\ (k \in DOMAIN a => ~(x < a[k]))
           u == Down(a, j, x)
<1>1. DOMAIN a = 0..(N - 1) /\ Size(a) = N
  BY SizeIs
<1>2. \A k \in 0..(N - 1) : a[k] \in Int
  BY DEF Array
<1>3. PICK k \in T : \A m \in T : k >= m
  <2>1. T \in SUBSET (0..j) /\ s \in T /\ j \in Nat
    OBVIOUS
  <2> HIDE DEF T
  <2> QED
    BY <2>1, GreatestExists
<1>4. k \in -1..j /\ Stop(k)
  <2>1. ASSUME NEW m \in (k + 1)..j PROVE x < a[m]
    <3>1. m \notin T /\ m \in 0..j
      BY <1>3
    <3>2. ~(a[m] <= x)
      BY <3>1
    <3> QED
      BY <1>2, <3>1, <3>2
  <2>2. ~(x < a[k])
    BY <1>2, <1>3
  <2> QED
    BY <1>3, <2>1, <2>2
<1>5. u \in -1..j /\ Stop(u)
  <2>1. u = CHOOSE m \in -1..j : Stop(m)
    BY DEF Down
  <2> HIDE DEF u, Stop
  <2> QED
    BY <1>4, <2>1
<1> HIDE DEF u
<1>6. u >= s
  <2>1. SUFFICES ASSUME s > u PROVE FALSE
    BY <1>5
  <2>2. x < a[s]
    BY <1>5, <2>1
  <2> QED
    BY <1>2, <2>2
<1>7. u \in 0..(N - 1) /\ ~(x < a[u])
  BY <1>1, <1>5, <1>6
<1>8. \A m \in (u + 1)..j : x <= a[m]
  BY <1>2, <1>5
<1> QED
  BY <1>2, <1>5, <1>6, <1>7, <1>8 DEF u

-----------------------------------------------------------------------------
(* A part l..r while it is divided: what is left of i and right of j is on  *)
(* its side, and there is something to stop either loop.                    *)
Bounded(a, i, j, l, r, x) ==
  /\ i \in l..(r + 1) /\ j \in (l - 1)..r
  /\ \A m \in l..(i - 1) : a[m] <= x
  /\ \A m \in (j + 1)..r : x <= a[m]
Stops(a, i, j, l, r, x) ==
  i <= j => (\E m \in i..r : x <= a[m]) /\ (\E m \in l..j : a[m] <= x)
Begun(a, i, j, l, r, x) ==
  \/ i = l /\ j = r /\ a[(l + r) \div 2] = x
  \/ i > l /\ j < r
Dividing(p, a, N, l, r, x) ==
  /\ p \in [a : Array(N), i : Int, j : Int, x : {x}, wild : {FALSE}]
  /\ Rearranged(p.a, a, N, l, r)
  /\ Bounded(p.a, p.i, p.j, l, r, x)
  /\ Stops(p.a, p.i, p.j, l, r, x)
  /\ Begun(p.a, p.i, p.j, l, r, x)

(* The element in the middle, with which the others are compared.           *)
LEMMA MiddleInside ==
  ASSUME NEW l \in Nat, NEW r \in Nat, l <= r
  PROVE  (l + r) \div 2 \in l..r
OBVIOUS

(* One exchange of two elements that stand on the wrong side.               *)
LEMMA Exchanged ==
  ASSUME NEW N \in Nat \ {0}, NEW l \in 0..(N - 1), NEW r \in l..(N - 1), NEW x \in Int, NEW a0,
         NEW a \in Array(N), NEW i \in Int, NEW j \in Int, i <= j,
         Rearranged(a, a0, N, l, r), Bounded(a, i, j, l, r, x), Stops(a, i, j, l, r, x), Begun(a, i, j, l, r, x)
  PROVE  LET u == Up(a, i, x)
             d == Down(a, j, x)
             b == [a EXCEPT ![u] = a[d], ![d] = a[u]] IN
         /\ u \in i..r /\ d \in l..j
         /\ u <= d => /\ b \in Array(N) /\ Rearranged(b, a0, N, l, r)
                      /\ Bounded(b, u + 1, d - 1, l, r, x)
                      /\ Stops(b, u + 1, d - 1, l, r, x)
                      /\ Begun(b, u + 1, d - 1, l, r, x)
         /\ u > d => /\ Bounded(a, u, d, l, r, x)
                     /\ Stops(a, u, d, l, r, x)
                     /\ Begun(a, u, d, l, r, x)
<1> DEFINE u == Up(a, i, x)
           d == Down(a, j, x)
           b == [a EXCEPT ![u] = a[d], ![d] = a[u]]
<1>1. i \in l..r /\ j \in l..r /\ i \in 0..(N - 1) /\ j \in 0..(N - 1)
  BY DEF Bounded
<1>2. PICK s \in i..r : x <= a[s]
  BY DEF Stops
<1>3. PICK t \in l..j : a[t] <= x
  BY DEF Stops
<1>4. u \in i..s /\ x <= a[u] /\ \A m \in i..(u - 1) : a[m] <= x
  <2>1. s \in i..(N - 1)
    BY <1>1, <1>2
  <2> QED
    BY <1>1, <1>2, <2>1, UpIs
<1>5. d \in t..j /\ a[d] <= x /\ \A m \in (d + 1)..j : x <= a[m]
  <2>1. t \in 0..j
    BY <1>1, <1>3
  <2> QED
    BY <1>1, <1>3, <2>1, DownIs
<1>6. u \in i..r /\ d \in l..j /\ u \in l..r /\ d \in l..r
  BY <1>1, <1>2, <1>3, <1>4, <1>5
<1>7. /\ \A m \in l..(u - 1) : a[m] <= x
      /\ \A m \in (d + 1)..r : x <= a[m]
  <2>1. ASSUME NEW m \in l..(u - 1) PROVE a[m] <= x
    <3>1. m \in l..(i - 1) \/ m \in i..(u - 1)
      BY <1>1, <1>6
    <3> QED
      BY <1>4, <3>1 DEF Bounded
  <2>2. ASSUME NEW m \in (d + 1)..r PROVE x <= a[m]
    <3>1. m \in (j + 1)..r \/ m \in (d + 1)..j
      BY <1>1, <1>6
    <3> QED
      BY <1>5, <3>1 DEF Bounded
  <2> QED
    BY <2>1, <2>2
<1>8. CASE u <= d
  <2>1. b \in Array(N) /\ Rearranged(b, a, N, l, r)
    <3>1. l \in Int /\ r \in Int /\ l..r \subseteq 0..(N - 1)
      OBVIOUS
    <3> HIDE DEF u, d
    <3> QED
      BY <1>6, <3>1, RearrangedSwap
  <2>2. Rearranged(b, a0, N, l, r)
    <3>1. l \in Int /\ r \in Int /\ l..r \subseteq 0..(N - 1)
      OBVIOUS
    <3> HIDE DEF b
    <3> QED
      BY <2>1, <3>1, RearrangedTwice
  <2>3. \A m \in 0..(N - 1) : b[m] = IF m = d THEN a[u] ELSE IF m = u THEN a[d] ELSE a[m]
    BY <1>6 DEF Array
  <2>4. u \in 0..(N - 1) /\ d \in 0..(N - 1)
    BY <1>6
  <2> HIDE DEF u, d, b
  <2>5. \A m \in l..u : b[m] <= x
    <3> SUFFICES ASSUME NEW m \in l..u PROVE b[m] <= x
      OBVIOUS
    <3>1. CASE m = u
      <4>1. b[m] = a[d]
        <5>1. CASE u = d
          BY <2>3, <2>4, <3>1, <5>1
        <5>2. CASE u # d
          BY <2>3, <2>4, <3>1, <5>2
        <5> QED
          BY <5>1, <5>2
      <4> QED
        BY <1>5, <4>1
    <3>2. CASE m # u
      <4>1. m \in l..(u - 1) /\ m \in 0..(N - 1) /\ m # d
        BY <1>8, <1>6, <3>2
      <4> QED
        BY <1>7, <2>3, <3>2, <4>1
    <3> QED
      BY <3>1, <3>2
  <2>6. \A m \in d..r : x <= b[m]
    <3> SUFFICES ASSUME NEW m \in d..r PROVE x <= b[m]
      OBVIOUS
    <3>1. CASE m = d
      BY <1>4, <2>3, <2>4, <3>1
    <3>2. CASE m # d
      <4>1. m \in (d + 1)..r /\ m \in 0..(N - 1) /\ m # u
        BY <1>8, <1>6, <3>2
      <4> QED
        BY <1>7, <2>3, <3>2, <4>1
    <3> QED
      BY <3>1, <3>2
  <2>7. Bounded(b, u + 1, d - 1, l, r, x)
    <3>1. (u + 1) - 1 = u /\ (d - 1) + 1 = d /\ u + 1 \in l..(r + 1) /\ d - 1 \in (l - 1)..r
      BY <1>6
    <3> QED
      BY <2>5, <2>6, <3>1 DEF Bounded
  <2>8. Stops(b, u + 1, d - 1, l, r, x)
    <3> SUFFICES ASSUME u + 1 <= d - 1
                 PROVE  (\E m \in (u + 1)..r : x <= b[m]) /\ (\E m \in l..(d - 1) : b[m] <= x)
      BY DEF Stops
    <3>1. d \in (u + 1)..r /\ u \in l..(d - 1) /\ d \in d..r /\ u \in l..u
      BY <1>6
    <3> QED
      BY <2>5, <2>6, <3>1
  <2>9. Begun(b, u + 1, d - 1, l, r, x)
    BY <1>6, <1>1 DEF Begun
  <2> QED
    BY <1>6, <1>8, <2>1, <2>2, <2>7, <2>8, <2>9 DEF u, d, b
<1>9. CASE u > d
  <2> HIDE DEF u, d, b
  <2>1. Bounded(a, u, d, l, r, x)
    BY <1>6, <1>7 DEF Bounded
  <2>2. Stops(a, u, d, l, r, x)
    BY <1>6, <1>9 DEF Stops
  <2>3. Begun(a, u, d, l, r, x)
    <3>1. CASE i > l /\ j < r
      BY <1>1, <1>6, <3>1 DEF Begun
    <3>2. CASE i = l /\ j = r /\ a[(l + r) \div 2] = x
      <4> DEFINE m == (l + r) \div 2
      <4>1. m \in l..r
        BY MiddleInside
      <4> HIDE DEF m
      <4>2. a[m] = x
        BY <3>2 DEF m
      <4>3. u <= m /\ d >= m
        <5>1. m \in 0..(N - 1) /\ m \in i..(N - 1) /\ m \in 0..j /\ x <= a[m] /\ a[m] <= x
          BY <3>2, <4>1, <4>2
        <5>2. u \in i..m
          BY <1>1, <5>1, UpIs DEF u
        <5>3. d \in m..j
          BY <1>1, <5>1, DownIs DEF d
        <5> QED
          BY <5>1, <5>2, <5>3
      <4>4. u \in Int /\ d \in Int /\ m \in Int
        BY <1>6, <4>1
      <4> QED
        BY <1>9, <4>3, <4>4
    <3> QED
      BY <3>1, <3>2 DEF Begun
  <2> QED
    BY <1>6, <1>9, <2>1, <2>2, <2>3 DEF u, d, b
<1>10. u \in Int /\ d \in Int
  BY <1>6
<1> QED
  BY <1>8, <1>9, <1>10

-----------------------------------------------------------------------------
(* Elements exchanged keep the others, and the order found so far.          *)
LEMMA Replaced ==
  ASSUME NEW A, NEW X, NEW W, NEW p \in [a : A, i : Int, j : Int, x : X, wild : W],
         NEW b \in A, NEW u \in Int, NEW d \in Int
  PROVE  [p EXCEPT !.a = b, !.i = u, !.j = d] \in [a : A, i : Int, j : Int, x : X, wild : W]
OBVIOUS

LEMMA ExchangeKeeps ==
  ASSUME NEW N \in Nat \ {0}, NEW l \in 0..(N - 1), NEW r \in l..(N - 1), NEW x \in Int, NEW a0,
         NEW p, Dividing(p, a0, N, l, r, x)
  PROVE  /\ Dividing(Exchange(p), a0, N, l, r, x)
         /\ p.i > p.j => Exchange(p) = p
         /\ p.i <= p.j => \/ Exchange(p).i > Exchange(p).j
                          \/ Exchange(p).j - Exchange(p).i <= p.j - p.i - 2
<1> DEFINE u == Up(p.a, p.i, p.x)
           d == Down(p.a, p.j, p.x)
           b == [p.a EXCEPT ![u] = p.a[d], ![d] = p.a[u]]
<1>1. p \in [a : Array(N), i : Int, j : Int, x : {x}, wild : {FALSE}]
  BY DEF Dividing
<1>2. p.a \in Array(N) /\ p.i \in Int /\ p.j \in Int /\ p.x = x /\ p.wild = FALSE
  BY <1>1
<1>3. CASE p.i > p.j
  <2>1. Exchange(p) = p
    BY <1>3 DEF Exchange
  <2> QED
    BY <1>2, <1>3, <2>1
<1>4. CASE p.i <= p.j
  <2>1. /\ u \in p.i..r /\ d \in l..p.j
        /\ u <= d => /\ b \in Array(N) /\ Rearranged(b, a0, N, l, r)
                     /\ Bounded(b, u + 1, d - 1, l, r, x)
                     /\ Stops(b, u + 1, d - 1, l, r, x)
                     /\ Begun(b, u + 1, d - 1, l, r, x)
        /\ u > d => /\ Bounded(p.a, u, d, l, r, x)
                    /\ Stops(p.a, u, d, l, r, x)
                    /\ Begun(p.a, u, d, l, r, x)
    BY <1>2, <1>4, Exchanged DEF Dividing
  <2>2. p.i \in l..r /\ p.j \in l..r
    BY <1>4 DEF Dividing, Bounded
  <2>3. {u, d} \cap {-1, Size(p.a)} = {}
    <3>1. Size(p.a) = N
      BY <1>2, SizeIs
    <3>2. u \in 0..(N - 1) /\ d \in 0..(N - 1)
      BY <2>1, <2>2
    <3> QED
      BY <3>1, <3>2
  <2>4. Exchange(p) = IF u <= d
                      THEN [p EXCEPT !.a = b, !.i = u + 1, !.j = d - 1]
                      ELSE [p EXCEPT !.i = u, !.j = d]
    BY <1>2, <1>4, <2>3 DEF Exchange
  <2>5. u \in Int /\ d \in Int
    BY <2>1, <2>2
  <2> HIDE DEF u, d, b
  <2>6. CASE u <= d
    <3> DEFINE q == [p EXCEPT !.a = b, !.i = u + 1, !.j = d - 1]
    <3>1. q \in [a : Array(N), i : Int, j : Int, x : {x}, wild : {FALSE}]
      <4>1. u + 1 \in Int /\ d - 1 \in Int /\ b \in Array(N)
        BY <2>1, <2>5, <2>6
      <4> QED
        BY <1>1, <4>1, Replaced, Zenon
    <3>2. q.a = b /\ q.i = u + 1 /\ q.j = d - 1
      BY <1>1
    <3>3. Exchange(p) = q
      BY <2>4, <2>6
    <3> HIDE DEF q
    <3>4. Dividing(q, a0, N, l, r, x)
      BY <2>1, <2>6, <3>1, <3>2 DEF Dividing
    <3>5. q.j - q.i <= p.j - p.i - 2
      BY <1>2, <2>1, <2>5, <3>2
    <3> QED
      BY <1>2, <1>4, <3>3, <3>4, <3>5
  <2>7. CASE u > d
    <3> DEFINE q == [p EXCEPT !.i = u, !.j = d]
    <3>1. q \in [a : Array(N), i : Int, j : Int, x : {x}, wild : {FALSE}]
      BY <1>1, <2>5
    <3>2. q.a = p.a /\ q.i = u /\ q.j = d
      BY <1>1
    <3>3. Exchange(p) = q
      BY <2>4, <2>5, <2>7
    <3> HIDE DEF q
    <3>4. Dividing(q, a0, N, l, r, x)
      BY <2>1, <2>7, <3>1, <3>2 DEF Dividing
    <3> QED
      BY <1>2, <1>4, <2>7, <3>2, <3>3, <3>4
  <2> QED
    BY <2>5, <2>6, <2>7
<1> QED
  BY <1>2, <1>3, <1>4

(* A part divided: two parts, neither of them all of it, with nothing on    *)
(* the left greater than what is on the right.                              *)
Divided(p, a, N, l, r) ==
  /\ p.a \in Array(N) /\ p.i \in Int /\ p.j \in Int /\ p.wild = FALSE
  /\ Rearranged(p.a, a, N, l, r)
  /\ p.j < p.i /\ p.i \in (l + 1)..(r + 1) /\ p.j \in (l - 1)..(r - 1)
  /\ \E x \in Int : /\ \A m \in l..(p.i - 1) : p.a[m] <= x
                    /\ \A m \in (p.j + 1)..r : x <= p.a[m]

LEMMA PartitionIs ==
  ASSUME NEW N \in Nat \ {0}, NEW a \in Array(N), NEW l \in 0..(N - 1), NEW r \in l..(N - 1)
  PROVE  Divided(Partition(a, l, r), a, N, l, r)
<1> DEFINE x == a[(l + r) \div 2]
           S == {p \in [a : Array(N), i : Int, j : Int, x : {x}, wild : {FALSE}] : Dividing(p, a, N, l, r, x)}
           F == [p \in S |-> Exchange(p)]
           s0 == [a |-> a, i |-> l, j |-> r, x |-> x, wild |-> FALSE]
           turns == CHOOSE turn : turn = [k \in 0..N |-> IF k = 0 THEN s0 ELSE Exchange(turn[k - 1])]
<1>1. Size(a) = N
  BY SizeIs
<1>2. (l + r) \div 2 \in l..r
  BY MiddleInside
<1>3. x \in Int
  BY <1>2 DEF Array
<1>4. Partition(a, l, r) = turns[N]
  BY <1>1 DEF Partition, Iterate
<1>5. Dividing(s0, a, N, l, r, x)
  <2>1. s0 \in [a : Array(N), i : Int, j : Int, x : {x}, wild : {FALSE}]
    OBVIOUS
  <2>2. s0.a = a /\ s0.i = l /\ s0.j = r
    OBVIOUS
  <2>3. Rearranged(a, a, N, l, r)
    <3>1. N \in Nat /\ l \in Int /\ r \in Int /\ l..r \subseteq 0..(N - 1)
      OBVIOUS
    <3> QED
      BY <3>1, RearrangedSame
  <2> DEFINE m == (l + r) \div 2
  <2>4. a[m] = x /\ m \in l..r
    BY <1>2
  <2>5. Begun(a, l, r, l, r, x)
    BY DEF Begun
  <2> HIDE DEF m, x, s0
  <2>6. Bounded(a, l, r, l, r, x)
    BY DEF Bounded
  <2>7. Stops(a, l, r, l, r, x)
    <3>1. x <= a[m] /\ a[m] <= x
      BY <1>3, <2>4
    <3> QED
      BY <2>4, <3>1 DEF Stops
  <2> QED
    BY <2>1, <2>2, <2>3, <2>5, <2>6, <2>7 DEF Dividing
<1>6. s0 \in S
  BY <1>5
<1> HIDE DEF s0, x
<1>7. \A p \in S : p \in [a : Array(N), i : Int, j : Int, x : {x}, wild : {FALSE}] /\ Dividing(p, a, N, l, r, x)
  OBVIOUS
<1>8. ASSUME NEW p \in S
      PROVE  /\ Exchange(p) \in S
             /\ p.i > p.j => Exchange(p) = p
             /\ p.i <= p.j => \/ Exchange(p).i > Exchange(p).j
                              \/ Exchange(p).j - Exchange(p).i <= p.j - p.i - 2
  <2>1. Dividing(p, a, N, l, r, x)
    OBVIOUS
  <2>2. /\ Dividing(Exchange(p), a, N, l, r, x)
        /\ p.i > p.j => Exchange(p) = p
        /\ p.i <= p.j => \/ Exchange(p).i > Exchange(p).j
                         \/ Exchange(p).j - Exchange(p).i <= p.j - p.i - 2
    BY <1>3, <2>1, ExchangeKeeps
  <2>3. Exchange(p) \in [a : Array(N), i : Int, j : Int, x : {x}, wild : {FALSE}]
    BY <2>2 DEF Dividing
  <2> QED
    BY <2>2, <2>3
<1> HIDE DEF S
<1>9. F \in [S -> S]
  BY <1>8
<1>10. PICK turn : Turns(turn, S, F, s0, N)
  BY <1>6, <1>9, TurnsExist
<1>11. turn \in [0..N -> S] /\ turn[0] = s0
  BY <1>10 DEF Turns
<1>12. \A k \in 1..N : turn[k] = Exchange(turn[k - 1])
  <2> SUFFICES ASSUME NEW k \in 1..N PROVE turn[k] = Exchange(turn[k - 1])
    OBVIOUS
  <2>1. turn[k] = F[turn[k - 1]]
    BY <1>10 DEF Turns
  <2>2. k - 1 \in 0..N
    OBVIOUS
  <2> QED
    BY <1>11, <2>1, <2>2
<1>13. turn = [k \in 0..N |-> IF k = 0 THEN s0 ELSE Exchange(turn[k - 1])]
  <2>1. \A k \in 0..N : turn[k] = IF k = 0 THEN s0 ELSE Exchange(turn[k - 1])
    BY <1>11, <1>12
  <2> QED
    BY <1>11, <2>1
<1>14. turns = [k \in 0..N |-> IF k = 0 THEN s0 ELSE Exchange(turns[k - 1])]
  BY <1>13
<1> HIDE DEF turns
<1> DEFINE T == {k \in 0..N : /\ turns[k] \in S
                              /\ turns[k].i > turns[k].j \/ turns[k].j - turns[k].i <= N - 1 - k}
<1>15. 0 \in T
  <2>1. turns[0] = s0
    BY <1>14
  <2>2. s0.i = l /\ s0.j = r
    BY DEF s0
  <2> QED
    BY <1>6, <2>1, <2>2
<1>16. ASSUME NEW k \in 0..(N - 1), k \in T PROVE k + 1 \in T
  <2>1. turns[k + 1] = Exchange(turns[k])
    BY <1>14
  <2>2. turns[k] \in S /\ turns[k + 1] \in S
    BY <1>8, <1>16, <2>1
  <2>3. turns[k].i \in Int /\ turns[k].j \in Int /\ turns[k + 1].i \in Int /\ turns[k + 1].j \in Int
    BY <1>7, <2>2
  <2>4. turns[k].i > turns[k].j \/ turns[k].j - turns[k].i <= N - 1 - k
    BY <1>16
  <2>5. turns[k + 1].i > turns[k + 1].j \/ turns[k + 1].j - turns[k + 1].i <= N - 1 - (k + 1)
    <3>1. CASE turns[k].i > turns[k].j
      BY <1>8, <2>1, <2>2, <3>1
    <3>2. CASE turns[k].i <= turns[k].j
      <4>1. \/ turns[k + 1].i > turns[k + 1].j
            \/ turns[k + 1].j - turns[k + 1].i <= turns[k].j - turns[k].i - 2
        BY <1>8, <2>1, <2>2, <3>2
      <4> QED
        BY <2>3, <2>4, <3>2, <4>1
    <3> QED
      BY <2>3, <3>1, <3>2
  <2> QED
    BY <2>2, <2>5
<1>17. \A k \in 0..N : k \in T
  <2> HIDE DEF T
  <2> QED
    BY <1>15, <1>16, UpTo
<1> DEFINE p == turns[N]
<1>18. p \in S /\ (p.i > p.j \/ p.j - p.i <= N - 1 - N)
  BY <1>17
<1> HIDE DEF p
<1>19. p \in [a : Array(N), i : Int, j : Int, x : {x}, wild : {FALSE}] /\ Dividing(p, a, N, l, r, x)
  BY <1>7, <1>18
<1>20. p.a \in Array(N) /\ p.i \in Int /\ p.j \in Int /\ p.wild = FALSE
  BY <1>19
<1>21. p.i > p.j
  BY <1>18, <1>20
<1>22. Rearranged(p.a, a, N, l, r) /\ Bounded(p.a, p.i, p.j, l, r, x) /\ Begun(p.a, p.i, p.j, l, r, x)
  BY <1>19 DEF Dividing
<1>23. p.i > l /\ p.j < r
  BY <1>20, <1>21, <1>22 DEF Begun
<1>24. p.i \in (l + 1)..(r + 1) /\ p.j \in (l - 1)..(r - 1)
  BY <1>20, <1>22, <1>23 DEF Bounded
<1>25. /\ \A m \in l..(p.i - 1) : p.a[m] <= x
       /\ \A m \in (p.j + 1)..r : x <= p.a[m]
  BY <1>22 DEF Bounded
<1>26. Divided(p, a, N, l, r)
  BY <1>3, <1>20, <1>21, <1>22, <1>24, <1>25 DEF Divided
<1> QED
  BY <1>4, <1>26 DEF p

-----------------------------------------------------------------------------
(* The stack of parts: a part of one element is not pushed.                 *)
Parts(N) == {q \in (0..(N - 1)) \X (0..(N - 1)) : q[1] <= q[2]}
Strict(N) == {q \in Parts(N) : q[1] < q[2]}

LEMMA PushedIs ==
  ASSUME NEW P, NEW st \in Seq(P), NEW q, q[1] < q[2] => q \in P
  PROVE  /\ Pushed(st, q) \in Seq(P)
         /\ q[1] < q[2] => Len(Pushed(st, q)) = Len(st) + 1 /\ Pushed(st, q)[Len(st) + 1] = q
         /\ ~(q[1] < q[2]) => Pushed(st, q) = st
         /\ Len(Pushed(st, q)) \in Len(st)..(Len(st) + 1)
         /\ \A e \in 1..Len(st) : Pushed(st, q)[e] = st[e]
<1>1. CASE q[1] < q[2]
  BY <1>1 DEF Pushed
<1>2. CASE ~(q[1] < q[2])
  BY <1>2 DEF Pushed
<1> QED
  BY <1>1, <1>2

LEMMA FrontLast ==
  ASSUME NEW P, NEW st \in Seq(P), st # <<>>
  PROVE  Front(st) \in Seq(P) /\ Last(st) \in P /\ Append(Front(st), Last(st)) = st
<1>1. Len(st) \in Nat \ {0}
  OBVIOUS
<1>2. Last(st) = st[Len(st)] /\ Last(st) \in P
  BY <1>1 DEF Last
<1>3. Front(st) = SubSeq(st, 1, Len(st) - 1)
  BY DEF Front
<1>4. Front(st) \in Seq(P) /\ Len(Front(st)) = Len(st) - 1 /\ \A e \in 1..(Len(st) - 1) : Front(st)[e] = st[e]
  <2> DEFINE m == Len(st) - 1
  <2>1. m \in Nat /\ m <= Len(st)
    BY <1>1
  <2>2. m \in 0..Len(st)
    BY <2>1
  <2> HIDE DEF m
  <2>3. /\ SubSeq(st, 1, m) \in Seq(P) /\ Len(SubSeq(st, 1, m)) = m
        /\ \A e \in 1..m : SubSeq(st, 1, m)[e] = st[e]
    BY <2>1, <2>2
  <2> QED
    BY <1>3, <2>3 DEF m
<1>5. Append(Front(st), Last(st)) = st
  <2> DEFINE t == Append(Front(st), Last(st))
  <2>1. t \in Seq(P) /\ Len(t) = Len(st)
    BY <1>1, <1>2, <1>4
  <2>2. \A e \in 1..Len(st) : t[e] = st[e]
    BY <1>1, <1>2, <1>4
  <2> HIDE DEF t
  <2>3. t = st
    BY <2>1, <2>2
  <2> QED
    BY <2>3 DEF t
<1> QED
  BY <1>2, <1>4, <1>5

(* Q2 has B and C, where they are parts at all, in the place of the n-th    *)
(* part of Q, its last.                                                     *)
Placed(Q2, Q, n, B, C) ==
  /\ Len(Q2) \in (n - 1)..(n + 1)
  /\ \A e \in 1..(n - 1) : Q2[e] = Q[e]
  /\ \A e \in n..Len(Q2) : Q2[e] \in {B, C} /\ Q2[e][1] < Q2[e][2]
  /\ Len(Q2) = n + 1 => Q2[n] = B /\ Q2[n + 1] = C
  /\ B[1] < B[2] => n \in 1..Len(Q2) /\ Q2[n] = B
  /\ C[1] < C[2] => \E e \in n..Len(Q2) : Q2[e] = C

LEMMA PushedTwice ==
  ASSUME NEW P, NEW st \in Seq(P), NEW part, NEW B, NEW C, B[1] < B[2] => B \in P, C[1] < C[2] => C \in P,
         \A e \in 1..Len(st) : Append(st, part)[e] = st[e]
  PROVE  /\ Pushed(Pushed(st, B), C) \in Seq(P)
         /\ Placed(Pushed(Pushed(st, B), C), Append(st, part), Len(st) + 1, B, C)
<1> DEFINE st1 == Pushed(st, B)
           Q2 == Pushed(st1, C)
           Q == Append(st, part)
           n == Len(st) + 1
<1>1. /\ st1 \in Seq(P)
      /\ B[1] < B[2] => Len(st1) = n /\ st1[n] = B
      /\ ~(B[1] < B[2]) => st1 = st
      /\ Len(st1) \in Len(st)..(Len(st) + 1)
      /\ \A e \in 1..Len(st) : st1[e] = st[e]
  BY PushedIs
<1> HIDE DEF st1
<1>2. /\ Q2 \in Seq(P)
      /\ C[1] < C[2] => Len(Q2) = Len(st1) + 1 /\ Q2[Len(st1) + 1] = C
      /\ ~(C[1] < C[2]) => Q2 = st1
      /\ Len(Q2) \in Len(st1)..(Len(st1) + 1)
      /\ \A e \in 1..Len(st1) : Q2[e] = st1[e]
  <2>1. st1 \in Seq(P) /\ (C[1] < C[2] => C \in P)
    BY <1>1
  <2> HIDE <1>1
  <2>2. /\ Pushed(st1, C) \in Seq(P)
        /\ C[1] < C[2] => Len(Pushed(st1, C)) = Len(st1) + 1 /\ Pushed(st1, C)[Len(st1) + 1] = C
        /\ ~(C[1] < C[2]) => Pushed(st1, C) = st1
        /\ Len(Pushed(st1, C)) \in Len(st1)..(Len(st1) + 1)
        /\ \A e \in 1..Len(st1) : Pushed(st1, C)[e] = st1[e]
    <3> HIDE DEF Q, n
    <3> QED
      BY <2>1, PushedIs
  <2> QED
    BY <2>2
<1> HIDE DEF Q2
<1>3. \A e \in 1..(n - 1) : Q[e] = st[e]
  <2>1. n - 1 = Len(st)
    OBVIOUS
  <2> QED
    BY <2>1
<1> HIDE DEF Q
<1>4. Len(st) \in Nat /\ Len(st1) \in Nat /\ Len(Q2) \in Nat /\ n \in Nat \ {0} /\ n = Len(st) + 1
  BY <1>1, <1>2
<1> HIDE DEF n
<1>5. CASE B[1] < B[2]
  <2>1. Len(st1) = n /\ st1[n] = B
    BY <1>1, <1>5
  <2>2. n \in 1..Len(st1) /\ Q2[n] = B
    BY <1>2, <1>4, <2>1
  <2>3. \A e \in 1..(n - 1) : Q2[e] = Q[e]
    BY <1>1, <1>2, <1>3, <1>4, <2>1
  <2>4. CASE C[1] < C[2]
    <3>1. Len(Q2) = n + 1 /\ Q2[n + 1] = C
      BY <1>2, <2>1, <2>4
    <3>2. \A e \in n..(n + 1) : Q2[e] \in {B, C} /\ Q2[e][1] < Q2[e][2]
      BY <1>4, <1>5, <2>2, <2>4, <3>1
    <3>3. Placed(Q2, Q, n, B, C)
      <4>1. Len(Q2) \in (n - 1)..(n + 1) /\ n \in 1..Len(Q2) /\ n + 1 \in n..Len(Q2)
        BY <1>4, <3>1
      <4> QED
        BY <2>2, <2>3, <3>1, <3>2, <4>1 DEF Placed
    <3> QED
      BY <1>2, <3>3 DEF Q2, st1, Q, n
  <2>5. CASE ~(C[1] < C[2])
    <3>1. Len(Q2) = n
      BY <1>2, <2>1, <2>5
    <3>2. \A e \in n..n : Q2[e] \in {B, C} /\ Q2[e][1] < Q2[e][2]
      BY <1>4, <1>5, <2>2
    <3>3. Placed(Q2, Q, n, B, C)
      BY <1>4, <1>5, <2>2, <2>3, <2>5, <3>1, <3>2 DEF Placed
    <3> QED
      BY <1>2, <3>3 DEF Q2, st1, Q, n
  <2> QED
    BY <2>4, <2>5
<1>6. CASE ~(B[1] < B[2])
  <2>1. Len(st1) = n - 1
    BY <1>1, <1>4, <1>6
  <2>2. \A e \in 1..(n - 1) : Q2[e] = Q[e]
    BY <1>1, <1>2, <1>3, <1>4, <2>1
  <2>3. CASE C[1] < C[2]
    <3>1. Len(Q2) = n /\ Q2[n] = C
      BY <1>2, <1>4, <2>1, <2>3
    <3>2. \A e \in n..n : Q2[e] \in {B, C} /\ Q2[e][1] < Q2[e][2]
      BY <1>4, <2>3, <3>1
    <3>3. Placed(Q2, Q, n, B, C)
      BY <1>4, <1>6, <2>2, <2>3, <3>1, <3>2 DEF Placed
    <3> QED
      BY <1>2, <3>3 DEF Q2, st1, Q, n
  <2>4. CASE ~(C[1] < C[2])
    <3>1. Len(Q2) = n - 1
      BY <1>2, <2>1, <2>4
    <3>2. Placed(Q2, Q, n, B, C)
      BY <1>4, <1>6, <2>2, <2>4, <3>1 DEF Placed
    <3> QED
      BY <1>2, <3>2 DEF Q2, st1, Q, n
  <2> QED
    BY <2>3, <2>4
<1> QED
  BY <1>5, <1>6

-----------------------------------------------------------------------------
(* The parts in the place of the one divided lie apart inside it.           *)
Halves(B, C, l, r, i, j) ==
  /\ {B, C} = {<<l, j>>, <<i, r>>}
  /\ C[2] - C[1] <= B[2] - B[1]
Fit(Q, N) == \A e \in 1..Len(Q) : (Q[e][2] - Q[e][1] + 1) * 2 ^ (e - 1) <= N
Separate(Q) == \A e, g \in 1..Len(Q) : e # g => Q[e][2] < Q[g][1] \/ Q[g][2] < Q[e][1]
Within(Q, k, m) == \E e \in 1..Len(Q) : Q[e][1] <= k /\ m <= Q[e][2]
Ordered(a, Q, N) == \A k, m \in 0..(N - 1) : k < m => a[k] <= a[m] \/ Within(Q, k, m)
Joined(Q, N) == {k \in 0..(N - 2) : Within(Q, k, k + 1)}

LEMMA OneOfFirst == \A n \in Nat \ {0} : \A e \in 1..n : e \in 1..(n - 1) \/ e = n
OBVIOUS

Entries(Q2, Q, N, n, L, R, l, r, i, j) ==
  /\ \A e \in 1..Len(Q2) : /\ Q2[e][1] \in 0..(N - 1) /\ Q2[e][2] \in 0..(N - 1) /\ Q2[e][1] < Q2[e][2]
                           /\ \/ e \in 1..(n - 1) /\ Q2[e] = Q[e]
                              \/ e \in n..(n + 1) /\ (Q2[e] = L \/ Q2[e] = R)
  /\ \A e \in 1..n : Q[e][1] \in 0..(N - 1) /\ Q[e][2] \in 0..(N - 1) /\ Q[e][1] <= Q[e][2]
  /\ \A e \in 1..(n - 1) : e \in 1..Len(Q2) /\ Q2[e] = Q[e]
  /\ l < j => \E e \in 1..Len(Q2) : Q2[e] = L
  /\ i < r => \E e \in 1..Len(Q2) : Q2[e] = R
  /\ \A e, g \in 1..Len(Q2) : e # g /\ e >= n /\ g >= n =>
       \/ Q2[e] = L /\ Q2[g] = R
       \/ Q2[e] = R /\ Q2[g] = L

LEMMA PlacedEntries ==
  ASSUME NEW N \in Nat \ {0}, NEW Q \in Seq(Parts(N)), NEW n \in Nat \ {0}, Len(Q) = n,
         NEW l \in 0..(N - 1), NEW r \in l..(N - 1), Q[n] = <<l, r>>,
         NEW i \in (l + 1)..(r + 1), NEW j \in (l - 1)..(r - 1), j < i,
         NEW B, NEW C, Halves(B, C, l, r, i, j),
         NEW Q2 \in Seq(Strict(N)), Placed(Q2, Q, n, B, C),
         NEW L, NEW R, L = <<l, j>>, R = <<i, r>>
  PROVE  Entries(Q2, Q, N, n, L, R, l, r, i, j)
<1>1. Len(Q2) \in (n - 1)..(n + 1) /\ Len(Q2) \in Nat
  BY DEF Placed
<1>2. \A e \in 1..Len(Q2) : Q2[e][1] \in 0..(N - 1) /\ Q2[e][2] \in 0..(N - 1) /\ Q2[e][1] < Q2[e][2]
  <2> SUFFICES ASSUME NEW e \in 1..Len(Q2)
               PROVE  Q2[e][1] \in 0..(N - 1) /\ Q2[e][2] \in 0..(N - 1) /\ Q2[e][1] < Q2[e][2]
    OBVIOUS
  <2>1. Q2[e] \in Strict(N)
    OBVIOUS
  <2> QED
    BY <2>1 DEF Strict, Parts
<1>3. \A e \in 1..n : Q[e][1] \in 0..(N - 1) /\ Q[e][2] \in 0..(N - 1) /\ Q[e][1] <= Q[e][2]
  <2> SUFFICES ASSUME NEW e \in 1..n
               PROVE  Q[e][1] \in 0..(N - 1) /\ Q[e][2] \in 0..(N - 1) /\ Q[e][1] <= Q[e][2]
    OBVIOUS
  <2>1. Q[e] \in Parts(N)
    OBVIOUS
  <2> QED
    BY <2>1 DEF Parts
<1>4. \A e \in 1..(n - 1) : e \in 1..Len(Q2) /\ Q2[e] = Q[e]
  BY <1>1 DEF Placed
<1>5. (B = L /\ C = R) \/ (B = R /\ C = L)
  <2>1. <<l, j>> # <<i, r>>
    OBVIOUS
  <2> QED
    BY <2>1 DEF Halves
<1>6. \A e \in n..Len(Q2) : Q2[e] = B \/ Q2[e] = C
  BY DEF Placed
<1>7. \A e \in 1..Len(Q2) : \/ e \in 1..(n - 1) /\ Q2[e] = Q[e]
                            \/ e \in n..(n + 1) /\ (Q2[e] = L \/ Q2[e] = R)
  <2> SUFFICES ASSUME NEW e \in 1..Len(Q2)
               PROVE  \/ e \in 1..(n - 1) /\ Q2[e] = Q[e]
                      \/ e \in n..(n + 1) /\ (Q2[e] = L \/ Q2[e] = R)
    OBVIOUS
  <2>1. e \in 1..(n - 1) \/ (e \in n..Len(Q2) /\ e \in n..(n + 1))
    BY <1>1
  <2> QED
    BY <1>4, <1>5, <1>6, <2>1
<1>8. /\ B[1] < B[2] => \E e \in 1..Len(Q2) : Q2[e] = B
      /\ C[1] < C[2] => \E e \in 1..Len(Q2) : Q2[e] = C
  <2>1. \A e \in n..Len(Q2) : e \in 1..Len(Q2)
    BY <1>1
  <2> QED
    BY <2>1 DEF Placed
<1>9. /\ l < j => \E e \in 1..Len(Q2) : Q2[e] = L
      /\ i < r => \E e \in 1..Len(Q2) : Q2[e] = R
  <2>1. L[1] = l /\ L[2] = j /\ R[1] = i /\ R[2] = r
    OBVIOUS
  <2> QED
    BY <1>5, <1>8, <2>1
<1>10. \A e, g \in 1..Len(Q2) : e # g /\ e >= n /\ g >= n =>
              \/ Q2[e] = L /\ Q2[g] = R
              \/ Q2[e] = R /\ Q2[g] = L
  <2> SUFFICES ASSUME NEW e \in 1..Len(Q2), NEW g \in 1..Len(Q2), e # g, e >= n, g >= n
               PROVE  \/ Q2[e] = L /\ Q2[g] = R
                      \/ Q2[e] = R /\ Q2[g] = L
    OBVIOUS
  <2>1. Len(Q2) = n + 1 /\ ((e = n /\ g = n + 1) \/ (e = n + 1 /\ g = n))
    BY <1>1
  <2>2. Q2[n] = B /\ Q2[n + 1] = C
    BY <2>1 DEF Placed
  <2> QED
    BY <1>5, <2>1, <2>2
<1> QED
  BY <1>2, <1>3, <1>4, <1>7, <1>9, <1>10 DEF Entries

LEMMA DividedInside ==
  ASSUME NEW N \in Nat \ {0}, NEW a, NEW l \in 0..(N - 1), NEW r \in l..(N - 1), NEW p, Divided(p, a, N, l, r)
  PROVE  /\ \A c \in l..r : \E d \in l..r : p.a[c] = a[d]
         /\ \A c \in 0..(N - 1) : c \notin l..r => p.a[c] = a[c]
<1>1. PICK f \in [0..(N - 1) -> 0..(N - 1)] : Permutes(f, N, l, r) /\ \A k \in 0..(N - 1) : p.a[k] = a[f[k]]
  BY DEF Divided, Rearranged
<1>2. ASSUME NEW c \in l..r PROVE \E d \in l..r : p.a[c] = a[d]
  <2>1. c \in 0..(N - 1)
    OBVIOUS
  <2>2. f[c] \in l..r
    BY <1>1 DEF Permutes
  <2>3. p.a[c] = a[f[c]]
    BY <1>1, <2>1
  <2> QED
    BY <2>2, <2>3
<1>3. ASSUME NEW c \in 0..(N - 1), c \notin l..r PROVE p.a[c] = a[c]
  BY <1>1, <1>3 DEF Permutes
<1> QED
  BY <1>2, <1>3

(* What a division of the last part l..r into l..j and i..r does.           *)
LEMMA DividedParts ==
  ASSUME NEW N \in Nat \ {0}, NEW Q \in Seq(Parts(N)), NEW n \in Nat \ {0}, Len(Q) = n,
         NEW l \in 0..(N - 1), NEW r \in l..(N - 1), Q[n] = <<l, r>>,
         NEW i \in (l + 1)..(r + 1), NEW j \in (l - 1)..(r - 1), j < i,
         NEW B, NEW C, Halves(B, C, l, r, i, j),
         NEW Q2 \in Seq(Strict(N)), Placed(Q2, Q, n, B, C),
         NEW a \in Array(N), NEW p, Divided(p, a, N, l, r), p.i = i, p.j = j
  PROVE  /\ Separate(Q) => Separate(Q2)
         /\ Separate(Q) /\ Ordered(a, Q, N) => Ordered(p.a, Q2, N)
         /\ Joined(Q2, N) \subseteq Joined(Q, N)
         /\ l < r => \E k \in Joined(Q, N) : k \notin Joined(Q2, N) \/ ~Separate(Q)
<1> DEFINE L == <<l, j>>
           R == <<i, r>>
<1>1. L[1] = l /\ L[2] = j /\ R[1] = i /\ R[2] = r /\ Q[n][1] = l /\ Q[n][2] = r
  OBVIOUS
<1>2. /\ \A e \in 1..Len(Q2) : /\ Q2[e][1] \in 0..(N - 1) /\ Q2[e][2] \in 0..(N - 1) /\ Q2[e][1] < Q2[e][2]
                               /\ \/ e \in 1..(n - 1) /\ Q2[e] = Q[e]
                                  \/ e \in n..(n + 1) /\ (Q2[e] = L \/ Q2[e] = R)
      /\ \A e \in 1..n : Q[e][1] \in 0..(N - 1) /\ Q[e][2] \in 0..(N - 1) /\ Q[e][1] <= Q[e][2]
      /\ \A e \in 1..(n - 1) : e \in 1..Len(Q2) /\ Q2[e] = Q[e]
      /\ l < j => \E e \in 1..Len(Q2) : Q2[e] = L
      /\ i < r => \E e \in 1..Len(Q2) : Q2[e] = R
      /\ \A e, g \in 1..Len(Q2) : e # g /\ e >= n /\ g >= n =>
           \/ Q2[e] = L /\ Q2[g] = R
           \/ Q2[e] = R /\ Q2[g] = L
  <2>1. L = <<l, j>> /\ R = <<i, r>>
    OBVIOUS
  <2> HIDE DEF L, R
  <2> QED
    <3>1. Entries(Q2, Q, N, n, L, R, l, r, i, j)
      BY <2>1, PlacedEntries
    <3> QED
      BY <3>1 DEF Entries
<1> HIDE DEF L, R
<1>3. ASSUME Separate(Q) PROVE Separate(Q2)
  <2> SUFFICES ASSUME NEW e \in 1..Len(Q2), NEW g \in 1..Len(Q2), e # g
               PROVE  Q2[e][2] < Q2[g][1] \/ Q2[g][2] < Q2[e][1]
    BY DEF Separate
  <2>1. \A c \in 1..(n - 1) : Q[c][2] < l \/ r < Q[c][1]
    <3> SUFFICES ASSUME NEW c \in 1..(n - 1) PROVE Q[c][2] < l \/ r < Q[c][1]
      OBVIOUS
    <3>1. c \in 1..Len(Q) /\ n \in 1..Len(Q) /\ c # n
      OBVIOUS
    <3> QED
      BY <1>1, <1>3, <3>1 DEF Separate
  <2>2. CASE e \in 1..(n - 1) /\ g \in 1..(n - 1)
    <3>1. e \in 1..Len(Q) /\ g \in 1..Len(Q) /\ Q2[e] = Q[e] /\ Q2[g] = Q[g]
      BY <1>2, <2>2
    <3> QED
      BY <1>3, <3>1 DEF Separate
  <2>3. CASE e \in 1..(n - 1) /\ g \notin 1..(n - 1)
    <3>1. Q2[e] = Q[e] /\ (Q2[g] = L \/ Q2[g] = R)
      BY <1>2, <2>3
    <3>2. Q[e][2] < l \/ r < Q[e][1]
      BY <2>1, <2>3
    <3>3. Q2[e][1] \in Int /\ Q2[e][2] \in Int
      BY <1>2
    <3> QED
      BY <1>1, <3>1, <3>2, <3>3
  <2>4. CASE e \notin 1..(n - 1) /\ g \in 1..(n - 1)
    <3>1. Q2[g] = Q[g] /\ (Q2[e] = L \/ Q2[e] = R)
      BY <1>2, <2>4
    <3>2. Q[g][2] < l \/ r < Q[g][1]
      BY <2>1, <2>4
    <3>3. Q2[g][1] \in Int /\ Q2[g][2] \in Int
      BY <1>2
    <3> QED
      BY <1>1, <3>1, <3>2, <3>3
  <2>5. CASE e \notin 1..(n - 1) /\ g \notin 1..(n - 1)
    <3>1. e >= n /\ g >= n
      BY <2>5
    <3>2. \/ Q2[e] = L /\ Q2[g] = R
          \/ Q2[e] = R /\ Q2[g] = L
      BY <1>2, <3>1
    <3> QED
      BY <1>1, <3>2
  <2> QED
    BY <2>2, <2>3, <2>4, <2>5
<1>4. ASSUME Separate(Q), Ordered(a, Q, N) PROVE Ordered(p.a, Q2, N)
  <2> SUFFICES ASSUME NEW k \in 0..(N - 1), NEW m \in 0..(N - 1), k < m, ~Within(Q2, k, m)
               PROVE  p.a[k] <= p.a[m]
    BY DEF Ordered
  <2>1. PICK x \in Int : /\ \A c \in l..(i - 1) : p.a[c] <= x
                         /\ \A c \in (j + 1)..r : x <= p.a[c]
    BY DEF Divided
  <2>2. /\ \A c \in l..r : \E d \in l..r : p.a[c] = a[d]
        /\ \A c \in 0..(N - 1) : c \notin l..r => p.a[c] = a[c]
    BY DividedInside
  <2>3. \A c \in 0..(N - 1) : p.a[c] \in Int /\ a[c] \in Int
    BY DEF Divided, Array
  <2>4. \A c \in 1..(n - 1) : (Q[c][2] < l \/ r < Q[c][1]) /\ ~(Q[c][1] <= k /\ m <= Q[c][2])
    <3> SUFFICES ASSUME NEW c \in 1..(n - 1)
                 PROVE  (Q[c][2] < l \/ r < Q[c][1]) /\ ~(Q[c][1] <= k /\ m <= Q[c][2])
      OBVIOUS
    <3>1. c \in 1..Len(Q) /\ n \in 1..Len(Q) /\ c # n
      OBVIOUS
    <3>2. Q[c][2] < l \/ r < Q[c][1]
      BY <1>1, <1>4, <3>1 DEF Separate
    <3>3. c \in 1..Len(Q2) /\ Q2[c] = Q[c]
      BY <1>2
    <3> QED
      BY <3>2, <3>3 DEF Within
  (* Outside what is divided, nothing has moved. *)
  <2>5. \A c, d \in 0..(N - 1) : c < d /\ ~(l <= c /\ d <= r) /\ ~(\E e \in 1..(n - 1) : Q[e][1] <= c /\ d <= Q[e][2])
                                   => a[c] <= a[d]
    <3> SUFFICES ASSUME NEW c \in 0..(N - 1), NEW d \in 0..(N - 1), c < d, ~(l <= c /\ d <= r),
                        ~(\E e \in 1..(n - 1) : Q[e][1] <= c /\ d <= Q[e][2])
                 PROVE  a[c] <= a[d]
      OBVIOUS
    <3>1. \A e \in 1..Len(Q) : e \in 1..(n - 1) \/ e = n
      BY OneOfFirst
    <3>2. ~Within(Q, c, d)
      BY <1>1, <3>1 DEF Within
    <3> QED
      BY <1>4, <3>2 DEF Ordered
  <2>6. CASE k \in l..r /\ m \in l..r
    <3>1. ~(m <= j)
      <4>1. SUFFICES ASSUME m <= j PROVE FALSE
        OBVIOUS
      <4>2. PICK e \in 1..Len(Q2) : Q2[e] = L
        BY <1>2, <2>6, <4>1
      <4> QED
        BY <1>1, <2>6, <4>1, <4>2 DEF Within
    <3>2. ~(k >= i)
      <4>1. SUFFICES ASSUME k >= i PROVE FALSE
        OBVIOUS
      <4>2. PICK e \in 1..Len(Q2) : Q2[e] = R
        BY <1>2, <2>6, <4>1
      <4> QED
        BY <1>1, <2>6, <4>1, <4>2 DEF Within
    <3>3. k \in l..(i - 1) /\ m \in (j + 1)..r
      BY <2>6, <3>1, <3>2
    <3>4. p.a[k] <= x /\ x <= p.a[m]
      BY <2>1, <3>3
    <3> QED
      BY <2>3, <3>4
  <2>7. CASE k \in l..r /\ m \notin l..r
    <3>1. PICK d \in l..r : p.a[k] = a[d]
      BY <2>2, <2>7
    <3>2. p.a[m] = a[m] /\ d < m /\ d \in 0..(N - 1)
      <4>1. p.a[m] = a[m]
        BY <2>2, <2>7
      <4>2. r < m
        BY <2>7
      <4> QED
        BY <4>1, <4>2
    <3>3. ~(\E e \in 1..(n - 1) : Q[e][1] <= d /\ m <= Q[e][2])
      <4> SUFFICES ASSUME NEW e \in 1..(n - 1), Q[e][1] <= d, m <= Q[e][2] PROVE FALSE
        OBVIOUS
      <4>1. Q[e][1] \in Int /\ Q[e][2] \in Int /\ (Q[e][2] < l \/ r < Q[e][1])
        BY <1>2, <2>4
      <4> QED
        BY <2>7, <4>1
    <3>4. a[d] <= a[m]
      <4>1. ~(l <= d /\ m <= r)
        BY <2>7
      <4> QED
        BY <2>5, <3>2, <3>3, <4>1
    <3> QED
      BY <3>1, <3>2, <3>4
  <2>8. CASE k \notin l..r /\ m \in l..r
    <3>1. PICK d \in l..r : p.a[m] = a[d]
      BY <2>2, <2>8
    <3>2. p.a[k] = a[k] /\ k < d /\ d \in 0..(N - 1)
      <4>1. p.a[k] = a[k]
        BY <2>2, <2>8
      <4>2. k < l
        BY <2>8
      <4> QED
        BY <4>1, <4>2
    <3>3. ~(\E e \in 1..(n - 1) : Q[e][1] <= k /\ d <= Q[e][2])
      <4> SUFFICES ASSUME NEW e \in 1..(n - 1), Q[e][1] <= k, d <= Q[e][2] PROVE FALSE
        OBVIOUS
      <4>1. Q[e][1] \in Int /\ Q[e][2] \in Int /\ (Q[e][2] < l \/ r < Q[e][1])
        BY <1>2, <2>4
      <4> QED
        BY <2>8, <4>1
    <3>4. a[k] <= a[d]
      <4>1. ~(l <= k /\ d <= r)
        BY <2>8
      <4> QED
        BY <2>5, <3>2, <3>3, <4>1
    <3> QED
      BY <3>1, <3>2, <3>4
  <2>9. CASE k \notin l..r /\ m \notin l..r
    <3>1. p.a[k] = a[k] /\ p.a[m] = a[m] /\ ~(l <= k /\ m <= r)
      BY <2>2, <2>9
    <3> QED
      BY <2>4, <2>5, <3>1
  <2> QED
    BY <2>6, <2>7, <2>8, <2>9
<1>5. Joined(Q2, N) \subseteq Joined(Q, N)
  <2> SUFFICES ASSUME NEW k \in 0..(N - 2), NEW e \in 1..Len(Q2), Q2[e][1] <= k, k + 1 <= Q2[e][2]
               PROVE  \E g \in 1..Len(Q) : Q[g][1] <= k /\ k + 1 <= Q[g][2]
    BY DEF Joined, Within
  <2>1. CASE e \in 1..(n - 1)
    <3>1. e \in 1..Len(Q) /\ Q2[e] = Q[e]
      BY <1>2, <2>1
    <3> QED
      BY <3>1
  <2>2. CASE Q2[e] = L \/ Q2[e] = R
    <3>1. n \in 1..Len(Q) /\ l <= k /\ k + 1 <= r
      BY <1>1, <2>2
    <3> QED
      BY <1>1, <3>1
  <2> QED
    BY <1>2, <2>1, <2>2
<1>6. ASSUME l < r PROVE \E k \in Joined(Q, N) : k \notin Joined(Q2, N) \/ ~Separate(Q)
  <2>1. PICK k \in l..(r - 1) : j <= k /\ k < i
    <3>1. CASE j >= l
      <4>1. j \in l..(r - 1) /\ j <= j /\ j < i
        BY <3>1
      <4> QED
        BY <4>1
    <3>2. CASE j < l
      <4>1. l \in l..(r - 1) /\ j <= l /\ l < i
        BY <1>6, <3>2
      <4> QED
        BY <4>1
    <3> QED
      BY <3>1, <3>2
  <2>2. k \in Joined(Q, N)
    <3>1. k \in 0..(N - 2) /\ n \in 1..Len(Q) /\ Q[n][1] <= k /\ k + 1 <= Q[n][2]
      BY <1>1, <2>1
    <3> QED
      BY <3>1 DEF Joined, Within
  <2>3. ASSUME Separate(Q), k \in Joined(Q2, N) PROVE FALSE
    <3>1. PICK e \in 1..Len(Q2) : Q2[e][1] <= k /\ k + 1 <= Q2[e][2]
      BY <2>3 DEF Joined, Within
    <3>2. CASE e \in 1..(n - 1)
      <4>1. e \in 1..Len(Q) /\ n \in 1..Len(Q) /\ e # n /\ Q2[e] = Q[e]
        BY <1>2, <3>2
      <4>2. Q[e][2] < l \/ r < Q[e][1]
        BY <1>1, <2>3, <4>1 DEF Separate
      <4>3. Q[e][1] \in Int /\ Q[e][2] \in Int
        BY <1>2, <3>2
      <4> QED
        BY <2>1, <3>1, <4>1, <4>2, <4>3
    <3>3. CASE Q2[e] = L \/ Q2[e] = R
      BY <1>1, <2>1, <3>1, <3>3
    <3> QED
      BY <1>2, <3>2, <3>3
  <2> QED
    BY <2>2, <2>3
<1> QED
  BY <1>3, <1>4, <1>5, <1>6

-----------------------------------------------------------------------------
(* How long the parts on the stack may be, and how deep it gets.            *)
LEMMA FitPlaced ==
  ASSUME NEW N \in Nat \ {0}, NEW Q \in Seq(Parts(N)), NEW n \in Nat \ {0}, Len(Q) = n,
         NEW l \in 0..(N - 1), NEW r \in l..(N - 1), Q[n] = <<l, r>>,
         NEW i \in (l + 1)..(r + 1), NEW j \in (l - 1)..(r - 1), j < i,
         NEW B, NEW C, Halves(B, C, l, r, i, j),
         NEW Q2 \in Seq(Strict(N)), Placed(Q2, Q, n, B, C), Fit(Q, N)
  PROVE  Fit(Q2, N)
<1> SUFFICES ASSUME NEW e \in 1..Len(Q2) PROVE (Q2[e][2] - Q2[e][1] + 1) * 2 ^ (e - 1) <= N
  BY DEF Fit
<1>1. Len(Q2) \in (n - 1)..(n + 1)
  BY DEF Placed
<1>2. (B = <<l, j>> /\ C = <<i, r>>) \/ (B = <<i, r>> /\ C = <<l, j>>)
  <2>1. <<l, j>> # <<i, r>>
    OBVIOUS
  <2> QED
    BY <2>1 DEF Halves
<1>3. /\ B[2] - B[1] + 1 \in Int /\ B[2] - B[1] + 1 <= r - l + 1
      /\ C[2] - C[1] + 1 \in Int /\ C[2] - C[1] + 1 <= r - l + 1 /\ 2 * (C[2] - C[1] + 1) <= r - l + 1
  <2>1. <<l, j>>[1] = l /\ <<l, j>>[2] = j /\ <<i, r>>[1] = i /\ <<i, r>>[2] = r
    OBVIOUS
  <2>2. C[2] - C[1] <= B[2] - B[1]
    BY DEF Halves
  <2>3. CASE B = <<l, j>> /\ C = <<i, r>>
    <3>1. B[1] = l /\ B[2] = j /\ C[1] = i /\ C[2] = r
      BY <2>1, <2>3
    <3> QED
      BY <2>2, <3>1
  <2>4. CASE B = <<i, r>> /\ C = <<l, j>>
    <3>1. C[1] = l /\ C[2] = j /\ B[1] = i /\ B[2] = r
      BY <2>1, <2>4
    <3> QED
      BY <2>2, <3>1
  <2> QED
    BY <1>2, <2>3, <2>4
<1> DEFINE h == 2 ^ (n - 1)
           size == r - l + 1
           b == B[2] - B[1] + 1
           c == C[2] - C[1] + 1
<1>4. h \in Nat /\ 2 ^ n = 2 * h
  <2>1. n - 1 \in Nat /\ (n - 1) + 1 = n
    OBVIOUS
  <2>2. 2 ^ ((n - 1) + 1) = 2 * 2 ^ (n - 1)
    BY <2>1, PowerNext
  <2>3. 2 ^ (n - 1) \in Nat
    BY <2>1, PowerType
  <2> QED
    BY <2>1, <2>2, <2>3
<1>5. size * h <= N /\ size \in Int
  <2>1. n \in 1..Len(Q) /\ Q[n][1] = l /\ Q[n][2] = r
    OBVIOUS
  <2> QED
    BY <2>1 DEF Fit
<1>6. e \in 1..(n - 1) \/ e = n \/ e = n + 1
  BY <1>1
<1>7. CASE e \in 1..(n - 1)
  <2>1. Q2[e] = Q[e] /\ e \in 1..Len(Q)
    BY <1>7 DEF Placed
  <2> QED
    BY <2>1 DEF Fit
<1>8. CASE e = n
  <2>1. Q2[e] = B \/ Q2[e] = C
    <3>1. e \in n..Len(Q2)
      BY <1>1, <1>8
    <3> QED
      BY <3>1 DEF Placed
  <2> HIDE DEF h, size, b, c
  <2>2. b * h <= size * h /\ c * h <= size * h /\ b * h \in Int /\ c * h \in Int /\ size * h \in Int
    BY <1>3, <1>4, <1>5 DEF b, c, size
  <2>3. b * h <= N /\ c * h <= N
    BY <1>5, <2>2
  <2> QED
    BY <1>8, <2>1, <2>3 DEF h, b, c
<1>9. CASE e = n + 1
  <2>1. Q2[e] = C
    <3>1. Len(Q2) = n + 1
      BY <1>1, <1>9
    <3> QED
      BY <1>9, <3>1 DEF Placed
  <2>2. 2 ^ (e - 1) = 2 * h
    BY <1>4, <1>9
  <2> HIDE DEF h, size, b, c
  <2>3. c * (2 * h) = (2 * c) * h /\ (2 * c) * h <= size * h /\ (2 * c) * h \in Int /\ size * h \in Int
    BY <1>3, <1>4, <1>5 DEF c, size
  <2>4. c * (2 * h) <= N
    BY <1>5, <2>3
  <2> QED
    BY <2>1, <2>2, <2>4 DEF c
<1> QED
  BY <1>6, <1>7, <1>8, <1>9

(* Each part at most half of the one below: the array has 2^depth elements. *)
LEMMA DeepFits ==
  ASSUME NEW N \in Nat \ {0}, NEW Q \in Seq(Strict(N)), Fit(Q, N), NEW m \in 0..Len(Q)
  PROVE  2 ^ m <= N
<1> DEFINE n == Len(Q)
<1>1. n \in Nat /\ m \in Nat /\ m <= n
  OBVIOUS
<1>2. 2 ^ n <= N
  <2>1. CASE n = 0
    BY <2>1, PowerZero
  <2>2. CASE n # 0
    <3>1. n \in 1..Len(Q) /\ Q[n] \in Strict(N)
      BY <1>1, <2>2
    <3>2. Q[n][1] \in Nat /\ Q[n][2] \in Nat /\ Q[n][1] < Q[n][2]
      BY <3>1 DEF Strict, Parts
    <3> DEFINE size == Q[n][2] - Q[n][1] + 1
               h == 2 ^ (n - 1)
    <3>3. size * h <= N
      BY <3>1 DEF Fit
    <3>4. h \in Nat /\ 2 ^ n = 2 * h
      <4>1. n - 1 \in Nat /\ (n - 1) + 1 = n
        BY <1>1, <2>2
      <4>2. 2 ^ ((n - 1) + 1) = 2 * 2 ^ (n - 1)
        BY <4>1, PowerNext
      <4>3. 2 ^ (n - 1) \in Nat
        BY <4>1, PowerType
      <4> QED
        BY <4>1, <4>2, <4>3
    <3>5. size \in Nat /\ size >= 2
      BY <3>2
    <3> HIDE DEF h, size, n
    <3>6. 2 * h <= size * h /\ size * h \in Int
      BY <3>4, <3>5
    <3> QED
      BY <3>3, <3>4, <3>6
  <2> QED
    BY <2>1, <2>2
<1>3. 2 ^ m <= 2 ^ n /\ 2 ^ m \in Nat /\ 2 ^ n \in Nat
  BY <1>1, PowerGrows, PowerType
<1> HIDE DEF n
<1> QED
  BY <1>2, <1>3

-----------------------------------------------------------------------------
(* The parts not sorted yet.                                                *)
Awaiting(s) == IF s.done THEN <<>> ELSE Append(s.stack, s.part)
States(N) == [a : Array(N), part : Parts(N), stack : Seq(Strict(N)), deepest : Nat, wild : {FALSE}, done : BOOLEAN]

LEMMA StateFields ==
  ASSUME NEW A, NEW P, NEW K, NEW W, NEW s \in [a : A, part : P, stack : K, deepest : Nat, wild : W, done : BOOLEAN],
         NEW a \in A, NEW wild \in W, NEW deepest \in Nat, NEW part \in P, NEW stack \in K
  PROVE  LET t == [s EXCEPT !.a = a, !.wild = wild, !.deepest = deepest]
             u == [t EXCEPT !.part = part, !.stack = stack]
             v == [t EXCEPT !.done = TRUE, !.stack = stack] IN
         /\ u \in [a : A, part : P, stack : K, deepest : Nat, wild : W, done : BOOLEAN]
         /\ v \in [a : A, part : P, stack : K, deepest : Nat, wild : W, done : BOOLEAN]
         /\ u.a = a /\ u.wild = wild /\ u.deepest = deepest /\ u.part = part /\ u.stack = stack /\ u.done = s.done
         /\ v.a = a /\ v.wild = wild /\ v.deepest = deepest /\ v.stack = stack /\ v.done = TRUE
<1> DEFINE t == [s EXCEPT !.a = a, !.wild = wild, !.deepest = deepest]
           S == [a : A, part : P, stack : K, deepest : Nat, wild : W, done : BOOLEAN]
<1>1. t \in S /\ t.a = a /\ t.wild = wild /\ t.deepest = deepest /\ t.done = s.done
  OBVIOUS
<1> HIDE DEF t
<1>2. /\ [t EXCEPT !.part = part, !.stack = stack] \in S
      /\ [t EXCEPT !.part = part, !.stack = stack].a = a
      /\ [t EXCEPT !.part = part, !.stack = stack].wild = wild
      /\ [t EXCEPT !.part = part, !.stack = stack].deepest = deepest
      /\ [t EXCEPT !.part = part, !.stack = stack].part = part
      /\ [t EXCEPT !.part = part, !.stack = stack].stack = stack
      /\ [t EXCEPT !.part = part, !.stack = stack].done = s.done
  BY <1>1
<1>3. /\ [t EXCEPT !.done = TRUE, !.stack = stack] \in S
      /\ [t EXCEPT !.done = TRUE, !.stack = stack].a = a
      /\ [t EXCEPT !.done = TRUE, !.stack = stack].wild = wild
      /\ [t EXCEPT !.done = TRUE, !.stack = stack].deepest = deepest
      /\ [t EXCEPT !.done = TRUE, !.stack = stack].stack = stack
      /\ [t EXCEPT !.done = TRUE, !.stack = stack].done = TRUE
  BY <1>1
<1> QED
  BY <1>2, <1>3 DEF t

-----------------------------------------------------------------------------
(* One turn: the part is divided, and its halves take its place.            *)
TurnDone(s, t, N, l, r) ==
  \E p, B, C, i, j :
    /\ Divided(p, s.a, N, l, r) /\ p.i = i /\ p.j = j
    /\ i \in (l + 1)..(r + 1) /\ j \in (l - 1)..(r - 1) /\ j < i
    /\ Halves(B, C, l, r, i, j)
    /\ t \in States(N) /\ t.a = p.a
    /\ Awaiting(t) = Pushed(Pushed(s.stack, B), C)
    /\ Awaiting(t) \in Seq(Strict(N)) /\ Placed(Awaiting(t), Append(s.stack, s.part), Len(s.stack) + 1, B, C)
    /\ t.done \/ t.part \in Strict(N)
    /\ t.deepest = s.deepest \/ t.deepest \in 0..Len(Awaiting(t))

LEMMA TurnIs ==
  ASSUME NEW N \in Nat \ {0}, NEW s \in States(N), ~s.done, NEW l \in 0..(N - 1), NEW r \in l..(N - 1),
         s.part = <<l, r>>
  PROVE  TurnDone(s, Turn(s), N, l, r)
<1> DEFINE p == Partition(s.a, l, r)
           i == p.i
           j == p.j
           leftFirst == j - l < r - i
           C == IF leftFirst THEN <<l, j>> ELSE <<i, r>>
           B == IF leftFirst THEN <<i, r>> ELSE <<l, j>>
           st == Pushed(s.stack, B)
           deepest == IF Len(st) > s.deepest THEN Len(st) ELSE s.deepest
           t0 == [s EXCEPT !.a = p.a, !.wild = p.wild, !.deepest = deepest]
           With(part, stack) == [t0 EXCEPT !.part = part, !.stack = stack]
           t == Turn(s)
<1>1. /\ s.a \in Array(N) /\ s.part \in Parts(N) /\ s.stack \in Seq(Strict(N)) /\ s.deepest \in Nat
      /\ s.wild = FALSE /\ s.done = FALSE
  BY DEF States
<1>2. s.part[1] = l /\ s.part[2] = r
  OBVIOUS
<1>3. t = IF C[1] < C[2] THEN With(C, st)
          ELSE IF st # <<>> THEN With(Last(st), Front(st))
          ELSE [t0 EXCEPT !.done = TRUE, !.stack = st]
  BY <1>1, <1>2 DEF Turn
<1>4. Divided(p, s.a, N, l, r)
  BY <1>1, PartitionIs
<1> HIDE DEF p, t
<1>5. /\ p.a \in Array(N) /\ i \in (l + 1)..(r + 1) /\ j \in (l - 1)..(r - 1) /\ j < i /\ p.wild = FALSE
  BY <1>4 DEF Divided
<1> HIDE DEF i, j
<1>6. Halves(B, C, l, r, i, j) /\ (B[1] < B[2] => B \in Strict(N)) /\ (C[1] < C[2] => C \in Strict(N))
  <2> DEFINE L == <<l, j>>
             R == <<i, r>>
  <2>1. L[1] = l /\ L[2] = j /\ R[1] = i /\ R[2] = r
    OBVIOUS
  <2>2. (L[1] < L[2] => L \in Strict(N)) /\ (R[1] < R[2] => R \in Strict(N))
    <3>1. ASSUME l < j PROVE L \in Strict(N)
      BY <1>5, <3>1 DEF Strict, Parts
    <3>2. ASSUME i < r PROVE R \in Strict(N)
      BY <1>5, <3>2 DEF Strict, Parts
    <3> QED
      BY <2>1, <3>1, <3>2
  <2>3. CASE leftFirst
    <3>1. C = L /\ B = R
      BY <2>3
    <3>2. C[2] - C[1] <= B[2] - B[1]
      BY <1>5, <2>1, <2>3, <3>1
    <3> HIDE DEF B, C, leftFirst
    <3>3. {B, C} = {L, R}
      BY <3>1
    <3> QED
      BY <2>2, <3>1, <3>2, <3>3 DEF Halves
  <2>4. CASE ~leftFirst
    <3>1. C = R /\ B = L
      BY <2>4
    <3>2. C[2] - C[1] <= B[2] - B[1]
      BY <1>5, <2>1, <2>4, <3>1
    <3> HIDE DEF B, C, leftFirst
    <3>3. {B, C} = {L, R}
      BY <3>1
    <3> QED
      BY <2>2, <3>1, <3>2, <3>3 DEF Halves
  <2> QED
    BY <2>3, <2>4
<1> HIDE DEF B, C, leftFirst
<1>7. st \in Seq(Strict(N)) /\ Len(st) \in Nat
  <2>1. st \in Seq(Strict(N))
    BY <1>1, <1>6, PushedIs
  <2> QED
    BY <2>1
<1>8. deepest \in Nat
  BY <1>1, <1>7
<1>9. /\ Pushed(st, C) \in Seq(Strict(N))
      /\ Placed(Pushed(st, C), Append(s.stack, s.part), Len(s.stack) + 1, B, C)
  <2>1. \A e \in 1..Len(s.stack) : Append(s.stack, s.part)[e] = s.stack[e]
    <3>1. s.stack \in Seq(Parts(N)) /\ s.part \in Parts(N)
      <4>1. Strict(N) \subseteq Parts(N)
        BY DEF Strict
      <4> DEFINE S1 == Strict(N)
                 S2 == Parts(N)
                 k == s.stack
      <4>2. k \in Seq(S1) /\ S1 \subseteq S2
        BY <1>1, <4>1
      <4> HIDE DEF S1, S2, k
      <4>3. k \in Seq(S2)
        BY <4>2
      <4> QED
        BY <1>1, <4>3 DEF S2, k
    <3> QED
      BY <3>1
  <2> QED
    BY <1>1, <1>6, <2>1, PushedTwice
<1>10. Strict(N) \subseteq Parts(N)
  BY DEF Strict
<1>11. ASSUME NEW part \in Strict(N), NEW stack \in Seq(Strict(N))
       PROVE  LET u == With(part, stack) IN
              u \in States(N) /\ u.a = p.a /\ u.deepest = deepest /\ u.part = part /\ u.stack = stack /\ u.done = FALSE
  <2>1. part \in Parts(N) /\ p.wild \in {FALSE}
    BY <1>5, <1>10
  <2> HIDE DEF deepest
  <2> QED
    BY <1>1, <1>5, <1>8, <2>1, StateFields DEF States
<1>12. LET v == [t0 EXCEPT !.done = TRUE, !.stack = st] IN
       v \in States(N) /\ v.a = p.a /\ v.deepest = deepest /\ v.done = TRUE
  <2>1. s.part \in Parts(N) /\ p.wild \in {FALSE}
    BY <1>1, <1>5
  <2> HIDE DEF deepest, st
  <2> QED
    BY <1>1, <1>5, <1>7, <1>8, <2>1, StateFields DEF States
<1> HIDE DEF t0, With
<1>13. /\ t \in States(N) /\ t.a = p.a /\ t.deepest = deepest
       /\ Awaiting(t) = Pushed(st, C)
       /\ t.done \/ t.part \in Strict(N)
  <2>1. CASE C[1] < C[2]
    <3>1. t = With(C, st)
      BY <1>3, <2>1
    <3>2. t \in States(N) /\ t.a = p.a /\ t.deepest = deepest /\ t.part = C /\ t.stack = st /\ t.done = FALSE
      <4>1. C \in Strict(N) /\ st \in Seq(Strict(N))
        BY <1>6, <1>7, <2>1
      <4> HIDE DEF st, deepest
      <4> QED
        BY <1>11, <3>1, <4>1
    <3> HIDE DEF st, deepest
    <3> QED
      BY <1>6, <2>1, <3>2 DEF Awaiting, Pushed
  <2>2. CASE ~(C[1] < C[2]) /\ st # <<>>
    <3>1. t = With(Last(st), Front(st))
      BY <1>3, <2>2
    <3>2. Last(st) \in Strict(N) /\ Front(st) \in Seq(Strict(N)) /\ Append(Front(st), Last(st)) = st
      BY <1>7, <2>2, FrontLast
    <3>3. t \in States(N) /\ t.a = p.a /\ t.deepest = deepest /\ t.part = Last(st) /\ t.stack = Front(st) /\ t.done = FALSE
      <4> HIDE DEF st, deepest
      <4> QED
        BY <1>11, <3>1, <3>2
    <3> HIDE DEF st, deepest
    <3> QED
      BY <2>2, <3>2, <3>3 DEF Awaiting, Pushed
  <2>3. CASE ~(C[1] < C[2]) /\ st = <<>>
    <3>1. t = [t0 EXCEPT !.done = TRUE, !.stack = st]
      BY <1>3, <2>3
    <3>2. t \in States(N) /\ t.a = p.a /\ t.deepest = deepest /\ t.done = TRUE
      BY <1>12, <3>1
    <3> HIDE DEF st, deepest
    <3> QED
      BY <2>3, <3>2 DEF Awaiting, Pushed
  <2> QED
    BY <2>1, <2>2, <2>3
<1>14. t.deepest = s.deepest \/ t.deepest \in 0..Len(Awaiting(t))
  <2>1. Len(Pushed(st, C)) \in Len(st)..(Len(st) + 1)
    BY <1>6, <1>7, PushedIs
  <2>2. CASE Len(st) > s.deepest
    BY <1>7, <1>13, <2>1, <2>2
  <2>3. CASE ~(Len(st) > s.deepest)
    BY <1>13, <2>3
  <2> QED
    BY <2>2, <2>3
<1>15. TurnDone(s, t, N, l, r)
  <2>1. Awaiting(t) \in Seq(Strict(N)) /\ Placed(Awaiting(t), Append(s.stack, s.part), Len(s.stack) + 1, B, C)
    BY <1>9, <1>13
  <2>2. p.i = i /\ p.j = j
    BY DEF i, j
  <2>3. Awaiting(t) = Pushed(Pushed(s.stack, B), C)
    BY <1>13
  <2> HIDE DEF st, deepest
  <2> QED
    BY <1>4, <1>5, <1>6, <1>13, <1>14, <2>1, <2>2, <2>3 DEF TurnDone
<1> QED
  BY <1>15 DEF t

-----------------------------------------------------------------------------
(* What holds before and after every turn: the parts still to be sorted do  *)
(* not meet, each is at most half as long as the one below it, and any two  *)
(* elements not in one of them are in order.                                *)
Sorting(s, a, N) ==
  /\ s \in States(N)
  /\ Rearranged(s.a, a, N, 0, N - 1)
  /\ 2 ^ s.deepest <= N
  /\ Fit(Awaiting(s), N) /\ Separate(Awaiting(s)) /\ Ordered(s.a, Awaiting(s), N)
  /\ s.done \/ s.part \in Strict(N) \/ N = 1

LEMMA AwaitingIs ==
  ASSUME NEW N \in Nat \ {0}, NEW s \in States(N), ~s.done
  PROVE  /\ Awaiting(s) = Append(s.stack, s.part) /\ Awaiting(s) \in Seq(Parts(N))
         /\ Len(Awaiting(s)) = Len(s.stack) + 1 /\ Len(s.stack) \in Nat
         /\ Awaiting(s)[Len(s.stack) + 1] = s.part
         /\ s.stack \in Seq(Strict(N)) /\ s.part \in Parts(N) /\ s.a \in Array(N)
<1>1. s.stack \in Seq(Strict(N)) /\ s.part \in Parts(N) /\ s.a \in Array(N)
  BY DEF States
<1>2. Strict(N) \subseteq Parts(N)
  BY DEF Strict
<1> DEFINE S1 == Strict(N)
           S2 == Parts(N)
           k == s.stack
<1>3. k \in Seq(S1) /\ S1 \subseteq S2
  BY <1>1, <1>2
<1> HIDE DEF S1, S2, k
<1>4. k \in Seq(S2)
  BY <1>3
<1>5. s.stack \in Seq(Parts(N))
  BY <1>4 DEF k, S2
<1>6. Awaiting(s) = Append(s.stack, s.part)
  BY DEF Awaiting
<1> QED
  BY <1>1, <1>5, <1>6

LEMMA TurnKeeps ==
  ASSUME NEW N \in Nat \ {0}, NEW a, NEW s, Sorting(s, a, N), ~s.done
  PROVE  /\ Sorting(Turn(s), a, N)
         /\ Joined(Awaiting(Turn(s)), N) \subseteq Joined(Awaiting(s), N)
         /\ N # 1 => \E k \in Joined(Awaiting(s), N) : k \notin Joined(Awaiting(Turn(s)), N)
         /\ N = 1 => Turn(s).done
<1> DEFINE t == Turn(s)
           Q == Awaiting(s)
           Q2 == Awaiting(t)
           n == Len(s.stack) + 1
           l == s.part[1]
           r == s.part[2]
<1>1. /\ s \in States(N) /\ Rearranged(s.a, a, N, 0, N - 1) /\ 2 ^ s.deepest <= N
      /\ Fit(Q, N) /\ Separate(Q) /\ Ordered(s.a, Q, N) /\ (s.part \in Strict(N) \/ N = 1)
  BY DEF Sorting
<1>2. /\ Q = Append(s.stack, s.part) /\ Q \in Seq(Parts(N)) /\ Len(Q) = n /\ n \in Nat \ {0} /\ Q[n] = s.part
      /\ s.part \in Parts(N) /\ s.a \in Array(N)
  BY <1>1, AwaitingIs
<1>3. l \in 0..(N - 1) /\ r \in l..(N - 1) /\ s.part = <<l, r>>
  BY <1>2 DEF Parts
<1>4. N # 1 => l < r
  BY <1>1 DEF Strict
<1>5. TurnDone(s, t, N, l, r)
  BY <1>1, <1>3, TurnIs
<1>6. PICK p, B, C, i, j :
        /\ Divided(p, s.a, N, l, r) /\ p.i = i /\ p.j = j
        /\ i \in (l + 1)..(r + 1) /\ j \in (l - 1)..(r - 1) /\ j < i
        /\ Halves(B, C, l, r, i, j)
        /\ t \in States(N) /\ t.a = p.a
        /\ Q2 = Pushed(Pushed(s.stack, B), C)
        /\ Q2 \in Seq(Strict(N)) /\ Placed(Q2, Append(s.stack, s.part), n, B, C)
        /\ t.done \/ t.part \in Strict(N)
        /\ t.deepest = s.deepest \/ t.deepest \in 0..Len(Q2)
  BY <1>5 DEF TurnDone
<1>7. Placed(Q2, Q, n, B, C) /\ Q[n] = <<l, r>>
  BY <1>2, <1>3, <1>6
<1> HIDE DEF t, Q, Q2, n, l, r
<1> HIDE <1>5
<1>20. /\ Q \in Seq(Parts(N)) /\ n \in Nat \ {0} /\ Len(Q) = n
       /\ l \in 0..(N - 1) /\ r \in l..(N - 1) /\ Q[n] = <<l, r>>
       /\ i \in (l + 1)..(r + 1) /\ j \in (l - 1)..(r - 1) /\ j < i
       /\ Halves(B, C, l, r, i, j) /\ Q2 \in Seq(Strict(N)) /\ Placed(Q2, Q, n, B, C)
  BY <1>2, <1>3, <1>6, <1>7
<1>21. Fit(Q, N) /\ s.a \in Array(N) /\ Divided(p, s.a, N, l, r) /\ p.i = i /\ p.j = j
  BY <1>1, <1>2, <1>6
<1>8. Fit(Q2, N)
  BY <1>20, <1>21, FitPlaced
<1>9. /\ Separate(Q) => Separate(Q2)
      /\ Separate(Q) /\ Ordered(s.a, Q, N) => Ordered(p.a, Q2, N)
      /\ Joined(Q2, N) \subseteq Joined(Q, N)
      /\ l < r => \E k \in Joined(Q, N) : k \notin Joined(Q2, N) \/ ~Separate(Q)
  BY <1>20, <1>21, DividedParts
<1>10. Rearranged(t.a, a, N, 0, N - 1)
  <2>1. Rearranged(p.a, s.a, N, l, r)
    BY <1>6 DEF Divided
  <2>2. N \in Nat /\ l \in Int /\ r \in Int /\ l..r \subseteq 0..(N - 1)
    BY <1>3
  <2>3. Rearranged(p.a, s.a, N, 0, N - 1)
    BY <2>1, <2>2, RearrangedWider
  <2> DEFINE z == 0
             y == N - 1
  <2>4. z \in Int /\ y \in Int /\ z..y \subseteq 0..(N - 1)
    OBVIOUS
  <2>5. Rearranged(p.a, s.a, N, z, y) /\ Rearranged(s.a, a, N, z, y)
    BY <1>1, <2>3
  <2> HIDE DEF z, y
  <2>6. Rearranged(p.a, a, N, z, y)
    BY <2>2, <2>4, <2>5, RearrangedTwice
  <2> QED
    BY <1>6, <2>6 DEF z, y
<1>11. 2 ^ t.deepest <= N
  BY <1>1, <1>6, <1>8, DeepFits
<1>12. Sorting(t, a, N)
  BY <1>1, <1>6, <1>8, <1>9, <1>10, <1>11 DEF Sorting, Q2
<1>13. N = 1 => t.done
  <2> SUFFICES ASSUME N = 1, t.part \in Strict(N) PROVE FALSE
    BY <1>6
  <2>1. t.part[1] \in 0..(N - 1) /\ t.part[2] \in 0..(N - 1) /\ t.part[1] < t.part[2]
    BY DEF Strict, Parts
  <2> QED
    BY <2>1
<1>14. N # 1 => \E k \in Joined(Q, N) : k \notin Joined(Q2, N)
  BY <1>1, <1>4, <1>9
<1> QED
  BY <1>9, <1>12, <1>13, <1>14 DEF t, Q, Q2

LEMMA JoinedFinite ==
  ASSUME NEW N \in Nat \ {0}, NEW Q
  PROVE  IsFiniteSet(Joined(Q, N)) /\ Cardinality(Joined(Q, N)) \in 0..(N - 1)
<1>1. IsFiniteSet(0..(N - 2)) /\ Cardinality(0..(N - 2)) = N - 1
  <2>1. IsFiniteSet(0..(N - 2)) /\ Cardinality(0..(N - 2)) = IF 0 > N - 2 THEN 0 ELSE (N - 2) - 0 + 1
    BY FS_Interval
  <2> QED
    BY <2>1
<1>2. Joined(Q, N) \subseteq 0..(N - 2)
  BY DEF Joined
<1>3. IsFiniteSet(Joined(Q, N)) /\ Cardinality(Joined(Q, N)) <= Cardinality(0..(N - 2))
  BY <1>1, <1>2, FS_Subset
<1>4. Cardinality(Joined(Q, N)) \in Nat
  BY <1>3, FS_CardinalityType
<1> QED
  BY <1>1, <1>3, <1>4

(* The measure of the loop: neighbours that are still in a common part.     *)
LEMMA FewerJoined ==
  ASSUME NEW A, NEW B, IsFiniteSet(A), B \subseteq A, NEW k \in A, k \notin B
  PROVE  Cardinality(B) + 1 <= Cardinality(A)
<1>1. B \subseteq A \ {k}
  OBVIOUS
<1>2. IsFiniteSet(A \ {k}) /\ Cardinality(A \ {k}) = Cardinality(A) - 1
  BY FS_RemoveElement
<1>3. IsFiniteSet(B) /\ Cardinality(B) <= Cardinality(A \ {k})
  BY <1>1, <1>2, FS_Subset
<1>4. Cardinality(A) \in Nat /\ Cardinality(B) \in Nat
  BY <1>3, FS_CardinalityType
<1> QED
  BY <1>2, <1>3, <1>4

-----------------------------------------------------------------------------
(* The loop begins with one part, the whole array, or is done.              *)
LEMMA SortingStarts ==
  ASSUME NEW N \in Nat \ {0}, NEW a \in Array(N),
         NEW s, s = [a |-> a, part |-> <<0, N - 1>>, stack |-> <<>>, deepest |-> 0, wild |-> FALSE, done |-> FALSE]
  PROVE  Sorting(s, a, N)
<1> DEFINE part == <<0, N - 1>>
<1>1. part \in Parts(N) /\ part[1] = 0 /\ part[2] = N - 1 /\ (part \in Strict(N) \/ N = 1)
  <2>1. part \in Parts(N)
    BY DEF Parts
  <2>2. part[1] = 0 /\ part[2] = N - 1
    OBVIOUS
  <2> HIDE DEF part
  <2> QED
    BY <2>1, <2>2 DEF Strict
<1>2. s = [a |-> a, part |-> part, stack |-> <<>>, deepest |-> 0, wild |-> FALSE, done |-> FALSE]
  OBVIOUS
<1> HIDE DEF part
<1>3. s \in States(N)
  BY <1>1, <1>2 DEF States
<1>4. s.a = a /\ s.part = part /\ s.deepest = 0 /\ s.done = FALSE /\ s.stack = <<>>
  BY <1>2
<1>5. Rearranged(s.a, a, N, 0, N - 1)
  <2> DEFINE z == 0
             y == N - 1
  <2>1. N \in Nat /\ z \in Int /\ y \in Int /\ z..y \subseteq 0..(N - 1)
    OBVIOUS
  <2> HIDE DEF z, y
  <2>2. Rearranged(a, a, N, z, y)
    BY <2>1, RearrangedSame
  <2> QED
    BY <1>4, <2>2 DEF z, y
<1>6. 2 ^ s.deepest <= N
  BY <1>4, PowerZero
<1> DEFINE Q == Awaiting(s)
<1>7. Len(Q) = 1 /\ Q[1] = part
  BY <1>1, <1>4 DEF Awaiting
<1> HIDE DEF Q
<1>8. Fit(Q, N)
  <2> SUFFICES ASSUME NEW e \in 1..Len(Q) PROVE (Q[e][2] - Q[e][1] + 1) * 2 ^ (e - 1) <= N
    BY DEF Fit
  <2>1. e = 1 /\ e - 1 = 0
    BY <1>7
  <2>2. 2 ^ (e - 1) = 1 /\ Q[e][2] - Q[e][1] + 1 = N
    BY <1>1, <1>7, <2>1, PowerZero
  <2> DEFINE size == Q[e][2] - Q[e][1] + 1
             h == 2 ^ (e - 1)
  <2>3. size = N /\ h = 1
    BY <2>2
  <2> HIDE DEF size, h
  <2>4. size * h <= N
    BY <2>3
  <2> QED
    BY <2>4 DEF size, h
<1>9. Separate(Q)
  BY <1>7 DEF Separate
<1>10. Ordered(s.a, Q, N)
  <2> SUFFICES ASSUME NEW k \in 0..(N - 1), NEW m \in 0..(N - 1), k < m PROVE Within(Q, k, m)
    BY DEF Ordered
  <2>1. 1 \in 1..Len(Q) /\ Q[1][1] <= k /\ m <= Q[1][2]
    BY <1>1, <1>7
  <2> QED
    BY <2>1 DEF Within
<1> QED
  BY <1>1, <1>3, <1>4, <1>5, <1>6, <1>8, <1>9, <1>10 DEF Sorting, Q

(* A sort that is done stays so.                                            *)
LEMMA TurnDoneStays == ASSUME NEW s, s.done PROVE Turn(s) = s
BY DEF Turn

(* The turns: every one has fewer neighbours in a common part.              *)
LEMMA SortedInTime ==
  ASSUME NEW N \in Nat \ {0}, NEW a \in Array(N)
  PROVE  Sorting(qsort(a), a, N) /\ qsort(a).done
<1> DEFINE S == {s \in States(N) : Sorting(s, a, N)}
           F == [s \in S |-> Turn(s)]
           s0 == [a |-> a, part |-> <<0, N - 1>>, stack |-> <<>>, deepest |-> 0, wild |-> FALSE, done |-> FALSE]
           turns == CHOOSE turn : turn = [k \in 0..N |-> IF k = 0 THEN s0 ELSE Turn(turn[k - 1])]
           Left(s) == Cardinality(Joined(Awaiting(s), N))
<1>1. Size(a) = N
  BY SizeIs
<1>2. qsort(a) = turns[N]
  BY <1>1 DEF qsort, Iterate
<1>3. s0 \in S
  <2>1. Sorting(s0, a, N)
    BY SortingStarts
  <2> HIDE DEF s0
  <2>2. s0 \in States(N)
    BY <2>1 DEF Sorting
  <2> QED
    BY <2>1, <2>2
<1> HIDE DEF s0
<1>4. \A s \in S : s \in States(N) /\ Sorting(s, a, N) /\ Left(s) \in 0..(N - 1) /\ s.done \in BOOLEAN
  BY JoinedFinite DEF States
<1>5. ASSUME NEW s \in S
      PROVE  /\ Turn(s) \in S
             /\ s.done => Turn(s) = s
             /\ ~s.done /\ N # 1 => Left(Turn(s)) + 1 <= Left(s)
             /\ ~s.done /\ N = 1 => Turn(s).done
  <2>1. CASE s.done
    BY <2>1, TurnDoneStays
  <2>2. CASE ~s.done
    <3>1. Sorting(s, a, N)
      OBVIOUS
    <3>2. /\ Sorting(Turn(s), a, N)
          /\ Joined(Awaiting(Turn(s)), N) \subseteq Joined(Awaiting(s), N)
          /\ N # 1 => \E k \in Joined(Awaiting(s), N) : k \notin Joined(Awaiting(Turn(s)), N)
          /\ N = 1 => Turn(s).done
      BY <2>2, <3>1, TurnKeeps
    <3>3. Turn(s) \in States(N)
      BY <3>2 DEF Sorting
    <3>4. ASSUME N # 1 PROVE Left(Turn(s)) + 1 <= Left(s)
      <4>1. PICK k \in Joined(Awaiting(s), N) : k \notin Joined(Awaiting(Turn(s)), N)
        BY <3>2, <3>4
      <4>2. IsFiniteSet(Joined(Awaiting(s), N))
        BY JoinedFinite
      <4> QED
        BY <3>2, <4>1, <4>2, FewerJoined
    <3> QED
      BY <2>2, <3>2, <3>3, <3>4
  <2> QED
    BY <2>1, <2>2
<1> HIDE DEF S, Left
<1>6. F \in [S -> S] /\ \A s \in S : F[s] = Turn(s)
  BY <1>5
<1> HIDE DEF F
<1>7. PICK turn : Turns(turn, S, F, s0, N)
  BY <1>3, <1>6, TurnsExist
<1>8. turn \in [0..N -> S] /\ turn[0] = s0 /\ \A k \in 1..N : turn[k] = F[turn[k - 1]]
  BY <1>7 DEF Turns
<1>9. ASSUME NEW k \in 1..N PROVE turn[k] = Turn(turn[k - 1])
  <2>1. k - 1 \in 0..N
    OBVIOUS
  <2> QED
    BY <1>6, <1>8, <2>1, Zenon
<1>10. turn = [k \in 0..N |-> IF k = 0 THEN s0 ELSE Turn(turn[k - 1])]
  BY <1>8, <1>9
<1>11. turns = [k \in 0..N |-> IF k = 0 THEN s0 ELSE Turn(turns[k - 1])]
  BY <1>10
<1> HIDE DEF turns
<1> DEFINE T == {k \in 0..N : /\ turns[k] \in S
                              /\ turns[k].done \/ (Left(turns[k]) + k <= N - 1 /\ (N # 1 \/ k = 0))}
<1>12. 0 \in T
  <2>1. turns[0] = s0
    BY <1>11
  <2>2. turns[0] \in S /\ Left(turns[0]) \in 0..(N - 1)
    BY <1>3, <1>4, <2>1
  <2> QED
    BY <2>2
<1>13. ASSUME NEW k \in 0..(N - 1), k \in T PROVE k + 1 \in T
  <2>1. turns[k + 1] = Turn(turns[k])
    BY <1>11
  <2>2. turns[k] \in S /\ turns[k + 1] \in S
    BY <1>5, <1>13, <2>1
  <2>3. Left(turns[k]) \in 0..(N - 1) /\ Left(turns[k + 1]) \in 0..(N - 1)
    BY <1>4, <2>2
  <2>4. turns[k + 1].done \/ (Left(turns[k + 1]) + (k + 1) <= N - 1 /\ (N # 1 \/ k + 1 = 0))
    <3>1. CASE turns[k].done
      BY <1>5, <2>1, <2>2, <3>1
    <3>2. CASE ~turns[k].done /\ N = 1
      BY <1>5, <2>1, <2>2, <3>2
    <3>3. CASE ~turns[k].done /\ N # 1
      <4>1. Left(turns[k + 1]) + 1 <= Left(turns[k])
        BY <1>5, <2>1, <2>2, <3>3
      <4>2. Left(turns[k]) + k <= N - 1
        BY <1>13, <3>3
      <4> QED
        BY <2>3, <3>3, <4>1, <4>2
    <3> QED
      BY <3>1, <3>2, <3>3
  <2> QED
    BY <2>2, <2>4
<1>14. \A k \in 0..N : k \in T
  <2> HIDE DEF T
  <2> QED
    BY <1>12, <1>13, UpTo
<1>15. /\ turns[N] \in S
       /\ turns[N].done \/ (Left(turns[N]) + N <= N - 1 /\ (N # 1 \/ N = 0))
  BY <1>14
<1>16. Left(turns[N]) \in 0..(N - 1) /\ Sorting(turns[N], a, N)
  BY <1>4, <1>15
<1>17. turns[N].done
  <2>1. ~(Left(turns[N]) + N <= N - 1)
    BY <1>16
  <2> QED
    BY <1>15, <2>1
<1> QED
  BY <1>2, <1>16, <1>17

(* An array is sorted, with its elements, in place, in a stack no deeper    *)
(* than it doubles (gen/QSORT.C).                                           *)
LEMMA SortIsRight ==
  ASSUME NEW N \in Nat \ {0}, NEW a \in Array(N)
  PROVE  SortRight(qsort(a), a)
<1> DEFINE s == qsort(a)
<1>1. Sorting(s, a, N) /\ s.done
  BY SortedInTime
<1> HIDE DEF s
<1>2. /\ s.a \in Array(N) /\ s.wild = FALSE /\ Rearranged(s.a, a, N, 0, N - 1) /\ 2 ^ s.deepest <= N
      /\ Ordered(s.a, Awaiting(s), N)
  BY <1>1 DEF Sorting, States
<1>3. DOMAIN a = 0..(N - 1) /\ Size(a) = N
  BY SizeIs
<1>4. \A k \in DOMAIN a : Count(s.a, a[k]) = Count(a, a[k])
  BY <1>2, RearrangedCount
<1>5. \A k \in 1..(N - 1) : s.a[k - 1] <= s.a[k]
  <2> SUFFICES ASSUME NEW k \in 1..(N - 1) PROVE s.a[k - 1] <= s.a[k]
    OBVIOUS
  <2>1. k - 1 \in 0..(N - 1) /\ k \in 0..(N - 1) /\ k - 1 < k
    OBVIOUS
  <2>2. Awaiting(s) = <<>>
    BY <1>1 DEF Awaiting
  <2>3. ~Within(Awaiting(s), k - 1, k)
    BY <2>2 DEF Within
  <2> QED
    BY <1>2, <2>1, <2>3 DEF Ordered
<1> QED
  BY <1>1, <1>2, <1>3, <1>4, <1>5 DEF SortRight, s

-----------------------------------------------------------------------------
(* Shifts.                                                                  *)
LEMMA ShlrIs ==
  ASSUME NEW x \in Nat, NEW count \in Nat, NEW n \in Nat
  PROVE  Shlr(x, count, n) = x \div 2 ^ Limited(count, n)
<1> DEFINE c == Limited(count, n)
           F == [v \in Nat |-> v \div 2]
           turns == CHOOSE turn : turn = [k \in 0..c |-> IF k = 0 THEN x ELSE turn[k - 1] \div 2]
<1>1. c \in Nat
  BY DEF Limited
<1>2. Shlr(x, count, n) = turns[c]
  BY DEF Shlr, Iterate
<1> HIDE DEF c
<1>3. turns[0] = x /\ \A k \in 0..(c - 1) : turns[k + 1] = turns[k] \div 2
  <2>1. F \in [Nat -> Nat] /\ \A v \in Nat : F[v] = v \div 2
    OBVIOUS
  <2> HIDE DEF F
  <2>0. PICK turn : Turns(turn, Nat, F, x, c)
    BY <1>1, <2>1, TurnsExist
  <2>2. turn \in [0..c -> Nat] /\ turn[0] = x /\ \A k \in 1..c : turn[k] = F[turn[k - 1]]
    BY <2>0 DEF Turns
  <2>3. ASSUME NEW k \in 1..c PROVE turn[k] = turn[k - 1] \div 2
    <3>1. k - 1 \in 0..c
      BY <1>1
    <3> QED
      BY <2>1, <2>2, <3>1, Zenon
  <2>4. turn = [k \in 0..c |-> IF k = 0 THEN x ELSE turn[k - 1] \div 2]
    BY <1>1, <2>2, <2>3
  <2>5. turns = [k \in 0..c |-> IF k = 0 THEN x ELSE turns[k - 1] \div 2]
    BY <2>4
  <2> HIDE DEF turns
  <2> QED
    BY <1>1, <2>5
<1> HIDE DEF turns
<1> DEFINE T == {k \in 0..c : turns[k] = x \div 2 ^ k}
<1>4. 0 \in T
  BY <1>1, <1>3, PowerZero, DivByOne
<1>5. ASSUME NEW k \in 0..(c - 1), k \in T PROVE k + 1 \in T
  <2>1. turns[k + 1] = turns[k] \div 2 /\ turns[k] = x \div 2 ^ k
    BY <1>3, <1>5, Zenon
  <2>2. 2 ^ (k + 1) = 2 * 2 ^ k /\ 2 ^ k \in Nat \ {0}
    BY <1>1, PowerNext, PowerType
  <2>3. (x \div 2 ^ k) \div 2 = x \div (2 * 2 ^ k)
    <3>1. x \in Int
      OBVIOUS
    <3> QED
      BY <2>2, <3>1, HalvedQuotient, Zenon
  <2> QED
    BY <1>1, <2>1, <2>2, <2>3
<1>6. \A k \in 0..c : k \in T
  <2> HIDE DEF T
  <2> QED
    BY <1>1, <1>4, <1>5, UpTo
<1>7. turns[c] = x \div 2 ^ c
  BY <1>1, <1>6
<1> QED
  BY <1>2, <1>7 DEF c

LEMMA ShllIs ==
  ASSUME NEW n \in Nat, NEW x \in 0..(2 ^ n - 1), NEW count \in Nat
  PROVE  Shll(x, count, n) = (x * 2 ^ Limited(count, n)) % 2 ^ n
<1> DEFINE c == Limited(count, n)
           m == 2 ^ n
           F == [v \in Nat |-> (2 * v) % m]
           turns == CHOOSE turn : turn = [k \in 0..c |-> IF k = 0 THEN x ELSE Doubled(turn[k - 1], n)]
<1>1. c \in Nat /\ m \in Nat \ {0} /\ x \in 0..(m - 1) /\ x \in Nat
  BY PowerType DEF Limited
<1>2. Shll(x, count, n) = turns[c]
  BY DEF Shll, Iterate
<1>3. \A v : Doubled(v, n) = (2 * v) % m
  BY DEF Doubled
<1> HIDE DEF c, m
<1>4. turns[0] = x /\ \A k \in 0..(c - 1) : turns[k + 1] = (2 * turns[k]) % m
  <2>1. F \in [Nat -> Nat] /\ \A v \in Nat : F[v] = Doubled(v, n)
    BY <1>1, <1>3
  <2> HIDE DEF F
  <2>0. PICK turn : Turns(turn, Nat, F, x, c)
    BY <1>1, <2>1, TurnsExist, Zenon
  <2>2. turn \in [0..c -> Nat] /\ turn[0] = x /\ \A k \in 1..c : turn[k] = F[turn[k - 1]]
    BY <2>0 DEF Turns
  <2>3. ASSUME NEW k \in 1..c PROVE turn[k] = Doubled(turn[k - 1], n)
    <3>1. k - 1 \in 0..c
      BY <1>1
    <3> QED
      BY <2>1, <2>2, <3>1, Zenon
  <2>4. turn = [k \in 0..c |-> IF k = 0 THEN x ELSE Doubled(turn[k - 1], n)]
    BY <1>1, <2>2, <2>3
  <2>5. turns = [k \in 0..c |-> IF k = 0 THEN x ELSE Doubled(turns[k - 1], n)]
    BY <2>4
  <2> HIDE DEF turns
  <2>6. turns[0] = x /\ \A k \in 0..(c - 1) : turns[k + 1] = Doubled(turns[k], n)
    BY <1>1, <2>5
  <2> QED
    BY <1>3, <2>6
<1> HIDE DEF turns
<1> DEFINE T == {k \in 0..c : turns[k] = (x * 2 ^ k) % m}
<1>5. 0 \in T
  <2>1. turns[0] = x
    BY <1>1, <1>4
  <2>2. x % m = x
    BY <1>1, DivInRange
  <2> QED
    BY <1>1, <2>1, <2>2, PowerZero
<1>6. ASSUME NEW k \in 0..(c - 1), k \in T PROVE k + 1 \in T
  <2> DEFINE p == 2 ^ k
  <2>1. turns[k + 1] = (2 * turns[k]) % m /\ turns[k] = (x * p) % m
    BY <1>4, <1>6, Zenon
  <2>2. 2 ^ (k + 1) = 2 * p /\ p \in Nat \ {0}
    BY <1>1, PowerNext, PowerType
  <2> HIDE DEF p
  <2>3. x * p \in Int /\ 2 * (x * p) = x * (2 * p)
    BY <1>1, <2>2
  <2>4. (2 * ((x * p) % m)) % m = (2 * (x * p)) % m
    BY <1>1, <2>3, ModOfTimes
  <2>5. turns[k + 1] = (x * 2 ^ (k + 1)) % m
    BY <2>1, <2>2, <2>3, <2>4
  <2> QED
    BY <1>1, <2>5
<1>7. \A k \in 0..c : k \in T
  <2> HIDE DEF T
  <2> QED
    BY <1>1, <1>5, <1>6, UpTo
<1>8. turns[c] = (x * 2 ^ c) % m
  BY <1>1, <1>7
<1> QED
  BY <1>2, <1>8 DEF c, m

(* A shift to the right keeps the sign, and halves the number it means.    *)
LEMMA HalfIs ==
  ASSUME NEW n \in Nat, n >= 1, NEW x \in 0..(2 ^ n - 1)
  PROVE  /\ Half(x, n) \in 0..(2 ^ n - 1)
         /\ Value(x, n) \in Int
         /\ Value(Half(x, n), n) = Value(x, n) \div 2
<1> DEFINE p == 2 ^ (n - 1)
<1>1. n - 1 \in Nat /\ n = (n - 1) + 1
  OBVIOUS
<1>2. 2 ^ n = 2 * p /\ p \in Nat \ {0}
  BY <1>1, PowerNext, PowerType
<1> HIDE DEF p
<1>3. Half(x, n) = x \div 2 + (IF x >= p THEN p ELSE 0)
  BY DEF Half, Sign, p
<1>4. \A v : Value(v, n) = IF v >= p THEN v - 2 * p ELSE v
  BY <1>2 DEF Value, Sign, p
<1>5. x \in 0..(2 * p - 1)
  BY <1>2
<1>6. CASE x >= p
  <2>1. Half(x, n) = x \div 2 + p
    BY <1>3, <1>6
  <2>2. x \div 2 \in 0..(p - 1)
    BY <1>2, <1>5
  <2>3. (x - 2 * p) \div 2 = x \div 2 - p
    BY <1>2, <1>5
  <2> QED
    BY <1>2, <1>4, <1>5, <1>6, <2>1, <2>2, <2>3
<1>7. CASE ~(x >= p)
  <2>1. Half(x, n) = x \div 2
    BY <1>2, <1>3, <1>5, <1>7
  <2>2. x \div 2 \in 0..(p - 1)
    BY <1>2, <1>5, <1>7
  <2> QED
    BY <1>2, <1>4, <1>5, <1>7, <2>1, <2>2
<1> QED
  BY <1>6, <1>7

LEMMA SharIs ==
  ASSUME NEW n \in Nat, n >= 1, NEW x \in 0..(2 ^ n - 1), NEW count \in Nat
  PROVE  /\ Shar(x, count, n) \in 0..(2 ^ n - 1)
         /\ Value(Shar(x, count, n), n) = Value(x, n) \div 2 ^ Limited(count, n)
<1> DEFINE c == Limited(count, n)
           S == 0..(2 ^ n - 1)
           F == [v \in S |-> Half(v, n)]
           turns == CHOOSE turn : turn = [k \in 0..c |-> IF k = 0 THEN x ELSE Half(turn[k - 1], n)]
<1>1. c \in Nat /\ x \in S
  BY DEF Limited
<1>2. Shar(x, count, n) = turns[c]
  BY DEF Shar, Iterate
<1>3. \A v \in S : Half(v, n) \in S /\ Value(v, n) \in Int /\ Value(Half(v, n), n) = Value(v, n) \div 2
  BY HalfIs
<1> HIDE DEF c, S
<1>4. turns[0] = x /\ \A k \in 0..(c - 1) : turns[k + 1] = Half(turns[k], n)
  <2>1. F \in [S -> S] /\ \A v \in S : F[v] = Half(v, n)
    BY <1>3
  <2> HIDE DEF F
  <2>0. PICK turn : Turns(turn, S, F, x, c)
    BY <1>1, <2>1, TurnsExist
  <2>2. turn \in [0..c -> S] /\ turn[0] = x /\ \A k \in 1..c : turn[k] = F[turn[k - 1]]
    BY <2>0 DEF Turns
  <2>3. ASSUME NEW k \in 1..c PROVE turn[k] = Half(turn[k - 1], n)
    <3>1. k - 1 \in 0..c
      BY <1>1
    <3> QED
      BY <2>1, <2>2, <3>1, Zenon
  <2>4. turn = [k \in 0..c |-> IF k = 0 THEN x ELSE Half(turn[k - 1], n)]
    BY <1>1, <2>2, <2>3
  <2>5. turns = [k \in 0..c |-> IF k = 0 THEN x ELSE Half(turns[k - 1], n)]
    BY <2>4
  <2> HIDE DEF turns
  <2> QED
    BY <1>1, <2>5
<1> HIDE DEF turns
<1> DEFINE T == {k \in 0..c : turns[k] \in S /\ Value(turns[k], n) = Value(x, n) \div 2 ^ k}
<1>5. 0 \in T
  <2>1. turns[0] = x
    BY <1>1, <1>4
  <2>2. Value(x, n) \div 2 ^ 0 = Value(x, n)
    BY <1>1, <1>3, PowerZero, DivByOne
  <2> QED
    BY <1>1, <2>1, <2>2
<1>6. ASSUME NEW k \in 0..(c - 1), k \in T PROVE k + 1 \in T
  <2> DEFINE v == Value(x, n)
             p == 2 ^ k
  <2>1. turns[k + 1] = Half(turns[k], n) /\ turns[k] \in S /\ Value(turns[k], n) = v \div p
    BY <1>4, <1>6, Zenon
  <2>2. 2 ^ (k + 1) = 2 * p /\ p \in Nat \ {0}
    BY <1>1, PowerNext, PowerType
  <2>3. v \in Int
    BY <1>1, <1>3
  <2>4. turns[k + 1] \in S /\ Value(turns[k + 1], n) = Value(turns[k], n) \div 2
    BY <1>3, <2>1
  <2> HIDE DEF v, p
  <2>5. (v \div p) \div 2 = v \div (2 * p)
    BY <2>2, <2>3, HalvedQuotient, Zenon
  <2>6. Value(turns[k + 1], n) = v \div 2 ^ (k + 1)
    BY <2>1, <2>2, <2>4, <2>5
  <2> QED
    BY <1>1, <2>4, <2>6 DEF v
<1>7. \A k \in 0..c : k \in T
  <2> HIDE DEF T
  <2> QED
    BY <1>1, <1>5, <1>6, UpTo
<1>8. turns[c] \in S /\ Value(turns[c], n) = Value(x, n) \div 2 ^ c
  BY <1>1, <1>7
<1> QED
  BY <1>2, <1>8 DEF c, S

-----------------------------------------------------------------------------
(* The top bit of a number of n bits.                                      *)
LEMMA TopBit ==
  ASSUME NEW n \in Nat, n >= 1
  PROVE  2 ^ (n - 1) \in Nat \ {0} /\ 2 ^ n = 2 * 2 ^ (n - 1)
<1>1. n - 1 \in Nat /\ n = (n - 1) + 1
  OBVIOUS
<1>2. 2 ^ ((n - 1) + 1) = 2 * 2 ^ (n - 1)
  BY <1>1, PowerNext
<1> QED
  BY <1>1, <1>2, PowerType

LEMMA ShiftedAre ==
  ASSUME NEW n, NEW x, NEW count, ~(count >= n), NEW a, NEW b, NEW c,
         a = (x % 2 ^ (n - count)) * 2 ^ count, b = x \div 2 ^ count, Value(c, n) = Value(x, n) \div 2 ^ count
  PROVE  Shifted(<<a, b, c>>, x, count, n)
<1>1. <<a, b, c>>[1] = a /\ <<a, b, c>>[2] = b /\ <<a, b, c>>[3] = c
  OBVIOUS
<1> QED
  BY <1>1, Zenon DEF Shifted

(* Any count, also one beyond the width, which counts as the width.         *)
LEMMA ShiftsAreRight ==
  ASSUME NEW n \in Nat, n >= 1, NEW x \in 0..(2 ^ n - 1), NEW count \in Nat
  PROVE  Shifted(<<Shll(x, count, n), Shlr(x, count, n), Shar(x, count, n)>>, x, count, n)
<1> DEFINE c == Limited(count, n)
           m == 2 ^ n
           h == 2 ^ (n - 1)
           v == Value(x, n)
<1>1. c = (IF count >= n THEN n ELSE count) /\ c \in Nat
  BY DEF Limited
<1>2. m = 2 * h /\ h \in Nat \ {0} /\ x \in 0..(m - 1) /\ x \in Nat
  BY TopBit
<1>3. /\ Shll(x, count, n) = (x * 2 ^ c) % m
      /\ Shlr(x, count, n) = x \div 2 ^ c
      /\ Value(Shar(x, count, n), n) = v \div 2 ^ c
  BY <1>2, ShllIs, ShlrIs, SharIs
<1>4. v = (IF x >= h THEN x - m ELSE x) /\ (Sign(x, n) <=> x >= h)
  BY DEF Value, Sign
<1> HIDE DEF c, m, h, v
<1>5. CASE count >= n
  <2>1. c = n /\ 2 ^ c = m
    BY <1>1, <1>5 DEF m
  <2>2. (x * m) % m = 0
    <3>1. 0 \in Int /\ x \in Int /\ m \in Nat \ {0}
      BY <1>2
    <3>2. (0 + x * m) % m = 0 % m
      BY <3>1, ModPlusMultiple, Zenon
    <3>3. 0 + x * m = x * m /\ 0 % m = 0
      BY <3>1
    <3> QED
      BY <3>2, <3>3
  <2>3. x \div m = 0
    BY <1>2, DivInRange
  <2>4. v \div m = (IF x >= h THEN -1 ELSE 0)
    <3>1. CASE x >= h
      <4>1. v = (-1) * m + x /\ v \in Int /\ -1 \in Int
        BY <1>2, <1>4, <3>1
      <4> QED
        BY <1>2, <3>1, <4>1, DivModUnique
    <3>2. CASE ~(x >= h)
      BY <1>2, <1>4, <2>3, <3>2
    <3> QED
      BY <3>1, <3>2
  <2> QED
    BY <1>3, <1>4, <1>5, <2>1, <2>2, <2>3, <2>4 DEF Shifted, v
<1>6. CASE ~(count >= n)
  <2> DEFINE p == 2 ^ count
             q == 2 ^ (n - count)
  <2>1. c = count /\ n - count \in Nat /\ (n - count) + count = n
    BY <1>1, <1>6
  <2>2. m = q * p /\ p \in Nat \ {0} /\ q \in Nat \ {0}
    BY <2>1, PowerSum, PowerType DEF m
  <2> HIDE DEF p, q
  <2>3. (x * p) % (q * p) = (x % q) * p
    <3>1. x \in Int /\ p \in Nat \ {0} /\ q \in Nat \ {0}
      BY <1>2, <2>2
    <3> QED
      BY <3>1, ModScaled, Zenon
  <2>4. Shll(x, count, n) = (x % q) * p /\ Shlr(x, count, n) = x \div p
    BY <1>3, <2>1, <2>2, <2>3 DEF p
  <2>5. Value(Shar(x, count, n), n) = v \div p
    BY <1>3, <2>1 DEF p
  <2>6. Shll(x, count, n) = (x % 2 ^ (n - count)) * 2 ^ count /\ Shlr(x, count, n) = x \div 2 ^ count
    BY <2>4 DEF p, q
  <2>7. Value(Shar(x, count, n), n) = Value(x, n) \div 2 ^ count
    BY <2>5 DEF p, v
  <2> HIDE DEF p, q
  <2> QED
    BY <1>6, <2>6, <2>7, ShiftedAre
<1> QED
  BY <1>5, <1>6

-----------------------------------------------------------------------------
(* Comparisons.                                                             *)
LEMMA RelopIsRight ==
  ASSUME NEW n \in Nat, n >= 1, NEW x \in 0..(2 ^ n - 1), NEW y \in 0..(2 ^ n - 1)
  PROVE  OrderRight(Relop(x, y, n), x, y, n)
<1> DEFINE h == 2 ^ (n - 1)
           d == Difference(x, y, n)
<1>1. 2 ^ n = 2 * h /\ h \in Nat \ {0}
  BY TopBit
<1>2. \A v : Sign(v, n) = (v >= h) /\ Value(v, n) = IF v >= h THEN v - 2 * h ELSE v
  BY <1>1 DEF Sign, Value
<1>3. d = (x - y) % (2 * h)
  BY <1>1 DEF Difference
<1> HIDE DEF h, d
<1>4. x \in 0..(2 * h - 1) /\ y \in 0..(2 * h - 1)
  BY <1>1
<1>5. ASSUME (x >= h) = (y >= h) PROVE (d >= h) = (x < y)
  <2>1. CASE x < y
    <3>1. x - y = (-1) * (2 * h) + (x - y + 2 * h) /\ x - y + 2 * h \in 0..(2 * h - 1)
      BY <1>1, <1>4, <2>1
    <3>2. -1 \in Int /\ x - y \in Int /\ 2 * h \in Nat \ {0}
      BY <1>1, <1>4
    <3>3. (x - y) % (2 * h) = x - y + 2 * h
      BY <3>1, <3>2, DivModUnique
    <3>4. x - y + 2 * h >= h
      BY <1>1, <1>4, <1>5
    <3> QED
      BY <1>3, <2>1, <3>3, <3>4
  <2>2. CASE ~(x < y)
    <3>1. x - y \in 0..(h - 1)
      BY <1>1, <1>4, <1>5, <2>2
    <3>2. (x - y) % (2 * h) = x - y
      BY <1>1, <3>1
    <3> QED
      BY <1>1, <1>3, <2>2, <3>1, <3>2
  <2> QED
    BY <2>1, <2>2
<1>6. CASE Sign(x, n) # Sign(y, n)
  <2>1. (x >= h) # (y >= h)
    BY <1>2, <1>6
  <2>2. /\ Relop(x, y, n).s = Sign(x, n)
        /\ Relop(x, y, n).z = FALSE
        /\ Relop(x, y, n).c = (x < y)
    BY <1>6 DEF Relop, Flags
  <2>3. x # y /\ (x >= h) = (Value(x, n) < Value(y, n))
    BY <1>1, <1>2, <1>4, <2>1
  <2>4. Sign(x, n) = (x >= h)
    BY <1>2
  <2>5. Relop(x, y, n).z = (x = y) /\ Relop(x, y, n).s = (Value(x, n) < Value(y, n))
    BY <2>2, <2>3, <2>4
  <2> QED
    BY <2>2, <2>5 DEF OrderRight
<1>7. CASE Sign(x, n) = Sign(y, n)
  <2>1. (x >= h) = (y >= h)
    BY <1>2, <1>7
  <2>2. Relop(x, y, n) = [s |-> Sign(d, n), z |-> x = y, c |-> x < y]
    BY <1>7 DEF Relop, SubFlags, Flags, d
  <2>3. Sign(d, n) = (x < y)
    BY <1>2, <1>5, <2>1
  <2>4. (x < y) = (Value(x, n) < Value(y, n))
    BY <1>1, <1>2, <1>4, <2>1
  <2> QED
    BY <2>2, <2>3, <2>4 DEF OrderRight
<1> QED
  BY <1>6, <1>7

WORDs == 0..(2 ^ WORD - 1)
LONGs == 0..(2 ^ LONG - 1)

LEMMA WidthFacts ==
  /\ WORD \in Nat /\ WORD >= 2 /\ BYTE \in Nat /\ BYTE >= 1 /\ WORD = 2 * BYTE
  /\ LONG \in Nat /\ LONG >= 1 /\ LONG = WORD + WORD
  /\ 2 ^ LONG = 2 ^ WORD * 2 ^ WORD /\ 2 ^ WORD = 2 ^ BYTE * 2 ^ BYTE
  /\ 2 ^ (LONG - 1) = 2 ^ (WORD - 1) * 2 ^ WORD
<1>1. /\ WORD \in Nat /\ WORD >= 2 /\ BYTE \in Nat /\ BYTE >= 1 /\ WORD = BYTE + BYTE
      /\ LONG \in Nat /\ LONG >= 1 /\ LONG = WORD + WORD /\ WORD - 1 \in Nat /\ LONG - 1 = (WORD - 1) + WORD
  BY WordAssumption DEF LONG, BYTE
<1>2. 2 ^ (WORD + WORD) = 2 ^ WORD * 2 ^ WORD
  BY <1>1, PowerSum
<1>3. 2 ^ (BYTE + BYTE) = 2 ^ BYTE * 2 ^ BYTE
  BY <1>1, PowerSum
<1>4. 2 ^ ((WORD - 1) + WORD) = 2 ^ (WORD - 1) * 2 ^ WORD
  BY <1>1, PowerSum
<1> QED
  BY <1>1, <1>2, <1>3, <1>4

(* A long is its two words.                                                 *)
LEMMA HiLo ==
  ASSUME NEW x \in LONGs
  PROVE  /\ Hi(x) \in WORDs /\ Lo(x) \in WORDs
         /\ x = Hi(x) * 2 ^ WORD + Lo(x)
<1> DEFINE w == 2 ^ WORD
<1>1. w \in Nat \ {0} /\ 2 ^ LONG = w * w
  BY WidthFacts, PowerType
<1>2. x \in Nat /\ x < w * w
  <2>1. w * w \in Nat
    BY <1>1
  <2> QED
    BY <1>1, <2>1 DEF LONGs
<1>3. Hi(x) = x \div w /\ Lo(x) = x % w
  BY DEF Hi, Lo
<1> HIDE DEF w
<1>4. x = (x \div w) * w + (x % w) /\ x \div w \in Int /\ x % w \in 0..(w - 1)
  <2>1. x \in Int /\ w \in Nat \ {0}
    BY <1>1, <1>2
  <2> QED
    BY <2>1, DivMod, Zenon
<1>5. x \div w >= 0
  BY <1>1, <1>2, DivInRange
<1>6. x \div w < w
  <2> DEFINE q == x \div w
  <2> HIDE DEF q
  <2>1. SUFFICES ASSUME q >= w PROVE FALSE
    BY <1>1, <1>4 DEF q
  <2>2. q * w >= w * w
    BY <1>1, <1>4, <2>1 DEF q
  <2> QED
    BY <1>1, <1>2, <1>4, <2>2 DEF q
<1> QED
  BY <1>1, <1>3, <1>4, <1>5, <1>6 DEF WORDs, w

(* The high words decide, or else the low ones without signs.               *)
LEMMA LRelopIsRight ==
  ASSUME NEW x \in LONGs, NEW y \in LONGs
  PROVE  OrderRight(LRelop(x, y), x, y, LONG)
<1> DEFINE w == 2 ^ WORD
           h == 2 ^ (WORD - 1)
           H == 2 ^ (LONG - 1)
           a == Hi(x)
           b == Hi(y)
           c == Lo(x)
           d == Lo(y)
<1>1. w \in Nat \ {0} /\ h \in Nat \ {0} /\ H = h * w /\ w = 2 * h /\ 2 ^ LONG = w * w
  BY WidthFacts, PowerType, TopBit
<1>2. /\ a \in 0..(w - 1) /\ b \in 0..(w - 1) /\ c \in 0..(w - 1) /\ d \in 0..(w - 1)
      /\ x = a * w + c /\ y = b * w + d
  BY HiLo DEF WORDs
<1>3. /\ \A v : Sign(v, LONG) = (v >= H) /\ Value(v, LONG) = IF v >= H THEN v - w * w ELSE v
      /\ \A v : Sign(v, WORD) = (v >= h)
  BY <1>1 DEF Sign, Value
<1>4. OrderRight(Relop(a, b, WORD), a, b, WORD)
  BY <1>1, <1>2, WidthFacts, RelopIsRight
<1>5. /\ LRelop(x, y) = IF Sign(x, LONG) # Sign(y, LONG) THEN Flags(Sign(x, LONG), FALSE, Sign(y, LONG))
                        ELSE IF a # b THEN SubFlags(a, b, WORD)
                        ELSE Flags(c < d, c = d, c < d)
  BY DEF LRelop
<1> HIDE DEF w, h, H, a, b, c, d
<1>6. (x >= H) = (a >= h) /\ (y >= H) = (b >= h)
  <2>1. ASSUME NEW q \in 0..(w - 1), NEW r \in 0..(w - 1) PROVE (q * w + r >= h * w) = (q >= h)
    <3>1. CASE q >= h
      <4>1. q * w >= h * w
        BY <1>1, <3>1
      <4> QED
        BY <1>1, <3>1, <4>1
    <3>2. CASE q <= h - 1
      <4>1. q * w <= (h - 1) * w /\ (h - 1) * w = h * w - w
        BY <1>1, <3>2
      <4> QED
        BY <1>1, <3>2, <4>1
    <3> QED
      BY <1>1, <3>1, <3>2
  <2> QED
    BY <1>1, <1>2, <2>1
<1>7. x \in Nat /\ y \in Nat /\ H \in Nat /\ w * w \in Nat /\ x < w * w /\ y < w * w /\ w * w = 2 * H
  BY <1>1 DEF LONGs
<1>8. ASSUME a < b PROVE x < y
  <2>1. a * w <= (b - 1) * w /\ (b - 1) * w = b * w - w
    BY <1>1, <1>2, <1>8
  <2> QED
    BY <1>1, <1>2, <2>1
<1>9. ASSUME b < a PROVE y < x
  <2>1. b * w <= (a - 1) * w /\ (a - 1) * w = a * w - w
    BY <1>1, <1>2, <1>9
  <2> QED
    BY <1>1, <1>2, <2>1
<1>10. CASE Sign(x, LONG) # Sign(y, LONG)
  <2>1. (x >= H) # (y >= H)
    BY <1>3, <1>10
  <2>2. LRelop(x, y).s = (x >= H) /\ LRelop(x, y).z = FALSE /\ LRelop(x, y).c = (y >= H)
    BY <1>3, <1>5, <1>10 DEF Flags
  <2>3. x # y /\ (y >= H) = (x < y) /\ (x >= H) = (Value(x, LONG) < Value(y, LONG))
    BY <1>3, <1>7, <2>1
  <2>4. /\ LRelop(x, y).z = (x = y)
        /\ LRelop(x, y).c = (x < y)
        /\ LRelop(x, y).s = (Value(x, LONG) < Value(y, LONG))
    BY <2>2, <2>3
  <2> QED
    BY <2>4 DEF OrderRight
<1>11. CASE Sign(x, LONG) = Sign(y, LONG)
  <2>1. (x >= H) = (y >= H)
    BY <1>3, <1>11
  <2>2. (x < y) = (Value(x, LONG) < Value(y, LONG))
    BY <1>3, <1>7, <2>1
  <2>3. CASE a # b
    <3>1. LRelop(x, y) = SubFlags(a, b, WORD)
      BY <1>5, <1>11, <2>3
    <3>2. Sign(a, WORD) = Sign(b, WORD)
      BY <1>3, <1>6, <2>1
    <3>3. Relop(a, b, WORD) = SubFlags(a, b, WORD)
      BY <3>2 DEF Relop
    <3>4. LRelop(x, y).z = (a = b) /\ LRelop(x, y).c = (a < b) /\ LRelop(x, y).s = (Value(a, WORD) < Value(b, WORD))
      BY <1>4, <3>1, <3>3 DEF OrderRight
    <3>5. (Value(a, WORD) < Value(b, WORD)) = (a < b)
      BY <1>1, <1>2, <1>3, <1>6, <2>1 DEF Value, w
    <3>6. (a < b) = (x < y) /\ x # y
      BY <1>2, <1>7, <1>8, <1>9, <2>3
    <3> QED
      BY <2>2, <2>3, <3>4, <3>5, <3>6 DEF OrderRight
  <2>4. CASE a = b
    <3>1. LRelop(x, y) = [s |-> c < d, z |-> c = d, c |-> c < d]
      BY <1>5, <1>11, <2>4 DEF Flags
    <3>2. (c < d) = (x < y) /\ (c = d) = (x = y)
      <4>1. x = b * w + c /\ b * w \in Int
        BY <1>1, <1>2, <2>4
      <4> QED
        BY <1>1, <1>2, <4>1
    <3> QED
      BY <2>2, <3>1, <3>2 DEF OrderRight
  <2> QED
    BY <2>3, <2>4
<1> QED
  BY <1>10, <1>11

-----------------------------------------------------------------------------
(* Division.                                                                *)
LEMMA SubtractedIs ==
  ASSUME NEW N \in Nat, NEW D \in Nat \ {0}, NEW c \in Nat, NEW d \in Nat,
         N < D * 2 ^ c, d = (D * 2 ^ c) \div 2
  PROVE  Subtracted(N, d, c).quo = N \div D /\ Subtracted(N, d, c).n = N % D
<1> DEFINE S == [n : Nat, d : Nat, quo : Nat]
           F == [s \in S |-> Subtract(s)]
           s0 == [n |-> N, d |-> d, quo |-> 0]
           turns == CHOOSE turn : turn = [k \in 0..c |-> IF k = 0 THEN s0 ELSE Subtract(turn[k - 1])]
<1>1. Subtracted(N, d, c) = turns[c]
  BY DEF Subtracted, Iterate
<1>2. s0 \in S /\ s0.n = N /\ s0.d = d /\ s0.quo = 0
  OBVIOUS
<1>3. \A s \in S : /\ s.n \in Nat /\ s.d \in Nat /\ s.quo \in Nat /\ Subtract(s) \in S
                   /\ Subtract(s).d = s.d \div 2
                   /\ Subtract(s).n = (IF s.n >= s.d THEN s.n - s.d ELSE s.n)
                   /\ Subtract(s).quo = (IF s.n >= s.d THEN 2 * s.quo + 1 ELSE 2 * s.quo)
  <2> SUFFICES ASSUME NEW s \in S
               PROVE  /\ s.n \in Nat /\ s.d \in Nat /\ s.quo \in Nat /\ Subtract(s) \in S
                      /\ Subtract(s).d = s.d \div 2
                      /\ Subtract(s).n = (IF s.n >= s.d THEN s.n - s.d ELSE s.n)
                      /\ Subtract(s).quo = (IF s.n >= s.d THEN 2 * s.quo + 1 ELSE 2 * s.quo)
    OBVIOUS
  <2>1. s.n \in Nat /\ s.d \in Nat /\ s.quo \in Nat
    OBVIOUS
  <2>2. s.d \div 2 \in Nat
    BY <2>1
  <2>3. CASE s.n >= s.d
    BY <2>1, <2>2, <2>3 DEF Subtract
  <2>4. CASE ~(s.n >= s.d)
    BY <2>1, <2>2, <2>4 DEF Subtract
  <2> QED
    BY <2>3, <2>4
<1> HIDE DEF S, s0
<1>4. turns[0] = s0 /\ \A k \in 0..(c - 1) : turns[k + 1] = Subtract(turns[k])
  <2>1. F \in [S -> S] /\ \A s \in S : F[s] = Subtract(s)
    BY <1>3
  <2> HIDE DEF F
  <2>0. PICK turn : Turns(turn, S, F, s0, c)
    BY <1>2, <2>1, TurnsExist
  <2>2. turn \in [0..c -> S] /\ turn[0] = s0 /\ \A k \in 1..c : turn[k] = F[turn[k - 1]]
    BY <2>0 DEF Turns
  <2>3. ASSUME NEW k \in 1..c PROVE turn[k] = Subtract(turn[k - 1])
    <3>1. k - 1 \in 0..c
      OBVIOUS
    <3> QED
      BY <2>1, <2>2, <3>1, Zenon
  <2>4. turn = [k \in 0..c |-> IF k = 0 THEN s0 ELSE Subtract(turn[k - 1])]
    BY <2>2, <2>3
  <2>5. turns = [k \in 0..c |-> IF k = 0 THEN s0 ELSE Subtract(turns[k - 1])]
    BY <2>4
  <2> HIDE DEF turns
  <2> QED
    BY <2>5
<1> HIDE DEF turns
<1> DEFINE Inv(s, p) == /\ s \in S /\ s.d = (D * p) \div 2 /\ s.n < D * p
                        /\ N = s.quo * (D * p) + s.n
           T == {k \in 0..c : Inv(turns[k], 2 ^ (c - k))}
<1>5. 0 \in T
  <2>1. c - 0 = c /\ 0 \in 0..c /\ 2 ^ c \in Nat
    BY PowerType
  <2>2. N = 0 * (D * 2 ^ c) + N
    BY <2>1
  <2> QED
    BY <1>2, <1>4, <2>1, <2>2
<1>6. ASSUME NEW k \in 0..(c - 1), k \in T PROVE k + 1 \in T
  <2> DEFINE s == turns[k]
             t == turns[k + 1]
             p == 2 ^ (c - k)
             q == 2 ^ (c - (k + 1))
             e == D * q
  <2>1. t = Subtract(s) /\ Inv(s, p)
    BY <1>4, <1>6
  <2>2. p = 2 * q /\ q \in Nat \ {0}
    <3>1. c - (k + 1) \in Nat /\ c - k = (c - (k + 1)) + 1
      OBVIOUS
    <3> QED
      BY <3>1, PowerNext, PowerType
  <2> HIDE DEF s, t, p, q
  <2>3. e \in Nat \ {0} /\ D * p = 2 * e
    BY <2>2
  <2> HIDE DEF e
  <2>4. s \in S /\ s.d = e /\ s.n < 2 * e /\ N = s.quo * (2 * e) + s.n
    <3>1. (2 * e) \div 2 = e
      BY <2>3
    <3> QED
      BY <2>1, <2>3, <3>1
  <2>5. /\ s.n \in Nat /\ s.quo \in Nat /\ t \in S /\ t.d = s.d \div 2
        /\ t.n = (IF s.n >= s.d THEN s.n - s.d ELSE s.n)
        /\ t.quo = (IF s.n >= s.d THEN 2 * s.quo + 1 ELSE 2 * s.quo)
    BY <1>3, <2>1, <2>4
  <2>6. t.n < e /\ N = t.quo * e + t.n
    <3> DEFINE u == s.quo
               v == s.n
    <3>1. u \in Nat /\ v \in Nat /\ v < 2 * e /\ N = u * (2 * e) + v
      BY <2>4, <2>5
    <3>2. t.n = (IF v >= e THEN v - e ELSE v) /\ t.quo = (IF v >= e THEN 2 * u + 1 ELSE 2 * u)
      BY <2>4, <2>5
    <3> HIDE DEF u, v
    <3>3. u * (2 * e) = (2 * u) * e /\ (2 * u + 1) * e = (2 * u) * e + e /\ (2 * u) * e \in Nat
      BY <2>3, <3>1
    <3> QED
      BY <2>3, <3>1, <3>2, <3>3
  <2>7. Inv(t, q)
    BY <2>4, <2>5, <2>6 DEF e
  <2>8. k + 1 \in 0..c
    OBVIOUS
  <2> QED
    BY <2>7, <2>8 DEF t, q
<1>7. \A k \in 0..c : k \in T
  <2> HIDE DEF T
  <2> QED
    BY <1>5, <1>6, UpTo
<1>8. Inv(turns[c], 1)
  <2>1. c \in 0..c /\ c - c = 0
    OBVIOUS
  <2>2. c \in T
    BY <1>7, <2>1, Zenon
  <2>3. Inv(turns[c], 2 ^ (c - c))
    BY <2>2
  <2> QED
    BY <2>1, <2>3, PowerZero
<1> DEFINE s == turns[c]
<1>9. s.n \in 0..(D - 1) /\ s.quo \in Int /\ N = s.quo * D + s.n
  <2>1. s.n \in Nat /\ s.quo \in Nat /\ s.n < D * 1 /\ N = s.quo * (D * 1) + s.n
    BY <1>3, <1>8
  <2> QED
    BY <2>1
<1> HIDE DEF s
<1>10. N \div D = s.quo /\ N % D = s.n
  <2> DEFINE q == s.quo
             r == s.n
  <2>1. N \in Int /\ q \in Int /\ r \in 0..(D - 1) /\ N = q * D + r
    BY <1>9
  <2> HIDE DEF q, r
  <2>2. N \div D = q /\ N % D = r
    BY <2>1, DivModUnique
  <2> QED
    BY <2>2 DEF q, r
<1> QED
  BY <1>1, <1>10 DEF s

(* The divisor goes up until twice of it is more than the dividend.        *)
Shifting(turns, bits, N) ==
  \A k \in 0..(bits - 1) :
    \/ N < 2 * turns[k].d /\ turns[k + 1] = turns[k]
    \/ turns[k].d < 2 ^ (bits - 1) /\ turns[k + 1] = [n |-> turns[k].n, d |-> 2 * turns[k].d, count |-> turns[k].count + 1]

LEMMA AlignedIs ==
  ASSUME NEW bits \in Nat, bits >= 1, NEW N \in 0..(2 ^ bits - 1), NEW D \in 1..(2 ^ bits - 1), NEW turns,
         turns[0] = [n |-> N, d |-> D, count |-> 1], Shifting(turns, bits, N)
  PROVE  \E c \in Nat : /\ N < D * 2 ^ c
                        /\ turns[bits] = [n |-> N, d |-> (D * 2 ^ c) \div 2, count |-> c]
<1> DEFINE m == 2 ^ bits
           h == 2 ^ (bits - 1)
           Aligned(c) == [n |-> N, d |-> D * 2 ^ c, count |-> c + 1]
           T == {k \in 0..bits : \E c \in 0..k : /\ turns[k] = Aligned(c) /\ D * 2 ^ c < m
                                                 /\ c = k \/ N < 2 * (D * 2 ^ c)}
<1>1. m = 2 * h /\ h \in Nat \ {0} /\ N \in 0..(m - 1) /\ D \in 1..(m - 1)
  BY TopBit
<1> HIDE DEF m, h
<1>2. 0 \in T
  <2>1. Aligned(0) = turns[0] /\ D * 2 ^ 0 = D
    BY <1>1, PowerZero
  <2>2. D * 2 ^ 0 < m
    BY <1>1, <2>1
  <2>3. 0 \in 0..bits /\ 0 \in 0..0
    OBVIOUS
  <2> HIDE DEF Aligned
  <2> QED
    BY <2>1, <2>2, <2>3
<1>3. ASSUME NEW k \in 0..(bits - 1), k \in T PROVE k + 1 \in T
  <2>1. PICK c \in 0..k : /\ turns[k] = Aligned(c) /\ D * 2 ^ c < m
                          /\ c = k \/ N < 2 * (D * 2 ^ c)
    BY <1>3
  <2>2. 2 ^ (c + 1) = 2 * 2 ^ c /\ 2 ^ c \in Nat \ {0}
    BY PowerNext, PowerType
  <2> DEFINE e == D * 2 ^ c
  <2>3. e \in Nat /\ D * 2 ^ (c + 1) = 2 * e
    BY <1>1, <2>2
  <2>4. turns[k].d = e
    BY <2>1
  <2>5. k + 1 \in 0..bits
    OBVIOUS
  <2>6. CASE N < 2 * turns[k].d /\ turns[k + 1] = turns[k]
    <3>1. c \in 0..(k + 1) /\ turns[k + 1] = Aligned(c) /\ N < 2 * (D * 2 ^ c)
      BY <2>1, <2>4, <2>6
    <3> HIDE DEF Aligned
    <3> QED
      BY <2>1, <2>5, <3>1
  <2>7. CASE turns[k].d < h /\ turns[k + 1] = [n |-> turns[k].n, d |-> 2 * turns[k].d, count |-> turns[k].count + 1]
    <3> DEFINE b == c + 1
    <3> HIDE DEF e
    <3>0. turns[k] = [n |-> N, d |-> e, count |-> c + 1]
      BY <2>1 DEF e
    <3>1. turns[k + 1] = [n |-> N, d |-> 2 * e, count |-> (c + 1) + 1]
      BY <2>7, <3>0
    <3>2. turns[k + 1] = Aligned(b)
      BY <2>3, <3>1
    <3>3. D * 2 ^ b < m
      BY <1>1, <2>3, <2>4, <2>7
    <3>4. CASE c = k
      <4>1. b = k + 1 /\ b \in 0..(k + 1)
        BY <3>4
      <4> HIDE DEF Aligned, b
      <4> QED
        BY <2>5, <3>2, <3>3, <4>1
    <3>5. CASE N < 2 * (D * 2 ^ c)
      <4>1. b \in 0..(k + 1)
        OBVIOUS
      <4>2. N < 2 * (D * 2 ^ b)
        <5>1. N < 2 * e
          BY <3>5 DEF e
        <5> QED
          BY <1>1, <2>3, <5>1
      <4> HIDE DEF Aligned, b
      <4> QED
        BY <2>5, <3>2, <3>3, <4>1, <4>2
    <3> QED
      BY <2>1, <3>4, <3>5
  <2> HIDE DEF T
  <2> QED
    BY <2>6, <2>7 DEF Shifting, h
<1>4. \A k \in 0..bits : k \in T
  <2> HIDE DEF T
  <2> QED
    BY <1>2, <1>3, UpTo
<1>5. PICK c \in 0..bits : /\ turns[bits] = Aligned(c) /\ D * 2 ^ c < m
                           /\ c = bits \/ N < 2 * (D * 2 ^ c)
  BY <1>4
<1>6. c # bits
  <2>1. SUFFICES ASSUME c = bits PROVE FALSE
    OBVIOUS
  <2>2. D * m < m
    BY <1>5, <2>1 DEF m
  <2>3. D * m >= m
    BY <1>1
  <2>4. D * m \in Nat /\ m \in Nat
    BY <1>1
  <2> QED
    BY <2>2, <2>3, <2>4
<1>7. 2 ^ (c + 1) = 2 * 2 ^ c /\ 2 ^ c \in Nat \ {0}
  BY PowerNext, PowerType
<1> DEFINE e == D * 2 ^ c
<1>8. e \in Nat /\ D * 2 ^ (c + 1) = 2 * e
  BY <1>1, <1>7
<1>9. N < D * 2 ^ (c + 1)
  BY <1>5, <1>6, <1>8
<1>10. (D * 2 ^ (c + 1)) \div 2 = e
  BY <1>8
<1>11. turns[bits] = [n |-> N, d |-> (D * 2 ^ (c + 1)) \div 2, count |-> c + 1]
  BY <1>5, <1>10
<1>12. c + 1 \in Nat
  OBVIOUS
<1> QED
  BY <1>9, <1>11, <1>12

-----------------------------------------------------------------------------
(* The divisor shifted up by its count; the quotient's bits from there.     *)
Operands == [n : Nat, d : Nat, count : Nat]
LEMMA ShiftedUp ==
  ASSUME NEW v \in Operands
  PROVE  [v EXCEPT !.d = 2 * v.d, !.count = v.count + 1] = [n |-> v.n, d |-> 2 * v.d, count |-> v.count + 1]
<1> DEFINE e == 2 * v.d
           f == v.count + 1
           u == [v EXCEPT !.d = e, !.count = f]
<1>1. v = [n |-> v.n, d |-> v.d, count |-> v.count] /\ v.n \in Nat /\ v.d \in Nat /\ v.count \in Nat
  BY DEF Operands
<1>2. u \in Operands /\ u.n = v.n /\ u.d = 2 * v.d /\ u.count = v.count + 1
  <2>1. e \in Nat /\ f \in Nat /\ v \in [n : Nat, d : Nat, count : Nat]
    BY <1>1 DEF Operands
  <2> HIDE DEF e, f
  <2>2. u \in [n : Nat, d : Nat, count : Nat] /\ u.n = v.n /\ u.d = e /\ u.count = f
    BY <2>1
  <2> QED
    BY <2>2 DEF Operands, e, f
<1> HIDE DEF u
<1>3. u = [n |-> u.n, d |-> u.d, count |-> u.count]
  BY <1>2 DEF Operands
<1>4. u = [n |-> v.n, d |-> 2 * v.d, count |-> v.count + 1]
  BY <1>2, <1>3
<1> QED
  BY <1>4 DEF u

(* Quotient and remainder of longs, as they stand.                          *)
LEMMA DivideLongIs ==
  ASSUME NEW N \in LONGs, NEW D \in LONGs, D # 0
  PROVE  DivideLong(N, D).quo = N \div D /\ DivideLong(N, D).n = N % D
<1> DEFINE S == Operands
           F == [s \in S |-> AlignLong(s)]
           s0 == [n |-> N, d |-> D, count |-> 1]
           turns == CHOOSE turn : turn = [k \in 0..LONG |-> IF k = 0 THEN s0 ELSE AlignLong(turn[k - 1])]
           s == turns[LONG]
<1>1. DivideLong(N, D) = Subtracted(s.n, s.d, s.count)
  BY DEF DivideLong, Iterate
<1>2. /\ LONG \in Nat /\ LONG >= 1 /\ 2 ^ LONG \in Nat /\ N \in Nat /\ D \in Nat \ {0}
      /\ N \in 0..(2 ^ LONG - 1) /\ D \in 1..(2 ^ LONG - 1)
  <2>1. LONG \in Nat /\ LONG >= 1 /\ 2 ^ LONG \in Nat
    BY WidthFacts, PowerType
  <2> QED
    BY <2>1 DEF LONGs
<1>3. s0 \in S /\ s0.n = N
  BY <1>2 DEF Operands
<1>4. \A v \in S : /\ v.n \in Nat /\ v.d \in Nat /\ v.count \in Nat /\ AlignLong(v) \in S /\ AlignLong(v).n = v.n
                   /\ \/ Sign(v.d, LONG) /\ AlignLong(v) = v
                      \/ v.n < v.d /\ AlignLong(v) = v
                      \/ ~Sign(v.d, LONG) /\ AlignLong(v) = [n |-> v.n, d |-> 2 * v.d, count |-> v.count + 1]
  <2> DEFINE Raised(v) == [n |-> v.n, d |-> 2 * v.d, count |-> v.count + 1]
  <2>1. ASSUME NEW v \in S
        PROVE  v.n \in Nat /\ v.d \in Nat /\ v.count \in Nat /\ Raised(v) \in S /\ Raised(v).n = v.n
               /\ Raised(v) = [v EXCEPT !.d = 2 * v.d, !.count = v.count + 1]
    <3>1. v.n \in Nat /\ v.d \in Nat /\ v.count \in Nat
      BY DEF Operands
    <3>2. Raised(v) \in S /\ Raised(v).n = v.n
      BY <3>1 DEF Operands
    <3>3. Raised(v) = [v EXCEPT !.d = 2 * v.d, !.count = v.count + 1]
      BY ShiftedUp
    <3> QED
      BY <3>1, <3>2, <3>3
  <2>2. \A v : AlignLong(v) = IF Sign(v.d, LONG) \/ v.n < v.d THEN v ELSE [v EXCEPT !.d = 2 * v.d, !.count = v.count + 1]
    BY DEF AlignLong
  <2> HIDE DEF S
  <2>3. ASSUME NEW v \in S PROVE AlignLong(v) = IF Sign(v.d, LONG) \/ v.n < v.d THEN v ELSE Raised(v)
    BY <2>1, <2>2
  <2> HIDE DEF Raised
  <2>4. ASSUME NEW v \in S
        PROVE  /\ AlignLong(v) \in S /\ AlignLong(v).n = v.n
               /\ \/ Sign(v.d, LONG) /\ AlignLong(v) = v
                  \/ v.n < v.d /\ AlignLong(v) = v
                  \/ ~Sign(v.d, LONG) /\ AlignLong(v) = Raised(v)
    BY <2>1, <2>3
  <2> QED
    BY <2>1, <2>4 DEF Raised
<1>5. \A v : Sign(v, LONG) <=> (v >= 2 ^ (LONG - 1))
  BY DEF Sign
<1> HIDE DEF S, s0
<1>6. turns[0] = s0 /\ (\A k \in 0..LONG : turns[k] \in S) /\ \A k \in 0..(LONG - 1) : turns[k + 1] = AlignLong(turns[k])
  <2>1. F \in [S -> S] /\ \A v \in S : F[v] = AlignLong(v)
    BY <1>4
  <2> HIDE DEF F
  <2>0. PICK turn : Turns(turn, S, F, s0, LONG)
    BY <1>2, <1>3, <2>1, TurnsExist
  <2>2. turn \in [0..LONG -> S] /\ turn[0] = s0 /\ \A k \in 1..LONG : turn[k] = F[turn[k - 1]]
    BY <2>0 DEF Turns
  <2>3. ASSUME NEW k \in 1..LONG PROVE turn[k] = AlignLong(turn[k - 1])
    <3>1. k - 1 \in 0..LONG
      BY <1>2
    <3> QED
      BY <2>1, <2>2, <3>1, Zenon
  <2>4. turn = [k \in 0..LONG |-> IF k = 0 THEN s0 ELSE AlignLong(turn[k - 1])]
    BY <1>2, <2>2, <2>3
  <2>5. turns = [k \in 0..LONG |-> IF k = 0 THEN s0 ELSE AlignLong(turns[k - 1])]
    BY <2>4
  <2> HIDE DEF turns
  <2>6. \A k \in 1..LONG : turns[k] = AlignLong(turns[k - 1])
    BY <1>2, <2>5
  <2>7. turns[0] = s0
    BY <1>2, <2>5
  <2> DEFINE T == {k \in 0..LONG : turns[k] \in S}
  <2>8. 0 \in T
    BY <1>2, <1>3, <2>7
  <2>9. ASSUME NEW k \in 0..(LONG - 1), k \in T PROVE k + 1 \in T
    <3>1. turns[k + 1] = AlignLong(turns[k])
      BY <1>2, <2>6
    <3> QED
      BY <1>2, <1>4, <2>9, <3>1
  <2>10. \A k \in 0..LONG : k \in T
    <3> HIDE DEF T
    <3> QED
      BY <1>2, <2>8, <2>9, UpTo
  <2> QED
    BY <1>2, <2>6, <2>7, <2>10
<1> HIDE DEF turns
<1>7. \A k \in 0..LONG : turns[k].n = N
  <2> DEFINE T == {k \in 0..LONG : turns[k].n = N}
  <2>1. 0 \in T
    BY <1>2, <1>3, <1>6
  <2>2. ASSUME NEW k \in 0..(LONG - 1), k \in T PROVE k + 1 \in T
    <3>1. turns[k + 1] = AlignLong(turns[k]) /\ turns[k] \in S
      BY <1>2, <1>6
    <3> QED
      BY <1>2, <1>4, <2>2, <3>1
  <2>3. \A k \in 0..LONG : k \in T
    <3> HIDE DEF T
    <3> QED
      BY <1>2, <2>1, <2>2, UpTo
  <2> QED
    BY <2>3
<1>8. Shifting(turns, LONG, N)
  <2> DEFINE h == 2 ^ (LONG - 1)
  <2>0. 2 ^ LONG = 2 * h /\ h \in Nat \ {0} /\ N < 2 * h
    BY <1>2, TopBit
  <2> HIDE DEF h
  <2> SUFFICES ASSUME NEW k \in 0..(LONG - 1)
               PROVE  \/ N < 2 * turns[k].d /\ turns[k + 1] = turns[k]
                      \/ turns[k].d < h /\ turns[k + 1] = [n |-> turns[k].n, d |-> 2 * turns[k].d, count |-> turns[k].count + 1]
    BY DEF Shifting, h
  <2>1. turns[k] \in S /\ turns[k + 1] = AlignLong(turns[k]) /\ turns[k].n = N
    BY <1>2, <1>6, <1>7
  <2>2. turns[k].d \in Nat
    BY <1>4, <2>1
  <2>3. Sign(turns[k].d, LONG) <=> (turns[k].d >= h)
    BY <1>5 DEF h
  <2>4. \/ Sign(turns[k].d, LONG) /\ turns[k + 1] = turns[k]
        \/ N < turns[k].d /\ turns[k + 1] = turns[k]
        \/ ~Sign(turns[k].d, LONG) /\ turns[k + 1] = [n |-> turns[k].n, d |-> 2 * turns[k].d, count |-> turns[k].count + 1]
    BY <1>4, <2>1
  <2>5. CASE Sign(turns[k].d, LONG) /\ turns[k + 1] = turns[k]
    <3>1. N < 2 * turns[k].d
      BY <1>2, <2>0, <2>2, <2>3, <2>5
    <3> QED
      BY <2>5, <3>1
  <2>6. CASE N < turns[k].d /\ turns[k + 1] = turns[k]
    <3>1. N < 2 * turns[k].d
      BY <1>2, <2>2, <2>6
    <3> QED
      BY <2>6, <3>1
  <2>7. CASE ~Sign(turns[k].d, LONG) /\ turns[k + 1] = [n |-> turns[k].n, d |-> 2 * turns[k].d, count |-> turns[k].count + 1]
    <3>1. turns[k].d < h
      BY <2>0, <2>2, <2>3, <2>7
    <3> QED
      BY <2>7, <3>1
  <2> QED
    BY <2>4, <2>5, <2>6, <2>7, Zenon
<1>9. PICK c \in Nat : N < D * 2 ^ c /\ s = [n |-> N, d |-> (D * 2 ^ c) \div 2, count |-> c]
  BY <1>2, <1>6, <1>8, AlignedIs DEF s0
<1> DEFINE d == (D * 2 ^ c) \div 2
<1>10. DivideLong(N, D) = Subtracted(N, d, c)
  BY <1>1, <1>9
<1>11. d \in Nat
  <2>1. D * 2 ^ c \in Nat
    BY <1>2, PowerType
  <2> QED
    BY <2>1
<1>12. d = (D * 2 ^ c) \div 2
  OBVIOUS
<1> HIDE DEF d
<1>13. Subtracted(N, d, c).quo = N \div D /\ Subtracted(N, d, c).n = N % D
  BY <1>2, <1>9, <1>11, <1>12, SubtractedIs
<1> QED
  BY <1>10, <1>13

(* Quotient and remainder of words, as they stand.                          *)
LEMMA DivideWordIs ==
  ASSUME NEW N \in WORDs, NEW D \in WORDs, D # 0
  PROVE  DivideWord(N, D).quo = N \div D /\ DivideWord(N, D).n = N % D
<1> DEFINE S == Operands
           F == [s \in S |-> AlignWord(s)]
           s0 == [n |-> N, d |-> D, count |-> 1]
           turns == CHOOSE turn : turn = [k \in 0..WORD |-> IF k = 0 THEN s0 ELSE AlignWord(turn[k - 1])]
           s == turns[WORD]
<1>1. DivideWord(N, D) = Subtracted(s.n, s.d, s.count)
  BY DEF DivideWord, Iterate
<1>2. /\ WORD \in Nat /\ WORD >= 1 /\ 2 ^ WORD \in Nat /\ N \in Nat /\ D \in Nat \ {0}
      /\ N \in 0..(2 ^ WORD - 1) /\ D \in 1..(2 ^ WORD - 1)
  <2>1. WORD \in Nat /\ WORD >= 1 /\ 2 ^ WORD \in Nat
    BY WidthFacts, PowerType
  <2> QED
    BY <2>1 DEF WORDs
<1>3. s0 \in S /\ s0.n = N
  BY <1>2 DEF Operands
<1>4. \A v \in S : /\ v.n \in Nat /\ v.d \in Nat /\ v.count \in Nat /\ AlignWord(v) \in S /\ AlignWord(v).n = v.n
                   /\ \/ Sign(v.d, WORD) /\ AlignWord(v) = v
                      \/ v.n < 2 * v.d /\ AlignWord(v) = v
                      \/ ~Sign(v.d, WORD) /\ AlignWord(v) = [n |-> v.n, d |-> 2 * v.d, count |-> v.count + 1]
  <2> DEFINE Raised(v) == [n |-> v.n, d |-> 2 * v.d, count |-> v.count + 1]
  <2>1. ASSUME NEW v \in S
        PROVE  v.n \in Nat /\ v.d \in Nat /\ v.count \in Nat /\ Raised(v) \in S /\ Raised(v).n = v.n
               /\ Raised(v) = [v EXCEPT !.d = 2 * v.d, !.count = v.count + 1]
    <3>1. v.n \in Nat /\ v.d \in Nat /\ v.count \in Nat
      BY DEF Operands
    <3>2. Raised(v) \in S /\ Raised(v).n = v.n
      BY <3>1 DEF Operands
    <3>3. Raised(v) = [v EXCEPT !.d = 2 * v.d, !.count = v.count + 1]
      BY ShiftedUp
    <3> QED
      BY <3>1, <3>2, <3>3
  <2>2. \A v : AlignWord(v) = IF Sign(v.d, WORD) \/ v.n < 2 * v.d THEN v ELSE [v EXCEPT !.d = 2 * v.d, !.count = v.count + 1]
    BY DEF AlignWord
  <2> HIDE DEF S
  <2>3. ASSUME NEW v \in S PROVE AlignWord(v) = IF Sign(v.d, WORD) \/ v.n < 2 * v.d THEN v ELSE Raised(v)
    BY <2>1, <2>2
  <2> HIDE DEF Raised
  <2>4. ASSUME NEW v \in S
        PROVE  /\ AlignWord(v) \in S /\ AlignWord(v).n = v.n
               /\ \/ Sign(v.d, WORD) /\ AlignWord(v) = v
                  \/ v.n < 2 * v.d /\ AlignWord(v) = v
                  \/ ~Sign(v.d, WORD) /\ AlignWord(v) = Raised(v)
    BY <2>1, <2>3
  <2> QED
    BY <2>1, <2>4 DEF Raised
<1>5. \A v : Sign(v, WORD) <=> (v >= 2 ^ (WORD - 1))
  BY DEF Sign
<1> HIDE DEF S, s0
<1>6. turns[0] = s0 /\ (\A k \in 0..WORD : turns[k] \in S) /\ \A k \in 0..(WORD - 1) : turns[k + 1] = AlignWord(turns[k])
  <2>1. F \in [S -> S] /\ \A v \in S : F[v] = AlignWord(v)
    BY <1>4
  <2> HIDE DEF F
  <2>0. PICK turn : Turns(turn, S, F, s0, WORD)
    BY <1>2, <1>3, <2>1, TurnsExist
  <2>2. turn \in [0..WORD -> S] /\ turn[0] = s0 /\ \A k \in 1..WORD : turn[k] = F[turn[k - 1]]
    BY <2>0 DEF Turns
  <2>3. ASSUME NEW k \in 1..WORD PROVE turn[k] = AlignWord(turn[k - 1])
    <3>1. k - 1 \in 0..WORD
      BY <1>2
    <3> QED
      BY <2>1, <2>2, <3>1, Zenon
  <2>4. turn = [k \in 0..WORD |-> IF k = 0 THEN s0 ELSE AlignWord(turn[k - 1])]
    BY <1>2, <2>2, <2>3
  <2>5. turns = [k \in 0..WORD |-> IF k = 0 THEN s0 ELSE AlignWord(turns[k - 1])]
    BY <2>4
  <2> HIDE DEF turns
  <2>6. \A k \in 1..WORD : turns[k] = AlignWord(turns[k - 1])
    BY <1>2, <2>5
  <2>7. turns[0] = s0
    BY <1>2, <2>5
  <2> DEFINE T == {k \in 0..WORD : turns[k] \in S}
  <2>8. 0 \in T
    BY <1>2, <1>3, <2>7
  <2>9. ASSUME NEW k \in 0..(WORD - 1), k \in T PROVE k + 1 \in T
    <3>1. turns[k + 1] = AlignWord(turns[k])
      BY <1>2, <2>6
    <3> QED
      BY <1>2, <1>4, <2>9, <3>1
  <2>10. \A k \in 0..WORD : k \in T
    <3> HIDE DEF T
    <3> QED
      BY <1>2, <2>8, <2>9, UpTo
  <2> QED
    BY <1>2, <2>6, <2>7, <2>10
<1> HIDE DEF turns
<1>7. \A k \in 0..WORD : turns[k].n = N
  <2> DEFINE T == {k \in 0..WORD : turns[k].n = N}
  <2>1. 0 \in T
    BY <1>2, <1>3, <1>6
  <2>2. ASSUME NEW k \in 0..(WORD - 1), k \in T PROVE k + 1 \in T
    <3>1. turns[k + 1] = AlignWord(turns[k]) /\ turns[k] \in S
      BY <1>2, <1>6
    <3> QED
      BY <1>2, <1>4, <2>2, <3>1
  <2>3. \A k \in 0..WORD : k \in T
    <3> HIDE DEF T
    <3> QED
      BY <1>2, <2>1, <2>2, UpTo
  <2> QED
    BY <2>3
<1>8. Shifting(turns, WORD, N)
  <2> DEFINE h == 2 ^ (WORD - 1)
  <2>0. 2 ^ WORD = 2 * h /\ h \in Nat \ {0} /\ N < 2 * h
    BY <1>2, TopBit
  <2> HIDE DEF h
  <2> SUFFICES ASSUME NEW k \in 0..(WORD - 1)
               PROVE  \/ N < 2 * turns[k].d /\ turns[k + 1] = turns[k]
                      \/ turns[k].d < h /\ turns[k + 1] = [n |-> turns[k].n, d |-> 2 * turns[k].d, count |-> turns[k].count + 1]
    BY DEF Shifting, h
  <2>1. turns[k] \in S /\ turns[k + 1] = AlignWord(turns[k]) /\ turns[k].n = N
    BY <1>2, <1>6, <1>7
  <2>2. turns[k].d \in Nat
    BY <1>4, <2>1
  <2>3. Sign(turns[k].d, WORD) <=> (turns[k].d >= h)
    BY <1>5 DEF h
  <2>4. \/ Sign(turns[k].d, WORD) /\ turns[k + 1] = turns[k]
        \/ N < 2 * turns[k].d /\ turns[k + 1] = turns[k]
        \/ ~Sign(turns[k].d, WORD) /\ turns[k + 1] = [n |-> turns[k].n, d |-> 2 * turns[k].d, count |-> turns[k].count + 1]
    BY <1>4, <2>1
  <2>5. CASE Sign(turns[k].d, WORD) /\ turns[k + 1] = turns[k]
    <3>1. N < 2 * turns[k].d
      BY <1>2, <2>0, <2>2, <2>3, <2>5
    <3> QED
      BY <2>5, <3>1
  <2>6. CASE N < 2 * turns[k].d /\ turns[k + 1] = turns[k]
    BY <2>6
  <2>7. CASE ~Sign(turns[k].d, WORD) /\ turns[k + 1] = [n |-> turns[k].n, d |-> 2 * turns[k].d, count |-> turns[k].count + 1]
    <3>1. turns[k].d < h
      BY <2>0, <2>2, <2>3, <2>7
    <3> QED
      BY <2>7, <3>1
  <2> QED
    BY <2>4, <2>5, <2>6, <2>7, Zenon
<1>9. PICK c \in Nat : N < D * 2 ^ c /\ s = [n |-> N, d |-> (D * 2 ^ c) \div 2, count |-> c]
  BY <1>2, <1>6, <1>8, AlignedIs DEF s0
<1> DEFINE d == (D * 2 ^ c) \div 2
<1>10. DivideWord(N, D) = Subtracted(N, d, c)
  BY <1>1, <1>9
<1>11. d \in Nat
  <2>1. D * 2 ^ c \in Nat
    BY <1>2, PowerType
  <2> QED
    BY <2>1
<1>12. d = (D * 2 ^ c) \div 2
  OBVIOUS
<1> HIDE DEF d
<1>13. Subtracted(N, d, c).quo = N \div D /\ Subtracted(N, d, c).n = N % D
  BY <1>2, <1>9, <1>11, <1>12, SubtractedIs
<1> QED
  BY <1>10, <1>13

(* With signs.                                                              *)
LEMMA Negated ==
  ASSUME NEW n \in Nat, NEW x \in 0..(2 ^ n - 1)
  PROVE  Negat(x, n) = (-x) % 2 ^ n
<1> DEFINE m == 2 ^ n
<1>1. m \in Nat \ {0} /\ -x \in Int /\ 1 \in Int /\ x \in Int
  <2>1. m \in Nat \ {0}
    BY PowerType
  <2> QED
    BY <2>1
<1>2. Negat(x, n) = (m - x) % m
  BY DEF Negat
<1> HIDE DEF m
<1>3. (-x + 1 * m) % m = (-x) % m
  BY <1>1, ModPlusMultiple, Zenon
<1>4. -x + 1 * m = m - x
  BY <1>1
<1> QED
  BY <1>2, <1>3, <1>4 DEF m

(* What it means without its sign.                                          *)
LEMMA NegIfIs ==
  ASSUME NEW n \in Nat, n >= 1, NEW x \in 0..(2 ^ n - 1)
  PROVE  /\ NegIf(x, n) = Magnitude(Value(x, n)) /\ NegIf(x, n) \in 0..(2 ^ n - 1)
         /\ Value(x, n) \in Int /\ (Sign(x, n) <=> Value(x, n) < 0) /\ (x = 0 <=> NegIf(x, n) = 0)
<1> DEFINE m == 2 ^ n
           h == 2 ^ (n - 1)
<1>1. m = 2 * h /\ h \in Nat \ {0} /\ x \in 0..(m - 1)
  BY TopBit
<1>2. /\ NegIf(x, n) = IF x >= h THEN (m - x) % m ELSE x
      /\ Value(x, n) = IF x >= h THEN x - m ELSE x
      /\ Sign(x, n) <=> x >= h
  BY DEF NegIf, Value, Sign, Negat
<1> HIDE DEF m, h
<1>3. CASE x >= h
  <2>1. m - x \in Nat /\ m - x < m /\ m \in Nat \ {0}
    BY <1>1, <1>3
  <2>2. (m - x) % m = m - x
    BY <2>1, DivInRange
  <2>3. NegIf(x, n) = m - x /\ Value(x, n) = x - m
    BY <1>2, <1>3, <2>2
  <2>4. Magnitude(x - m) = m - x
    BY <1>1 DEF Magnitude
  <2> QED
    BY <1>1, <1>2, <1>3, <2>1, <2>3, <2>4 DEF m
<1>4. CASE ~(x >= h)
  <2>1. NegIf(x, n) = x /\ Value(x, n) = x
    BY <1>2, <1>4
  <2>2. Magnitude(x) = x
    BY <1>1 DEF Magnitude
  <2> QED
    BY <1>1, <1>2, <1>4, <2>1, <2>2 DEF m
<1> QED
  BY <1>3, <1>4

LEMMA QuotientInRange ==
  ASSUME NEW a \in Nat, NEW d \in Nat \ {0}
  PROVE  a \div d \in 0..a /\ a % d \in 0..a /\ a = d * (a \div d) + (a % d)
<1> DEFINE q == a \div d
           r == a % d
<1>1. a = q * d + r /\ q \in Nat /\ r \in 0..(d - 1)
  <2>1. a \in Int /\ a \in Nat
    OBVIOUS
  <2>2. a = q * d + r /\ r \in 0..(d - 1)
    BY <2>1, DivMod, Zenon
  <2>3. q \in Nat
    BY <2>1, DivInRange, Zenon
  <2> QED
    BY <2>2, <2>3
<1> HIDE DEF q, r
<1>2. q * d >= q /\ q * d \in Nat /\ q * d = d * q
  BY <1>1
<1>3. q \in 0..a /\ r \in 0..a /\ a = d * q + r
  BY <1>1, <1>2
<1> QED
  BY <1>3 DEF q, r

(* The quotient and the remainder of the magnitudes, each with its sign.    *)
LEMMA SignsRight ==
  ASSUME NEW bits \in Nat, bits >= 1, NEW n \in 0..(2 ^ bits - 1), NEW d \in 0..(2 ^ bits - 1), d # 0,
         NEW quo, NEW rem, quo = NegIf(n, bits) \div NegIf(d, bits), rem = NegIf(n, bits) % NegIf(d, bits)
  PROVE  SignedRight(<<IF Sign(n, bits) # Sign(d, bits) THEN Negat(quo, bits) ELSE quo,
                       IF Sign(n, bits) THEN Negat(rem, bits) ELSE rem>>, n, d, bits)
<1> DEFINE q == quo
           r == rem
           m == 2 ^ bits
           a == Value(n, bits)
           b == Value(d, bits)
           A == Magnitude(a)
           B == Magnitude(b)
           t == Towards0(a, b)
<1>1. /\ NegIf(n, bits) = A /\ NegIf(d, bits) = B /\ A \in 0..(m - 1) /\ B \in 0..(m - 1)
      /\ a \in Int /\ b \in Int /\ (Sign(n, bits) <=> a < 0) /\ (Sign(d, bits) <=> b < 0) /\ B # 0
  BY NegIfIs
<1>2. m \in Nat \ {0}
  BY PowerType
<1>3. A = (IF a < 0 THEN -a ELSE a) /\ B = (IF b < 0 THEN -b ELSE b)
  BY DEF Magnitude
<1>4. t = IF (a < 0) # (b < 0) THEN -(A \div B) ELSE A \div B
  BY DEF Towards0
<1>0. q = NegIf(n, bits) \div NegIf(d, bits) /\ r = NegIf(n, bits) % NegIf(d, bits)
  OBVIOUS
<1> HIDE DEF m, a, b, A, B, t, q, r
<1>5. A \in Nat /\ B \in Nat \ {0}
  BY <1>1, <1>2
<1>6. q = A \div B /\ r = A % B
  BY <1>0, <1>1
<1>7. q \in 0..A /\ r \in 0..A /\ A = B * q + r
  BY <1>5, <1>6, QuotientInRange
<1>8. q \in 0..(m - 1) /\ r \in 0..(m - 1) /\ q \in Nat /\ r \in Nat
  <2>1. A <= m - 1 /\ m \in Nat /\ A \in Nat
    BY <1>1, <1>2, <1>5
  <2>2. q \in Nat /\ q <= A /\ r \in Nat /\ r <= A
    BY <1>7, <2>1
  <2> QED
    BY <2>1, <2>2
<1>9. Negat(q, bits) = (-q) % m /\ Negat(r, bits) = (-r) % m
  BY <1>8, Negated DEF m
<1>10. q % m = q /\ r % m = r
  BY <1>2, <1>8, DivInRange
<1>11. t = IF (a < 0) # (b < 0) THEN -q ELSE q
  BY <1>4, <1>6
<1>12. t % m = IF Sign(n, bits) # Sign(d, bits) THEN Negat(q, bits) ELSE q
  <2>1. (Sign(n, bits) # Sign(d, bits)) <=> ((a < 0) # (b < 0))
    <3>1. Sign(n, bits) \in BOOLEAN /\ Sign(d, bits) \in BOOLEAN
      BY DEF Sign
    <3>2. Sign(n, bits) = (a < 0) /\ Sign(d, bits) = (b < 0)
      BY <1>1, <3>1
    <3> QED
      BY <3>2, Zenon
  <2> QED
    BY <2>1, <1>9, <1>10, <1>11
<1>13. a - b * t = IF a < 0 THEN -r ELSE r
  <2> DEFINE p == B * q
  <2>1. p \in Int /\ A = p + r
    BY <1>5, <1>7, <1>8
  <2>2. b * t = IF a < 0 THEN -p ELSE p
    <3>1. B * (-q) = -p /\ (-B) * q = -p /\ (-B) * (-q) = p
      BY <1>5, <1>8
    <3>2. b = IF b < 0 THEN -B ELSE B
      BY <1>1, <1>3
    <3> HIDE DEF p
    <3>3. CASE (a < 0) # (b < 0)
      BY <1>11, <3>1, <3>2, <3>3 DEF p
    <3>4. CASE (a < 0) = (b < 0)
      BY <1>11, <3>1, <3>2, <3>4 DEF p
    <3> QED
      BY <3>3, <3>4
  <2> DEFINE u == b * t
  <2> HIDE DEF p, u
  <2>3. u = IF a < 0 THEN -p ELSE p
    BY <2>2 DEF u
  <2>4. a = IF a < 0 THEN -A ELSE A
    BY <1>1, <1>3
  <2>5. r \in Int
    BY <1>8
  <2>6. a - u = IF a < 0 THEN -r ELSE r
    BY <2>1, <2>3, <2>4, <2>5
  <2> QED
    BY <2>6 DEF u
<1>14. (a - b * t) % m = IF Sign(n, bits) THEN Negat(r, bits) ELSE r
  BY <1>1, <1>9, <1>10, <1>13
<1> QED
  BY <1>12, <1>14 DEF SignedRight, a, b, t, m, q, r

-----------------------------------------------------------------------------
(* The entries for division, with and without signs.                        *)
LEMMA UnsignedDivisions ==
  /\ \A x, y \in WORDs : UnsignedRight(LDiv(x, y), x, y)
  /\ \A x, y \in LONGs : UnsignedRight(LLDiv(x, y), x, y)
<1>1. ASSUME NEW x \in WORDs, NEW y \in WORDs PROVE UnsignedRight(LDiv(x, y), x, y)
  BY DivideWordIs DEF UnsignedRight, LDiv
<1>2. ASSUME NEW x \in LONGs, NEW y \in LONGs PROVE UnsignedRight(LLDiv(x, y), x, y)
  BY DivideLongIs DEF UnsignedRight, LLDiv
<1> QED
  BY <1>1, <1>2

LEMMA SignedLongDivision == \A x, y \in LONGs : SignedRight(ALDiv(x, y), x, y, LONG)
<1> SUFFICES ASSUME NEW x \in LONGs, NEW y \in LONGs PROVE SignedRight(ALDiv(x, y), x, y, LONG)
  OBVIOUS
<1>1. CASE y = 0
  <2>1. ~(y # 0)
    BY <1>1
  <2> QED
    BY <2>1 DEF SignedRight
<1>2. CASE y # 0
  <2> DEFINE a == NegIf(x, LONG)
             b == NegIf(y, LONG)
             s == DivideLong(a, b)
             quo == s.quo
             rem == s.n
  <2>1. LONG \in Nat /\ LONG >= 1 /\ x \in 0..(2 ^ LONG - 1) /\ y \in 0..(2 ^ LONG - 1)
    BY WidthFacts DEF LONGs
  <2>2. a \in LONGs /\ b \in LONGs /\ b # 0
    BY <1>2, <2>1, NegIfIs DEF LONGs
  <2>3. quo = a \div b /\ rem = a % b
    BY <2>2, DivideLongIs
  <2>4. ALDiv(x, y) = <<IF Sign(x, LONG) # Sign(y, LONG) THEN Negat(quo, LONG) ELSE quo,
                        IF Sign(x, LONG) THEN Negat(rem, LONG) ELSE rem>>
    BY DEF ALDiv
  <2> HIDE DEF quo, rem, s
  <2> QED
    BY <1>2, <2>1, <2>3, <2>4, SignsRight
<1> QED
  BY <1>1, <1>2

LEMMA SignedWordDivision == \A x, y \in WORDs : SignedRight(ADiv(x, y), x, y, WORD)
<1> SUFFICES ASSUME NEW x \in WORDs, NEW y \in WORDs PROVE SignedRight(ADiv(x, y), x, y, WORD)
  OBVIOUS
<1>1. CASE y = 0
  <2>1. ~(y # 0)
    BY <1>1
  <2> QED
    BY <2>1 DEF SignedRight
<1>2. CASE y # 0
  <2> DEFINE a == NegIf(x, WORD)
             b == NegIf(y, WORD)
             s == DivideWord(a, b)
             quo == s.quo
             rem == s.n
  <2>1. WORD \in Nat /\ WORD >= 1 /\ x \in 0..(2 ^ WORD - 1) /\ y \in 0..(2 ^ WORD - 1)
    BY WidthFacts DEF WORDs
  <2>2. a \in WORDs /\ b \in WORDs /\ b # 0
    BY <1>2, <2>1, NegIfIs DEF WORDs
  <2>3. quo = a \div b /\ rem = a % b
    BY <2>2, DivideWordIs
  <2>4. ADiv(x, y) = <<IF Sign(x, WORD) # Sign(y, WORD) THEN Negat(quo, WORD) ELSE quo,
                       IF Sign(x, WORD) THEN Negat(rem, WORD) ELSE rem>>
    BY <1>2 DEF ADiv, NegatesQuotient
  <2> HIDE DEF quo, rem, s
  <2> QED
    BY <1>2, <2>1, <2>3, <2>4, SignsRight
<1> QED
  BY <1>1, <1>2

-----------------------------------------------------------------------------
(* Multiplication.  What is added so far, and what the rest of the          *)
(* multiplier still brings, make the product.                               *)
LEMMA BitBrings ==
  ASSUME NEW m \in Nat \ {0}, NEW a \in Nat, NEW de \in Nat, NEW hl \in Nat
  PROVE  /\ (2 * de) % m \in 0..(m - 1) /\ (hl + (a % 2) * de) % m \in 0..(m - 1)
         /\ (((hl + (a % 2) * de) % m) + (a \div 2) * ((2 * de) % m)) % m = (hl + a * de) % m
<1> DEFINE r == a % 2
           q == a \div 2
           u == hl + r * de
           v == 2 * de
           d == v % m
           h == u % m
<1>1. a = 2 * q + r /\ q \in Nat /\ r \in 0..1
  OBVIOUS
<1> HIDE DEF r, q
<1>2. r \in Int /\ q \in Int /\ u \in Nat /\ v \in Nat /\ u \in Int /\ v \in Int
  BY <1>1
<1>3. u + q * v = hl + a * de
  <2>1. a * de = (2 * q) * de + r * de
    BY <1>1
  <2>2. (2 * q) * de = q * (2 * de)
    BY <1>1
  <2> QED
    BY <1>1, <2>1, <2>2
<1> HIDE DEF u, v
<1>4. d \in 0..(m - 1) /\ h \in 0..(m - 1)
  BY <1>2, DivMod
<1>5. (q * d) % m = (q * v) % m
  BY <1>2, ModOfTimes, Zenon
<1> DEFINE b == q * d
           c == q * v
<1>6. b \in Int /\ c \in Int /\ d \in Int
  BY <1>2, <1>4
<1>7. b % m = c % m
  BY <1>5
<1> HIDE DEF b, c
<1>8. (h + b) % m = (u + b) % m
  BY <1>2, <1>6, ModOfSum, Zenon
<1>9. ((b % m) + u) % m = (b + u) % m /\ ((c % m) + u) % m = (c + u) % m
  BY <1>2, <1>6, ModOfSum, Zenon
<1>10. (h + b) % m = (u + c) % m
  <2>1. b + u = u + b /\ c + u = u + c
    BY <1>2, <1>6
  <2> QED
    BY <1>7, <1>8, <1>9, <2>1
<1>11. (h + b) % m = (hl + a * de) % m
  BY <1>3, <1>10 DEF c
<1> QED
  BY <1>4, <1>11 DEF b, d, h, u, v, r, q

Factors == [a : Nat, de : Nat, hl : Nat]
(* All bits of a long multiplier.                                           *)
LEMMA LMulIs ==
  ASSUME NEW x \in LONGs, NEW y \in LONGs
  PROVE  LMul(x, y) = (x * y) % 2 ^ LONG
<1> DEFINE m == 2 ^ LONG
           S == Factors
           F == [s \in S |-> AddBit(s)]
           s0 == [a |-> y, de |-> x, hl |-> 0]
           turns == CHOOSE turn : turn = [k \in 0..LONG |-> IF k = 0 THEN s0 ELSE AddBit(turn[k - 1])]
           Sum(s) == (s.hl + s.a * s.de) % m
<1>1. LMul(x, y) = turns[LONG].hl
  BY DEF LMul, Iterate
<1>2. LONG \in Nat /\ m \in Nat \ {0} /\ x \in Nat /\ y \in 0..(m - 1)
  <2>1. LONG \in Nat /\ m \in Nat \ {0}
    BY WidthFacts, PowerType
  <2> QED
    BY <2>1 DEF LONGs
<1>3. s0 \in S /\ Sum(s0) = (x * y) % m /\ s0.a = y /\ s0.hl = 0
  <2>1. 0 + y * x = x * y /\ y \in Nat
    BY <1>2
  <2> QED
    BY <1>2, <2>1 DEF Factors
<1>4. \A s : AddBit(s) = [a |-> s.a \div 2, de |-> (2 * s.de) % m, hl |-> (s.hl + (s.a % 2) * s.de) % m]
  BY DEF AddBit, Doubled
<1> HIDE DEF m
<1>5. ASSUME NEW s \in S
      PROVE  /\ s.a \in Nat /\ AddBit(s) \in S /\ AddBit(s).a = s.a \div 2
             /\ AddBit(s).hl \in 0..(m - 1) /\ Sum(AddBit(s)) = Sum(s)
  <2> DEFINE a == s.a
             de == s.de
             hl == s.hl
             d == (2 * de) % m
             h == (hl + (a % 2) * de) % m
             q == a \div 2
  <2>1. a \in Nat /\ de \in Nat /\ hl \in Nat
    BY DEF Factors
  <2>2. d \in 0..(m - 1) /\ h \in 0..(m - 1) /\ (h + q * d) % m = (hl + a * de) % m
    BY <1>2, <2>1, BitBrings, Zenon
  <2>3. AddBit(s) = [a |-> q, de |-> d, hl |-> h]
    BY <1>4
  <2>4. q \in Nat
    BY <2>1
  <2> HIDE DEF d, h
  <2>5. d \in Nat /\ h \in Nat
    BY <1>2, <2>2
  <2> HIDE DEF q, a, de, hl
  <2>6. AddBit(s) \in S /\ AddBit(s).a = q /\ AddBit(s).hl = h /\ AddBit(s).de = d
    BY <2>3, <2>4, <2>5 DEF Factors
  <2> QED
    BY <2>1, <2>2, <2>6 DEF q, a, de, hl
<1> HIDE DEF S, s0
<1>6. (\A k \in 0..LONG : turns[k] \in S) /\ turns[0] = s0 /\ \A k \in 0..(LONG - 1) : turns[k + 1] = AddBit(turns[k])
  <2>1. F \in [S -> S] /\ \A v \in S : F[v] = AddBit(v)
    BY <1>5
  <2> HIDE DEF F
  <2>0. PICK turn : Turns(turn, S, F, s0, LONG)
    BY <1>2, <1>3, <2>1, TurnsExist
  <2>2. turn \in [0..LONG -> S] /\ turn[0] = s0 /\ \A k \in 1..LONG : turn[k] = F[turn[k - 1]]
    BY <2>0 DEF Turns
  <2>3. ASSUME NEW k \in 1..LONG PROVE turn[k] = AddBit(turn[k - 1])
    <3>1. k - 1 \in 0..LONG
      BY <1>2
    <3> QED
      BY <2>1, <2>2, <3>1, Zenon
  <2>4. turn = [k \in 0..LONG |-> IF k = 0 THEN s0 ELSE AddBit(turn[k - 1])]
    BY <1>2, <2>2, <2>3
  <2>5. turns = [k \in 0..LONG |-> IF k = 0 THEN s0 ELSE AddBit(turns[k - 1])]
    BY <2>4
  <2> HIDE DEF turns
  <2>6. \A k \in 1..LONG : turns[k] = AddBit(turns[k - 1])
    BY <1>2, <2>5
  <2>7. turns[0] = s0
    BY <1>2, <2>5
  <2> DEFINE T == {k \in 0..LONG : turns[k] \in S}
  <2>8. 0 \in T
    BY <1>2, <1>3, <2>7
  <2>9. ASSUME NEW k \in 0..(LONG - 1), k \in T PROVE k + 1 \in T
    <3>1. turns[k + 1] = AddBit(turns[k])
      BY <1>2, <2>6
    <3> QED
      BY <1>2, <1>5, <2>9, <3>1
  <2>10. \A k \in 0..LONG : k \in T
    <3> HIDE DEF T
    <3> QED
      BY <1>2, <2>8, <2>9, UpTo
  <2> QED
    BY <1>2, <2>6, <2>7, <2>10
<1> HIDE DEF turns, Sum
<1> DEFINE T == {k \in 0..LONG : /\ turns[k].a = y \div 2 ^ k /\ turns[k].hl \in 0..(m - 1)
                                 /\ Sum(turns[k]) = (x * y) % m}
<1>7. 0 \in T
  <2>1. y \div 2 ^ 0 = y
    BY <1>2, PowerZero, DivByOne
  <2> QED
    BY <1>2, <1>3, <1>6, <2>1
<1>8. ASSUME NEW k \in 0..(LONG - 1), k \in T PROVE k + 1 \in T
  <2> DEFINE s == turns[k]
             t == turns[k + 1]
  <2>1. t = AddBit(s) /\ s \in S
    BY <1>2, <1>6
  <2>2. t.a = s.a \div 2 /\ t.hl \in 0..(m - 1) /\ Sum(t) = Sum(s)
    BY <1>5, <2>1
  <2>3. (y \div 2 ^ k) \div 2 = y \div 2 ^ (k + 1)
    <3>1. 2 ^ (k + 1) = 2 * 2 ^ k /\ 2 ^ k \in Nat \ {0} /\ y \in Int
      BY <1>2, PowerNext, PowerType
    <3> QED
      BY <3>1, HalvedQuotient
  <2>4. s.a = y \div 2 ^ k /\ Sum(s) = (x * y) % m
    BY <1>8
  <2>5. k + 1 \in 0..LONG
    BY <1>2
  <2> QED
    BY <2>2, <2>3, <2>4, <2>5
<1>9. \A k \in 0..LONG : k \in T
  <2> HIDE DEF T
  <2> QED
    BY <1>2, <1>7, <1>8, UpTo
<1> DEFINE s == turns[LONG]
<1>10. s.a = y \div m /\ s.hl \in 0..(m - 1) /\ Sum(s) = (x * y) % m /\ s \in S
  BY <1>2, <1>6, <1>9 DEF m
<1>11. s.a = 0
  BY <1>2, <1>10, DivInRange
<1>12. Sum(s) = s.hl
  <2>1. s.de \in Nat /\ s.hl \in Nat
    BY <1>10 DEF S, Factors
  <2> DEFINE d == s.de
             h == s.hl
  <2>2. Sum(s) = (h + 0 * d) % m
    BY <1>11 DEF Sum
  <2> HIDE DEF d, h
  <2>3. h + 0 * d = h /\ h % m = h
    BY <1>2, <1>10, <2>1, DivInRange DEF d, h
  <2> QED
    BY <2>2, <2>3 DEF h
<1> QED
  BY <1>1, <1>10, <1>12 DEF m

-----------------------------------------------------------------------------
(* The long product in pieces of a word.                                    *)
LEMMA ProductInWords ==
  ASSUME NEW x \in LONGs, NEW y \in LONGs
  PROVE  (x * Lo(y) + ((Lo(x) * Hi(y)) % 2 ^ WORD) * 2 ^ WORD) % 2 ^ LONG = (x * y) % 2 ^ LONG
<1> DEFINE w == 2 ^ WORD
           m == 2 ^ LONG
           a == Lo(x)
           b == Hi(x)
           c == Lo(y)
           d == Hi(y)
<1>1. w \in Nat \ {0} /\ m = w * w
  BY WidthFacts, PowerType
<1>2. a \in Nat /\ b \in Nat /\ c \in Nat /\ d \in Nat /\ x = b * w + a /\ y = d * w + c
  <2>1. w \in Nat
    BY <1>1
  <2> QED
    BY <2>1, HiLo DEF WORDs
<1> HIDE DEF w, m, a, b, c, d
<1>3. m \in Nat \ {0} /\ x \in Nat
  BY <1>1, <1>2
<1> DEFINE p == a * d
           q == p \div w
           r == p % w
           e == x * c
<1>4. p = q * w + r /\ q \in Int /\ r \in Int /\ p \in Int
  <2>1. p \in Int
    BY <1>2
  <2> HIDE DEF p
  <2> QED
    BY <1>1, <2>1, DivMod
<1>5. e \in Int
  BY <1>2, <1>3
<1>6. x * y = (e + r * w) + (b * d + q) * m
  <2>1. x * y = x * (d * w) + e
    BY <1>1, <1>2, <1>3
  <2>2. x * (d * w) = (b * d) * m + p * w
    <3>1. (b * w + a) * (d * w) = (b * d) * (w * w) + (a * d) * w
      BY <1>1, <1>2
    <3> QED
      BY <1>1, <1>2, <3>1
  <2> HIDE DEF q, r
  <2>3. p * w = q * m + r * w
    <3>1. (q * w + r) * w = q * (w * w) + r * w
      BY <1>1, <1>4
    <3> QED
      BY <1>1, <1>4, <3>1
  <2>4. (b * d + q) * m = (b * d) * m + q * m
    BY <1>2, <1>3, <1>4
  <2> HIDE DEF p, e
  <2> DEFINE f == (b * d) * m
             g == q * m
             h == r * w
             i == p * w
             j == x * (d * w)
             k == x * y
             l == (b * d + q) * m
  <2>5. f \in Int /\ g \in Int /\ h \in Int
    BY <1>1, <1>2, <1>3, <1>4
  <2>6. k = j + e /\ j = f + i /\ i = g + h /\ l = f + g
    BY <2>1, <2>2, <2>3, <2>4
  <2> HIDE DEF f, g, h, i, j, k, l
  <2>7. k = (e + h) + l
    BY <1>5, <2>5, <2>6
  <2> QED
    BY <2>7 DEF k, h, l
<1> DEFINE u == e + r * w
           k == b * d + q
<1>7. u \in Int /\ k \in Int
  BY <1>1, <1>2, <1>4, <1>5
<1>8. x * y = u + k * m
  BY <1>6
<1> HIDE DEF u, k
<1>9. (u + k * m) % m = u % m
  BY <1>3, <1>7, ModPlusMultiple, Zenon
<1>10. (x * y) % m = u % m
  BY <1>8, <1>9
<1> QED
  BY <1>10 DEF u, e, r, p, w, m, a, c, d

-----------------------------------------------------------------------------
(* A byte of the multiplier, in a loop that stops at its last bit.          *)
Bytes == [a : Nat, de : Nat, hl : Nat, b : Int, stop : BOOLEAN]

LEMMA StepByteIs ==
  ASSUME NEW s \in Bytes
  PROVE  /\ s.a \in Nat /\ s.de \in Nat /\ s.hl \in Nat /\ s.b \in Int /\ s.stop \in BOOLEAN
         /\ StepByte(s) \in Bytes
         /\ s.stop => StepByte(s) = s
         /\ ~s.stop => /\ StepByte(s).a = s.a \div 2
                       /\ StepByte(s).de = (2 * s.de) % 2 ^ WORD
                       /\ StepByte(s).hl = (s.hl + (s.a % 2) * s.de) % 2 ^ WORD
                       /\ StepByte(s).b = (IF s.a \div 2 = 0 THEN s.b ELSE (s.b - 1) % 256)
                       /\ StepByte(s).stop = (s.a \div 2 = 0 \/ (s.b - 1) % 256 = 0)
<1> DEFINE w == 2 ^ WORD
           a == s.a
           de == s.de
           hl == s.hl
           b == s.b
           q == a \div 2
           d == (2 * de) % w
           h == (hl + (a % 2) * de) % w
           c == (b - 1) % 256
<1>1. a \in Nat /\ de \in Nat /\ hl \in Nat /\ b \in Int /\ s.stop \in BOOLEAN
  BY DEF Bytes
<1>2. w \in Nat \ {0}
  BY WidthFacts, PowerType
<1>3. StepByte(s) = IF s.stop THEN s
                    ELSE [a |-> q, de |-> d, hl |-> h, b |-> IF q = 0 THEN b ELSE c, stop |-> q = 0 \/ c = 0]
  BY DEF StepByte, Doubled
<1> HIDE DEF w
<1>4. d \in Nat /\ h \in Nat
  <2>1. d \in 0..(w - 1) /\ h \in 0..(w - 1)
    BY <1>1, <1>2, BitBrings, Zenon
  <2> HIDE DEF d, h
  <2> QED
    BY <1>2, <2>1
<1>5. q \in Nat /\ c \in Int
  BY <1>1
<1> HIDE DEF q, d, h, c
<1>6. CASE s.stop
  BY <1>1, <1>3, <1>6
<1>7. CASE ~s.stop
  <2> DEFINE t == [a |-> q, de |-> d, hl |-> h, b |-> IF q = 0 THEN b ELSE c, stop |-> q = 0 \/ c = 0]
  <2>1. StepByte(s) = t
    BY <1>3, <1>7
  <2>2. t \in Bytes
    BY <1>1, <1>4, <1>5 DEF Bytes
  <2>3. t.a = q /\ t.de = d /\ t.hl = h /\ t.b = (IF q = 0 THEN b ELSE c) /\ t.stop = (q = 0 \/ c = 0)
    OBVIOUS
  <2> HIDE DEF t
  <2>4. /\ StepByte(s).a = q /\ StepByte(s).de = d /\ StepByte(s).hl = h
        /\ StepByte(s).b = (IF q = 0 THEN b ELSE c) /\ StepByte(s).stop = (q = 0 \/ c = 0)
    BY <2>1, <2>3
  <2> QED
    BY <1>1, <1>7, <2>1, <2>2, <2>4 DEF q, d, h, c, w
<1> QED
  BY <1>6, <1>7

-----------------------------------------------------------------------------
(* While the loop goes on the multiplier is what is left of it; when it has *)
(* stopped the product is there, and b counts the bits that were passed.    *)
GoingOn(t, s, k) ==
  /\ ~t.stop
  /\ t.a = s.a \div 2 ^ k /\ (k > 0 => t.a # 0)
  /\ t.de % 2 ^ WORD = (s.de * 2 ^ k) % 2 ^ WORD
  /\ (t.b - 1) % 256 = (s.b - (k + 1)) % 256
  /\ (t.hl + t.a * t.de) % 2 ^ WORD = (s.hl + s.a * s.de) % 2 ^ WORD
Stopped(t, s, j) ==
  /\ t.stop
  /\ t.de = (s.de * 2 ^ j) % 2 ^ WORD
  /\ (t.b - 1) % 256 = (s.b - j) % 256
  /\ t.hl = (s.hl + s.a * s.de) % 2 ^ WORD

(* b comes to 0 in the last turn only.                                      *)
InTime(s, k) == (s.b - k) % 256 = 0 => k = BYTE

LEMMA ByteTurn ==
  ASSUME NEW s \in Bytes, NEW t \in Bytes, NEW k \in 0..(BYTE - 1), s.a < 2 ^ BYTE, GoingOn(t, s, k),
         InTime(s, k + 1)
  PROVE  GoingOn(StepByte(t), s, k + 1) \/ Stopped(StepByte(t), s, k + 1)
<1> DEFINE w == 2 ^ WORD
           u == StepByte(t)
           q == t.a \div 2
           c == (t.b - 1) % 256
           X == s.de
           A == s.a
           P == (s.hl + s.a * s.de) % w
           p == 2 ^ k
<1>1. /\ t.a \in Nat /\ t.de \in Nat /\ t.hl \in Nat /\ t.b \in Int /\ u \in Bytes
      /\ u.a = q /\ u.de = (2 * t.de) % w /\ u.hl = (t.hl + (t.a % 2) * t.de) % w
      /\ u.b = (IF q = 0 THEN t.b ELSE c) /\ u.stop = (q = 0 \/ c = 0)
  BY StepByteIs DEF GoingOn
<1>2. A \in Nat /\ X \in Nat /\ s.b \in Int /\ s.hl \in Nat
  BY DEF Bytes
<1>3. /\ t.a = A \div p /\ t.de % w = (X * p) % w
      /\ c = (s.b - (k + 1)) % 256 /\ (t.hl + t.a * t.de) % w = P
  BY DEF GoingOn
<1>4. w \in Nat \ {0} /\ p \in Nat \ {0} /\ 2 ^ (k + 1) = 2 * p /\ k \in Nat /\ BYTE \in Nat
  BY WidthFacts, PowerNext, PowerType
<1> HIDE DEF w, u, p
<1>5. u.de = (X * 2 ^ (k + 1)) % w /\ u.de % w = u.de /\ u.de \in 0..(w - 1)
  <2> DEFINE d == t.de
             v == X * p
             y == 2 * d
  <2>1. d \in Int /\ v \in Int /\ 2 \in Int /\ 2 * v = X * 2 ^ (k + 1) /\ y \in Nat
    <3>1. X * (2 * p) = 2 * (X * p) /\ X * p \in Int
      BY <1>2, <1>4
    <3>2. d \in Nat
      BY <1>1
    <3> HIDE DEF d, X
    <3> QED
      BY <1>4, <3>1, <3>2
  <2>2. u.de = (2 * d) % w /\ d % w = v % w
    BY <1>1, <1>3
  <2> HIDE DEF d, v
  <2>3. (2 * (d % w)) % w = (2 * d) % w /\ (2 * (v % w)) % w = (2 * v) % w
    BY <1>4, <2>1, ModOfTimes, Zenon
  <2>4. u.de = (2 * v) % w
    BY <2>2, <2>3
  <2>5. y % w \in 0..(w - 1)
    BY <1>4, <2>1
  <2>6. u.de \in 0..(w - 1)
    BY <2>2, <2>5
  <2>7. u.de % w = u.de
    BY <1>4, <2>6, DivInRange
  <2> QED
    BY <2>1, <2>4, <2>6, <2>7
<1>6. u.a = A \div 2 ^ (k + 1)
  <2>1. (A \div p) \div 2 = A \div (2 * p)
    <3>1. A \in Int
      BY <1>2
    <3> QED
      BY <1>4, <3>1, HalvedQuotient, Zenon
  <2> QED
    BY <1>1, <1>3, <1>4, <2>1
<1>7. (u.hl + u.a * u.de) % w = P /\ u.hl \in 0..(w - 1)
  <2> DEFINE a == t.a
             d == t.de
             h == t.hl
  <2>1. a \in Nat /\ d \in Nat /\ h \in Nat
    BY <1>1
  <2>2. u.a = a \div 2 /\ u.de = (2 * d) % w /\ u.hl = (h + (a % 2) * d) % w /\ (h + a * d) % w = P
    BY <1>1, <1>3
  <2> HIDE DEF a, d, h
  <2>3. /\ (h + (a % 2) * d) % w \in 0..(w - 1)
        /\ (((h + (a % 2) * d) % w) + (a \div 2) * ((2 * d) % w)) % w = (h + a * d) % w
    <3>1. w \in Nat \ {0}
      BY <1>4
    <3> QED
      BY <2>1, <3>1, BitBrings, Zenon
  <2> QED
    BY <2>2, <2>3
<1>8. CASE q = 0
  <2>1. u.hl = P
    <3> DEFINE h == u.hl
               d == u.de
    <3>1. h \in 0..(w - 1) /\ d \in Nat /\ (h + 0 * d) % w = P
      BY <1>1, <1>4, <1>5, <1>7, <1>8
    <3> HIDE DEF h, d, P
    <3>2. h + 0 * d = h /\ h % w = h
      BY <1>4, <3>1, DivInRange
    <3> QED
      BY <3>1, <3>2 DEF h
  <2>2. (u.b - 1) % 256 = (s.b - (k + 1)) % 256
    BY <1>1, <1>3, <1>8
  <2>3. u.stop
    BY <1>1, <1>8
  <2> QED
    BY <1>5, <2>1, <2>2, <2>3 DEF Stopped, w, u, P
<1>9. CASE q # 0
  <2>1. c # 0
    <3>1. SUFFICES ASSUME c = 0 PROVE FALSE
      OBVIOUS
    <3>2. k + 1 = BYTE
      BY <1>3, <3>1 DEF InTime
    <3>3. A \div 2 ^ BYTE = 0
      BY <1>2, <1>4, PowerType, DivInRange
    <3> QED
      BY <1>1, <1>6, <1>9, <3>2, <3>3
  <2>2. ~u.stop /\ u.a # 0 /\ u.b = c
    BY <1>1, <1>9, <2>1
  <2>3. (u.b - 1) % 256 = (s.b - (k + 1 + 1)) % 256
    <3> DEFINE e == s.b - (k + 1)
    <3>1. e \in Int /\ -1 \in Int /\ e + -1 = s.b - (k + 1 + 1) /\ 256 \in Nat \ {0}
      BY <1>2, <1>4
    <3>2. u.b = e % 256
      BY <1>3, <2>2
    <3> HIDE DEF e
    <3>3. ((e % 256) + -1) % 256 = (e + -1) % 256
      BY <3>1, ModOfSum, Zenon
    <3>4. (e % 256) + -1 = (e % 256) - 1
      BY <3>1
    <3> QED
      BY <3>1, <3>2, <3>3, <3>4
  <2> QED
    BY <1>5, <1>6, <1>7, <2>2, <2>3 DEF GoingOn, w, u, P
<1> QED
  BY <1>8, <1>9

LEMMA Mult8bIs ==
  ASSUME NEW s \in Bytes, s.a < 2 ^ BYTE, \A k \in 1..BYTE : InTime(s, k)
  PROVE  /\ Mult8b(s) \in Bytes
         /\ \E j \in 1..BYTE : Stopped(Mult8b(s), s, j)
<1> DEFINE S == Bytes
           F == [t \in S |-> StepByte(t)]
           s0 == [s EXCEPT !.stop = FALSE]
           turns == CHOOSE turn : turn = [k \in 0..BYTE |-> IF k = 0 THEN s0 ELSE StepByte(turn[k - 1])]
<1>1. Mult8b(s) = turns[BYTE]
  BY DEF Mult8b, Iterate
<1>2. BYTE \in Nat /\ BYTE >= 1
  BY WidthFacts
<1>3. s0 \in S /\ s0.a = s.a /\ s0.de = s.de /\ s0.hl = s.hl /\ s0.b = s.b /\ ~s0.stop
  BY DEF Bytes
<1>4. \A t \in S : StepByte(t) \in S /\ (t.stop => StepByte(t) = t)
  BY StepByteIs
<1> HIDE DEF S, s0
<1>5. (\A k \in 0..BYTE : turns[k] \in S) /\ turns[0] = s0 /\ \A k \in 0..(BYTE - 1) : turns[k + 1] = StepByte(turns[k])
  <2>1. F \in [S -> S] /\ \A v \in S : F[v] = StepByte(v)
    BY <1>4
  <2> HIDE DEF F
  <2>0. PICK turn : Turns(turn, S, F, s0, BYTE)
    BY <1>2, <1>3, <2>1, TurnsExist
  <2>2. turn \in [0..BYTE -> S] /\ turn[0] = s0 /\ \A k \in 1..BYTE : turn[k] = F[turn[k - 1]]
    BY <2>0 DEF Turns
  <2>3. ASSUME NEW k \in 1..BYTE PROVE turn[k] = StepByte(turn[k - 1])
    <3>1. k - 1 \in 0..BYTE
      BY <1>2
    <3> QED
      BY <2>1, <2>2, <3>1, Zenon
  <2>4. turn = [k \in 0..BYTE |-> IF k = 0 THEN s0 ELSE StepByte(turn[k - 1])]
    BY <1>2, <2>2, <2>3
  <2>5. turns = [k \in 0..BYTE |-> IF k = 0 THEN s0 ELSE StepByte(turns[k - 1])]
    BY <2>4
  <2> HIDE DEF turns
  <2>6. \A k \in 1..BYTE : turns[k] = StepByte(turns[k - 1])
    BY <1>2, <2>5
  <2>7. turns[0] = s0
    BY <1>2, <2>5
  <2> DEFINE T == {k \in 0..BYTE : turns[k] \in S}
  <2>8. 0 \in T
    BY <1>2, <1>3, <2>7
  <2>9. ASSUME NEW k \in 0..(BYTE - 1), k \in T PROVE k + 1 \in T
    <3>1. turns[k + 1] = StepByte(turns[k])
      BY <1>2, <2>6
    <3> QED
      BY <1>2, <1>4, <2>9, <3>1
  <2>10. \A k \in 0..BYTE : k \in T
    <3> HIDE DEF T
    <3> QED
      BY <1>2, <2>8, <2>9, UpTo
  <2> QED
    BY <1>2, <2>6, <2>7, <2>10
<1> HIDE DEF turns
<1> DEFINE T == {k \in 0..BYTE : GoingOn(turns[k], s, k) \/ \E j \in 1..k : Stopped(turns[k], s, j)}
<1>6. s.a \in Nat /\ s.de \in Nat /\ s.b \in Int /\ s.hl \in Nat
  BY DEF Bytes
<1>7. 0 \in T
  <2>1. s.a \div 2 ^ 0 = s.a /\ s.de * 2 ^ 0 = s.de /\ 0 + 1 = 1
    BY <1>6, PowerZero
  <2>2. GoingOn(turns[0], s, 0)
    BY <1>3, <1>5, <2>1 DEF GoingOn
  <2> QED
    BY <1>2, <2>2
<1>8. ASSUME NEW k \in 0..(BYTE - 1), k \in T PROVE k + 1 \in T
  <2> DEFINE t == turns[k]
             u == turns[k + 1]
  <2>1. t \in S /\ u = StepByte(t) /\ u \in S
    BY <1>2, <1>5
  <2>2. k + 1 \in 0..BYTE /\ k + 1 \in 1..(k + 1)
    BY <1>2
  <2>3. CASE GoingOn(t, s, k)
    <3>1. InTime(s, k + 1)
      BY <1>2
    <3> HIDE DEF t, u
    <3>2. GoingOn(u, s, k + 1) \/ Stopped(u, s, k + 1)
      BY <2>1, <2>3, <3>1, ByteTurn DEF S
    <3> QED
      BY <2>2, <3>2 DEF t, u
  <2>4. CASE \E j \in 1..k : Stopped(t, s, j)
    <3>1. PICK j \in 1..k : Stopped(t, s, j)
      BY <2>4
    <3>2. t.stop
      BY <3>1 DEF Stopped
    <3>3. u = t
      BY <1>4, <2>1, <3>2
    <3>4. j \in 1..(k + 1) /\ Stopped(u, s, j)
      BY <3>1, <3>3
    <3> QED
      BY <2>2, <3>4
  <2> QED
    BY <1>8, <2>3, <2>4
<1>9. \A k \in 0..BYTE : k \in T
  <2> HIDE DEF T
  <2> QED
    BY <1>2, <1>7, <1>8, UpTo
<1>10. ~GoingOn(turns[BYTE], s, BYTE)
  <2>1. s.a \div 2 ^ BYTE = 0
    BY <1>2, <1>6, PowerType, DivInRange
  <2> QED
    BY <1>2, <2>1 DEF GoingOn
<1>11. BYTE \in T /\ turns[BYTE] \in S
  BY <1>2, <1>5, <1>9
<1> QED
  BY <1>1, <1>10, <1>11 DEF S

(* A word in two bytes: the second begins where the count left the          *)
(* multiplicand.                                                            *)
LEMMA LMulWordIs ==
  ASSUME NEW x \in WORDs, NEW y \in WORDs
  PROVE  LMulWord(x, y) = (x * y) % 2 ^ WORD
<1> DEFINE w == 2 ^ WORD
           B == 2 ^ BYTE
           s == [a |-> y % B, de |-> x, hl |-> 0, b |-> BYTE, stop |-> FALSE]
           low == Mult8b(s)
           next == Iterate(LAMBDA m : Doubled(m, WORD), (low.b - 1) % 256, low.de)
           t == [low EXCEPT !.a = y \div B, !.de = next, !.b = 0]
           q == y \div B
           r == y % B
<1>1. LMulWord(x, y) = Mult8b(t).hl
  BY DEF LMulWord
<1>2. /\ WORD \in Nat /\ BYTE \in 1..256 /\ WORD = BYTE + BYTE
      /\ w \in Nat \ {0} /\ B \in Nat \ {0} /\ w = B * B
  <2>1. WORD \in Nat /\ BYTE \in 1..256 /\ WORD = BYTE + BYTE
    BY WordAssumption DEF BYTE
  <2> QED
    BY <2>1, WidthFacts, PowerType
<1>3. x \in 0..(w - 1) /\ y \in 0..(w - 1) /\ x \in Nat /\ y \in Nat
  BY <1>2 DEF WORDs
<1> HIDE DEF w, B
<1>4. r \in 0..(B - 1) /\ q \in 0..(B - 1) /\ y = q * B + r
  <2>1. y \in Int
    BY <1>3
  <2>2. r \in 0..(B - 1) /\ q \in Int /\ y = q * B + r
    BY <1>2, <2>1, DivMod, Zenon
  <2>3. q \in Nat
    BY <1>2, <1>3, DivInRange
  <2> HIDE DEF q, r
  <2>4. q < B
    <3>1. SUFFICES ASSUME q >= B PROVE FALSE
      BY <1>2, <2>2
    <3>2. q * B >= B * B
      BY <1>2, <2>2, <3>1
    <3> QED
      BY <1>2, <1>3, <2>2, <3>2
  <2> QED
    BY <1>2, <2>2, <2>3, <2>4
<1> HIDE DEF q, r
<1>5. s \in Bytes /\ s.a = r /\ s.de = x /\ s.hl = 0 /\ s.b = BYTE
  <2>1. s = [a |-> r, de |-> x, hl |-> 0, b |-> BYTE, stop |-> FALSE]
    BY DEF r
  <2>2. r \in Nat /\ x \in Nat /\ BYTE \in Int
    BY <1>2, <1>3, <1>4
  <2> QED
    BY <2>1, <2>2 DEF Bytes
<1> HIDE DEF s
<1>6. low \in Bytes /\ \E j \in 1..BYTE : Stopped(low, s, j)
  <2>1. s.a < B
    BY <1>2, <1>4, <1>5
  <2>2. \A k \in 1..BYTE : InTime(s, k)
    BY <1>2, <1>5 DEF InTime
  <2> QED
    BY <1>5, <2>1, <2>2, Mult8bIs DEF B
<1>7. PICK j \in 1..BYTE : Stopped(low, s, j)
  BY <1>6
<1> HIDE DEF low
<1> DEFINE p == 2 ^ j
           c == BYTE - j
           d == low.de
<1>8. /\ d = (x * p) % w /\ (low.b - 1) % 256 = c /\ low.hl = (r * x) % w /\ low.hl \in Nat
  <2>1. (BYTE - j) % 256 = c
    BY <1>2
  <2>2. 0 + r * x = r * x
    BY <1>2, <1>3, <1>4
  <2> QED
    BY <1>5, <1>6, <1>7, <2>1, <2>2 DEF Stopped, w, Bytes
<1>9. d \in 0..(w - 1) /\ p \in Nat \ {0} /\ B = p * 2 ^ c /\ c \in Nat /\ c <= WORD /\ 2 ^ c \in Nat \ {0}
  <2>1. j \in Nat /\ c \in Nat /\ j + c = BYTE /\ c <= WORD
    BY <1>2
  <2>2. p \in Nat \ {0} /\ B = p * 2 ^ c /\ 2 ^ c \in Nat \ {0}
    BY <2>1, PowerType, PowerSum DEF B
  <2> HIDE DEF p
  <2>3. x * p \in Int
    BY <1>3, <2>2
  <2>4. (x * p) % w \in 0..(w - 1)
    BY <1>2, <2>3, DivMod, Zenon
  <2> HIDE DEF c, d
  <2> QED
    BY <1>8, <2>1, <2>2, <2>4
<1>10. next = (x * B) % w
  <2>1. next = Shll(d, c, WORD)
    <3>1. Limited(c, WORD) = c
      BY <1>2, <1>9 DEF Limited
    <3>2. Shll(d, c, WORD) = Iterate(LAMBDA m : Doubled(m, WORD), c, d)
      BY <3>1 DEF Shll
    <3> QED
      BY <1>8, <3>2
  <2>2. Shll(d, c, WORD) = (d * 2 ^ c) % w
    <3>1. Limited(c, WORD) = c
      BY <1>2, <1>9 DEF Limited
    <3> QED
      BY <1>2, <1>9, <3>1, ShllIs DEF w
  <2> DEFINE e == 2 ^ c
             v == x * p
  <2>3. e \in Int /\ v \in Int /\ e * v = x * B
    BY <1>3, <1>9
  <2>4. d = v % w /\ d \in Int
    BY <1>2, <1>8, <1>9
  <2>5. d * e = e * d
    BY <1>9, <2>4
  <2> HIDE DEF d, c, e, v, p
  <2>6. (e * (v % w)) % w = (e * v) % w
    BY <1>2, <2>3, ModOfTimes, Zenon
  <2> QED
    BY <2>1, <2>2, <2>3, <2>4, <2>5, <2>6 DEF e
<1> HIDE DEF next, d, c, p
<1>11. next \in Nat
  <2> DEFINE v == x * B
  <2>1. v \in Nat
    BY <1>2, <1>3
  <2> HIDE DEF v
  <2>2. v % w \in Nat
    BY <1>2, <2>1
  <2> QED
    BY <1>10, <2>2 DEF v
<1>12. t \in Bytes /\ t.a = q /\ t.de = next /\ t.hl = low.hl /\ t.b = 0
  <2>1. t = [low EXCEPT !.a = q, !.de = next, !.b = 0]
    BY DEF q
  <2>2. q \in Nat
    BY <1>2, <1>4
  <2>3. low \in [a : Nat, de : Nat, hl : Nat, b : Int, stop : BOOLEAN]
    BY <1>6 DEF Bytes
  <2> HIDE DEF t
  <2>4. t \in [a : Nat, de : Nat, hl : Nat, b : Int, stop : BOOLEAN]
    <3>1. 0 \in Int
      OBVIOUS
    <3> DEFINE R == [a : Nat, de : Nat, hl : Nat, b : Int, stop : BOOLEAN]
               t1 == [low EXCEPT !.a = q]
               t2 == [t1 EXCEPT !.de = next]
    <3>2. t1 \in R
      BY <2>2, <2>3
    <3>3. t2 \in R
      <4> HIDE DEF t1
      <4> QED
        BY <1>11, <3>2
    <3>4. [t2 EXCEPT !.b = 0] \in R
      <4> HIDE DEF t2
      <4> QED
        BY <3>3
    <3> QED
      BY <2>1, <3>4
  <2>5. t.a = q /\ t.de = next /\ t.hl = low.hl /\ t.b = 0
    BY <2>1, <2>3
  <2> QED
    BY <2>4, <2>5 DEF Bytes
<1> HIDE DEF t
<1>13. \E i \in 1..BYTE : Stopped(Mult8b(t), t, i)
  <2>1. t.a < B
    BY <1>2, <1>4, <1>12
  <2>2. \A k \in 1..BYTE : InTime(t, k)
    BY <1>2, <1>12 DEF InTime
  <2> QED
    BY <1>12, <2>1, <2>2, Mult8bIs DEF B
<1>14. Mult8b(t).hl = (low.hl + q * next) % w
  BY <1>12, <1>13 DEF Stopped, w
<1> DEFINE f == r * x
           g == x * B
           h == q * g
           k == q * next
<1>15. f \in Int /\ g \in Int /\ h \in Int /\ k \in Int /\ q \in Int /\ h + f = x * y
  <2>1. h + f = x * y
    <3>1. q * (x * B) + r * x = x * (q * B + r)
      BY <1>2, <1>3, <1>4
    <3> QED
      BY <1>4, <3>1
  <2>2. r \in Int /\ q \in Int /\ next \in Int /\ B \in Int /\ x \in Int
    BY <1>2, <1>3, <1>4, <1>11
  <2> QED
    BY <2>1, <2>2
<1>16. k % w = h % w
  <2> HIDE DEF g
  <2>1. (q * (g % w)) % w = (q * g) % w
    BY <1>2, <1>15, ModOfTimes, Zenon
  <2> QED
    BY <1>10, <2>1 DEF g
<1>17. (low.hl + k) % w = (h + f) % w
  <2>1. low.hl = f % w
    BY <1>8
  <2> HIDE DEF f, k, h
  <2>2. ((f % w) + k) % w = (f + k) % w
    BY <1>2, <1>15, ModOfSum, Zenon
  <2>3. ((k % w) + f) % w = (k + f) % w /\ ((h % w) + f) % w = (h + f) % w
    BY <1>2, <1>15, ModOfSum, Zenon
  <2>4. f + k = k + f
    BY <1>15
  <2> QED
    BY <1>16, <2>1, <2>2, <2>3, <2>4
<1> QED
  BY <1>1, <1>14, <1>15, <1>17 DEF w

-----------------------------------------------------------------------------
(* Bit fields.                                                              *)
HasBit(x, k) == (x \div 2 ^ k) % 2 = 1

LEMMA DivAdd ==
  ASSUME NEW a \in Int, NEW c \in Int, NEW p \in Nat \ {0}
  PROVE  (a + c * p) \div p = (a \div p) + c
<1> DEFINE q == a \div p
           r == a % p
<1>1. a = q * p + r /\ q \in Int /\ r \in 0..(p - 1)
  BY DivMod, Zenon
<1> HIDE DEF q, r
<1>2. a + c * p = (q + c) * p + r
  BY <1>1
<1>3. a + c * p \in Int /\ q + c \in Int
  BY <1>1
<1>4. (a + c * p) \div p = q + c
  BY <1>1, <1>2, <1>3, DivModUnique, Zenon
<1> QED
  BY <1>4 DEF q

(* Bits of shifted numbers.                                                 *)
LEMMA BitHigher ==
  ASSUME NEW a \in Int, NEW q \in Int, NEW n \in Nat, NEW k \in 0..(n - 1)
  PROVE  HasBit(a + q * 2 ^ n, k) <=> HasBit(a, k)
<1> DEFINE p == 2 ^ k
           f == 2 ^ (n - 1 - k)
           c == q * (2 * f)
           d == a \div p
<1>1. 2 ^ n = (2 * f) * p /\ p \in Nat \ {0} /\ f \in Nat
  <2>1. k \in Nat /\ n - 1 - k \in Nat /\ n - 1 \in Nat /\ k + (n - 1 - k) = n - 1 /\ (n - 1) + 1 = n
    OBVIOUS
  <2>2. 2 ^ (n - 1) = p * f /\ 2 ^ ((n - 1) + 1) = 2 * 2 ^ (n - 1)
    BY <2>1, PowerSum, PowerNext
  <2>3. p \in Nat \ {0} /\ f \in Nat
    BY <2>1, PowerType
  <2> HIDE DEF p, f
  <2>4. 2 * (p * f) = (2 * f) * p
    BY <2>3
  <2> QED
    BY <2>1, <2>2, <2>3, <2>4
<1> HIDE DEF p, f
<1>2. c \in Int /\ q * 2 ^ n = c * p
  BY <1>1
<1>3. (a + c * p) \div p = d + c
  BY <1>1, <1>2, DivAdd, Zenon
<1>4. d \in Int /\ q * f \in Int /\ c = 2 * (q * f)
  BY <1>1, DivMod
<1> HIDE DEF d, c
<1>5. (d + c) % 2 = d % 2
  <2> DEFINE g == q * f
  <2>1. g \in Int /\ c = 2 * g /\ d \in Int
    BY <1>4
  <2> HIDE DEF g
  <2> QED
    BY <2>1
<1> QED
  BY <1>2, <1>3, <1>5 DEF HasBit, p, d

LEMMA EvenZero == 0 % 2 = 0
OBVIOUS

LEMMA NoBit ==
  ASSUME NEW n \in Nat, NEW x \in 0..(2 ^ n - 1), NEW k \in Nat, k >= n
  PROVE  ~HasBit(x, k)
<1>1. 2 ^ n <= 2 ^ k /\ 2 ^ n \in Nat /\ 2 ^ k \in Nat \ {0} /\ x \in Nat
  <2>1. 2 ^ n \in Nat
    BY PowerType
  <2> QED
    BY <2>1, PowerType, PowerGrows
<1>2. x < 2 ^ k
  BY <1>1
<1>3. x \div 2 ^ k = 0
  BY <1>1, <1>2, DivInRange
<1>4. (x \div 2 ^ k) % 2 = 0
  BY <1>3, EvenZero, Zenon
<1> QED
  BY <1>4 DEF HasBit

(* Any set of bits is that of a number.                                     *)
Having(n, bits) == \E x \in 0..(2 ^ n - 1) : \A k \in 0..(n - 1) : HasBit(x, k) <=> k \in bits

LEMMA HavingBits == \A n \in Nat : \A bits \in SUBSET Int : Having(n, bits)
<1> DEFINE T == {n \in Nat : \A bits \in SUBSET Int : Having(n, bits)}
<1>1. 0 \in T
  <2>1. \A bits : Having(0, bits)
    <3>1. 0 \in 0..(2 ^ 0 - 1) /\ 0..(0 - 1) = {}
      BY PowerZero
    <3> QED
      BY <3>1 DEF Having
  <2> QED
    BY <2>1
<1>2. ASSUME NEW n \in T PROVE n + 1 \in T
  <2> SUFFICES ASSUME NEW bits \in SUBSET Int PROVE Having(n + 1, bits)
    OBVIOUS
  <2>1. PICK x \in 0..(2 ^ n - 1) : \A k \in 0..(n - 1) : HasBit(x, k) <=> k \in bits
    BY DEF Having
  <2> DEFINE p == 2 ^ n
             q == IF n \in bits THEN 1 ELSE 0
             y == x + q * p
  <2>2. p \in Nat \ {0} /\ 2 ^ (n + 1) = 2 * p /\ q \in 0..1 /\ x \in 0..(p - 1) /\ n \in Nat
    BY PowerType, PowerNext
  <2>3. y \in 0..(2 * p - 1)
    <3>1. q * p = IF n \in bits THEN p ELSE 0
      BY <2>2
    <3> HIDE DEF p
    <3> QED
      BY <2>2, <3>1
  <2>4. ASSUME NEW k \in 0..n PROVE HasBit(y, k) <=> k \in bits
    <3>1. CASE k = n
      <4>1. y \div p = q
        <5>1. (x + q * p) \div p = (x \div p) + q
          <6>1. x \in Int /\ q \in Int
            BY <2>2
          <6> HIDE DEF p, q
          <6> QED
            BY <2>2, <6>1, DivAdd, Zenon
        <5>2. x \div p = 0
          BY <2>2, DivInRange
        <5> QED
          BY <2>2, <5>1, <5>2
      <4>2. HasBit(y, n) <=> q % 2 = 1
        BY <4>1 DEF HasBit
      <4> QED
        BY <3>1, <4>2
    <3>2. CASE k # n
      <4>1. k \in 0..(n - 1)
        BY <2>2, <3>2
      <4>2. x \in Int /\ q \in Int
        BY <2>2
      <4>3. HasBit(y, k) <=> HasBit(x, k)
        <5> HIDE DEF q
        <5> QED
          BY <2>2, <4>1, <4>2, BitHigher
      <4> QED
        BY <2>1, <4>1, <4>3
    <3> QED
      BY <3>1, <3>2
  <2> HIDE DEF y, p
  <2>5. y \in 0..(2 ^ (n + 1) - 1) /\ (n + 1) - 1 = n
    BY <2>2, <2>3
  <2> QED
    BY <2>4, <2>5 DEF Having
<1>3. \A n \in Nat : n \in T
  <2> HIDE DEF T
  <2>1. T \in SUBSET Nat
    BY DEF T
  <2> QED
    BY <1>1, <1>2, <2>1, Induction
<1> QED
  BY <1>3

LEMMA WithBitsIs ==
  ASSUME NEW bits \in SUBSET (0..(WORD - 1))
  PROVE  WithBits(bits) \in WORDs /\ BitsOf(WithBits(bits)) = bits
<1>1. WORD \in Nat /\ bits \in SUBSET Int
  BY WidthFacts
<1>2. PICK x \in 0..(2 ^ WORD - 1) : \A k \in 0..(WORD - 1) : HasBit(x, k) <=> k \in bits
  BY <1>1, HavingBits DEF Having
<1>3. \A v : BitsOf(v) = {k \in 0..(WORD - 1) : HasBit(v, k)}
  BY DEF BitsOf, HasBit
<1>4. BitsOf(x) = bits
  BY <1>2, <1>3
<1> QED
  BY <1>4 DEF WithBits, WORDs

LEMMA BitsAre == \A x, k : k \in BitsOf(x) <=> k \in 0..(WORD - 1) /\ HasBit(x, k)
  BY DEF BitsOf, HasBit

(* A number is known by its bits, and so are AND and OR.                    *)
LEMMA AndIs ==
  /\ \A x, y : And(x, y) \in WORDs /\ BitsOf(And(x, y)) = BitsOf(x) \cap BitsOf(y)
  /\ \A x, y : BitsOf(Or(x, y)) = BitsOf(x) \cup BitsOf(y)
<1>1. ASSUME NEW x, NEW y
      PROVE  BitsOf(x) \cap BitsOf(y) \in SUBSET (0..(WORD - 1)) /\ BitsOf(x) \cup BitsOf(y) \in SUBSET (0..(WORD - 1))
  BY DEF BitsOf
<1> QED
  BY <1>1, WithBitsIs DEF And, Or

-----------------------------------------------------------------------------
(* The bits of what is shifted, of the mask, and of its complement.         *)
LEMMA ShlrBits ==
  ASSUME NEW x \in WORDs, NEW off \in 0..(WORD - 1)
  PROVE  BitsOf(Shlr(x, off, WORD)) = {k \in 0..(WORD - 1) : k + off \in BitsOf(x)}
<1>1. WORD \in Nat /\ off \in Nat /\ Limited(off, WORD) = off /\ x \in 0..(2 ^ WORD - 1) /\ x \in Nat
  <2>1. WORD \in Nat /\ 2 ^ WORD \in Nat
    BY WidthFacts, PowerType
  <2> QED
    BY <2>1 DEF Limited, WORDs
<1>2. Shlr(x, off, WORD) = x \div 2 ^ off
  BY <1>1, ShlrIs
<1>3. ASSUME NEW k \in 0..(WORD - 1) PROVE HasBit(x \div 2 ^ off, k) <=> k + off \in BitsOf(x)
  <2>1. k \in Nat /\ off + k = k + off /\ 2 ^ off \in Nat \ {0} /\ 2 ^ k \in Nat \ {0} /\ x \in Int
    BY <1>1, PowerType
  <2>2. 2 ^ (off + k) = 2 ^ off * 2 ^ k
    BY <1>1, <2>1, PowerSum
  <2>3. (x \div 2 ^ off) \div 2 ^ k = x \div (2 ^ off * 2 ^ k)
    BY <2>1, DivTwice, Zenon
  <2>4. HasBit(x \div 2 ^ off, k) <=> HasBit(x, k + off)
    BY <2>1, <2>2, <2>3 DEF HasBit
  <2>5. CASE k + off <= WORD - 1
    BY <1>1, <2>4, <2>5, BitsAre
  <2>6. CASE ~(k + off <= WORD - 1)
    <3>1. k + off \in Nat /\ k + off >= WORD /\ k + off \notin 0..(WORD - 1)
      BY <1>1, <2>6
    <3>2. ~HasBit(x, k + off)
      BY <1>1, <3>1, NoBit
    <3> QED
      BY <2>4, <3>1, <3>2, BitsAre
  <2> QED
    BY <2>5, <2>6
<1> QED
  BY <1>2, <1>3, BitsAre

LEMMA ShllBits ==
  ASSUME NEW x \in WORDs, NEW off \in 0..(WORD - 1)
  PROVE  /\ Shll(x, off, WORD) \in WORDs
         /\ BitsOf(Shll(x, off, WORD)) = {k \in 0..(WORD - 1) : k - off \in BitsOf(x)}
<1> DEFINE w == 2 ^ WORD
           p == 2 ^ off
           z == x * p
           s == Shll(x, off, WORD)
           q == z \div w
<1>1. WORD \in Nat /\ off \in Nat /\ Limited(off, WORD) = off /\ x \in 0..(w - 1)
  <2>1. WORD \in Nat
    BY WidthFacts
  <2> QED
    BY <2>1 DEF Limited, WORDs
<1>2. s = z % w
  BY <1>1, ShllIs
<1>3. w \in Nat \ {0} /\ p \in Nat \ {0} /\ x \in Int
  <2>1. w \in Nat \ {0} /\ p \in Nat \ {0}
    BY <1>1, PowerType
  <2> QED
    BY <1>1, <2>1
<1> HIDE DEF s
<1>4. z \in Int /\ q \in Int /\ z = s + q * w /\ s \in 0..(w - 1)
  <2> HIDE DEF w, p
  <2>1. z \in Int
    BY <1>3
  <2> HIDE DEF z
  <2>2. z = q * w + (z % w) /\ q \in Int /\ z % w \in 0..(w - 1)
    BY <1>3, <2>1, DivMod, Zenon
  <2> HIDE DEF q
  <2> QED
    BY <1>2, <1>3, <2>1, <2>2
<1> HIDE DEF w, z, q
<1>5. ASSUME NEW k \in 0..(WORD - 1) PROVE HasBit(s, k) <=> k - off \in BitsOf(x)
  <2>1. HasBit(s, k) <=> HasBit(z, k)
    <3>1. s \in Int
      BY <1>3, <1>4
    <3>2. HasBit(s + q * 2 ^ WORD, k) <=> HasBit(s, k)
      BY <1>1, <1>4, <3>1, BitHigher
    <3> QED
      BY <1>4, <3>2 DEF w
  <2>2. CASE k < off
    <3>1. HasBit(0 + x * 2 ^ off, k) <=> HasBit(0, k)
      <4>1. k \in 0..(off - 1) /\ 0 \in Int
        BY <1>1, <2>2
      <4> QED
        BY <1>1, <1>3, <4>1, BitHigher
    <3>2. 0 + x * 2 ^ off = z
      BY <1>3 DEF z, p
    <3>3. ~HasBit(0, k)
      <4>1. 2 ^ k \in Nat \ {0}
        BY <1>1, PowerType
      <4>2. 0 \div 2 ^ k = 0
        BY <4>1
      <4>3. (0 \div 2 ^ k) % 2 = 0
        BY <4>2, EvenZero, Zenon
      <4> QED
        BY <4>3 DEF HasBit
    <3>4. k - off \notin 0..(WORD - 1)
      BY <1>1, <2>2
    <3> QED
      BY <2>1, <3>1, <3>2, <3>3, <3>4, BitsAre
  <2>3. CASE k >= off
    <3> DEFINE j == k - off
               f == 2 ^ j
    <3>1. j \in Nat /\ j \in 0..(WORD - 1) /\ off + j = k
      BY <1>1, <2>3
    <3>2. f \in Nat \ {0} /\ 2 ^ k = p * f
      BY <1>1, <3>1, PowerType, PowerSum
    <3>3. (z \div p) \div f = z \div (p * f)
      <4> HIDE DEF f, p
      <4> QED
        BY <1>3, <1>4, <3>2, DivTwice, Zenon
    <3>4. z \div p = x
      <4>1. (0 + x * p) \div p = (0 \div p) + x
        <5>1. 0 \in Int
          OBVIOUS
        <5> HIDE DEF p
        <5> QED
          BY <1>3, <5>1, DivAdd, Zenon
      <4>2. 0 \div p = 0
        <5> HIDE DEF p
        <5> QED
          BY <1>3
      <4>3. 0 + x * p = z /\ 0 + x = x
        BY <1>3 DEF z
      <4> QED
        BY <4>1, <4>2, <4>3
    <3>5. HasBit(z, k) <=> HasBit(x, j)
      BY <3>2, <3>3, <3>4 DEF HasBit
    <3> QED
      BY <2>1, <3>1, <3>5, BitsAre
  <2> QED
    BY <1>1, <2>2, <2>3
<1>6. BitsOf(s) = {k \in 0..(WORD - 1) : k - off \in BitsOf(x)}
  BY <1>5, BitsAre
<1> QED
  BY <1>4, <1>6 DEF s, w, WORDs

LEMMA MaskBits ==
  ASSUME NEW w \in 0..(WORD - 1)
  PROVE  Mask(w) \in WORDs /\ BitsOf(Mask(w)) = 0..(Width(w) - 1)
<1> DEFINE n == Width(w)
           m == 2 ^ n
           W == 2 ^ WORD
<1>1. n \in 1..WORD /\ n \in Nat /\ WORD \in Nat /\ n = (IF w = 0 THEN WORD ELSE w)
  BY WidthFacts DEF Width
<1>2. m \in Nat \ {0} /\ W \in Nat \ {0} /\ m <= W
  BY <1>1, PowerType, PowerGrows
<1>3. Mask(w) = m - 1
  <2>1. CASE w = 0
    <3>1. Mask(w) = (0 - 1) % W
      BY <2>1 DEF Mask
    <3>2. -1 = (-1) * W + (W - 1)
      <4> HIDE DEF W
      <4> QED
        BY <1>2
    <3>3. -1 \in Int /\ W - 1 \in 0..(W - 1) /\ 0 - 1 = -1
      <4> HIDE DEF W
      <4> QED
        BY <1>2
    <3>4. (-1) % W = W - 1
      <4> HIDE DEF W
      <4> QED
        BY <1>2, <3>2, <3>3, DivModUnique
    <3> QED
      BY <1>1, <2>1, <3>1, <3>3, <3>4
  <2>2. CASE w # 0
    <3>1. Mask(w) = (m - 1) % W
      BY <1>1, <2>2 DEF Mask
    <3>2. m - 1 \in Nat /\ m - 1 < W
      <4> HIDE DEF m, W
      <4> QED
        BY <1>2
    <3>3. (m - 1) % W = m - 1
      <4> HIDE DEF m, W
      <4> QED
        BY <1>2, <3>2, DivInRange
    <3> QED
      BY <3>1, <3>3
  <2> QED
    BY <2>1, <2>2
<1>4. m - 1 \in 0..(W - 1) /\ m - 1 \in 0..(m - 1)
  <2> HIDE DEF m, W
  <2> QED
    BY <1>2
<1> HIDE DEF n
<1>5. ASSUME NEW k \in Nat PROVE HasBit(m - 1, k) <=> k < n
  <2>1. CASE k >= n
    BY <1>1, <1>4, <2>1, NoBit
  <2>2. CASE k < n
    <3> DEFINE p == 2 ^ k
               g == 2 ^ (n - 1 - k)
    <3>1. k \in Nat /\ n - 1 - k \in Nat /\ n - 1 \in Nat /\ k + (n - 1 - k) = n - 1 /\ (n - 1) + 1 = n
      BY <1>1, <2>2
    <3>2. 2 ^ (n - 1) = p * g /\ 2 ^ ((n - 1) + 1) = 2 * 2 ^ (n - 1) /\ p \in Nat \ {0} /\ g \in Nat \ {0}
      BY <3>1, PowerSum, PowerNext, PowerType
    <3>3. m = 2 * (p * g)
      BY <3>1, <3>2
    <3> HIDE DEF m, p, g
    <3>4. m - 1 = (2 * g - 1) * p + (p - 1) /\ 2 * g - 1 \in Int /\ p - 1 \in 0..(p - 1)
      <4>1. (2 * g - 1) * p = 2 * (p * g) - p /\ p * g \in Int
        BY <3>2
      <4> QED
        BY <3>2, <3>3, <4>1
    <3>5. m - 1 \in Int
      BY <1>2
    <3>6. (m - 1) \div p = 2 * g - 1
      <4> DEFINE a == m - 1
                 b == 2 * g - 1
                 r == p - 1
      <4>1. a \in Int /\ p \in Nat \ {0} /\ b \in Int /\ r \in 0..(p - 1) /\ a = b * p + r
        BY <3>2, <3>4, <3>5
      <4> HIDE DEF a, b, r
      <4>2. a \div p = b
        BY <4>1, DivModUnique, Zenon
      <4> QED
        BY <4>2 DEF a, b
    <3>7. (2 * g - 1) % 2 = 1
      BY <3>2
    <3> QED
      BY <2>2, <3>6, <3>7 DEF HasBit, p
  <2> QED
    BY <1>1, <2>1, <2>2
<1>6. BitsOf(m - 1) = 0..(n - 1)
  <2> DEFINE u == m - 1
  <2>1. \A k : k \in BitsOf(u) <=> k \in 0..(WORD - 1) /\ HasBit(u, k)
    BY BitsAre
  <2>2. \A k \in Nat : HasBit(u, k) <=> k < n
    BY <1>5
  <2>3. BitsOf(u) \subseteq 0..(WORD - 1)
    BY <2>1
  <2> HIDE DEF u
  <2>4. \A k : k \in BitsOf(u) <=> k \in 0..(n - 1)
    BY <1>1, <2>1, <2>2
  <2> QED
    BY <2>3, <2>4 DEF u
<1> QED
  BY <1>3, <1>4, <1>6 DEF n, WORDs

(* The word without a mask.                                                 *)
LEMMA Complement ==
  ASSUME NEW x \in WORDs
  PROVE  2 ^ WORD - 1 - x \in WORDs /\ BitsOf(2 ^ WORD - 1 - x) = (0..(WORD - 1)) \ BitsOf(x)
<1> DEFINE w == 2 ^ WORD
           y == w - 1 - x
<1>1. WORD \in Nat /\ w \in Nat \ {0} /\ x \in 0..(w - 1)
  BY WidthFacts, PowerType DEF WORDs
<1>2. x \in Int /\ y \in Int /\ y \in 0..(w - 1)
  <2> HIDE DEF w
  <2> QED
    BY <1>1
<1>3. ASSUME NEW k \in 0..(WORD - 1) PROVE HasBit(y, k) <=> ~HasBit(x, k)
  <2> DEFINE p == 2 ^ k
             g == 2 ^ (WORD - 1 - k)
             q == x \div p
             r == x % p
  <2>1. k \in Nat /\ WORD - 1 - k \in Nat /\ WORD - 1 \in Nat /\ k + (WORD - 1 - k) = WORD - 1 /\ (WORD - 1) + 1 = WORD
    BY <1>1
  <2>2. 2 ^ (WORD - 1) = p * g /\ 2 ^ ((WORD - 1) + 1) = 2 * 2 ^ (WORD - 1) /\ p \in Nat \ {0} /\ g \in Nat \ {0}
    <3>1. 2 ^ (k + (WORD - 1 - k)) = p * g
      BY <2>1, PowerSum
    <3>2. 2 ^ ((WORD - 1) + 1) = 2 * 2 ^ (WORD - 1)
      BY <2>1, PowerNext, Zenon
    <3>3. p \in Nat \ {0} /\ g \in Nat \ {0}
      BY <2>1, PowerType
    <3> QED
      BY <2>1, <3>1, <3>2, <3>3
  <2>3. w = 2 * (p * g)
    BY <2>1, <2>2
  <2> HIDE DEF w, p, g
  <2>4. x = q * p + r /\ q \in Int /\ r \in 0..(p - 1)
    BY <1>2, <2>2, DivMod, Zenon
  <2> HIDE DEF q, r
  <2>5. y = (2 * g - 1 - q) * p + (p - 1 - r)
    <3>1. (2 * g - 1 - q) * p = 2 * (p * g) - p - q * p /\ p * g \in Int /\ q * p \in Int
      BY <2>2, <2>4
    <3> QED
      BY <2>2, <2>3, <2>4, <3>1
  <2>6. 2 * g - 1 - q \in Int /\ p - 1 - r \in 0..(p - 1)
    BY <2>2, <2>4
  <2> DEFINE c == 2 * g - 1 - q
             d == p - 1 - r
  <2>7. y \div p = c
    <3>1. y \in Int /\ c \in Int /\ d \in 0..(p - 1) /\ y = c * p + d
      BY <1>2, <2>5, <2>6
    <3> HIDE DEF y, c, d
    <3> QED
      BY <2>2, <3>1, DivModUnique, Zenon
  <2>8. c % 2 = 1 <=> ~(q % 2 = 1)
    BY <2>2, <2>4
  <2> HIDE DEF c, y
  <2> QED
    BY <2>7, <2>8 DEF HasBit, p, q
<1> HIDE DEF y, w
<1>4. BitsOf(y) = (0..(WORD - 1)) \ BitsOf(x)
  BY <1>3, BitsAre
<1> QED
  BY <1>2, <1>4 DEF y, w, WORDs

(* A field is taken out, and put in without a change to the others.         *)
LEMMA FieldTaken ==
  ASSUME NEW x \in WORDs, NEW off \in 0..(WORD - 1), NEW w \in 0..(WORD - 1)
  PROVE  BitsOf(BfExt(x, off, w)) = {k \in 0..(Width(w) - 1) : k + off \in BitsOf(x)}
<1>1. BitsOf(BfExt(x, off, w)) = {k \in 0..(WORD - 1) : k + off \in BitsOf(x)} \cap (0..(Width(w) - 1))
  <2> DEFINE a == Shlr(x, off, WORD)
             b == Mask(w)
  <2>1. BfExt(x, off, w) = And(a, b)
    BY DEF BfExt
  <2>2. BitsOf(a) = {k \in 0..(WORD - 1) : k + off \in BitsOf(x)}
    BY ShlrBits
  <2>3. BitsOf(b) = 0..(Width(w) - 1)
    BY MaskBits
  <2> HIDE DEF a, b
  <2>4. BitsOf(And(a, b)) = BitsOf(a) \cap BitsOf(b)
    BY AndIs, Zenon
  <2> QED
    BY <2>1, <2>2, <2>3, <2>4
<1>2. 0..(Width(w) - 1) \subseteq 0..(WORD - 1)
  BY WidthFacts DEF Width
<1> QED
  BY <1>1, <1>2

LEMMA FieldPut ==
  ASSUME NEW v \in WORDs, NEW mem \in WORDs, NEW off \in 0..(WORD - 1), NEW w \in 0..(WORD - 1)
  PROVE  BitsOf(BfIns(v, mem, off, w)) =
           {k \in 0..(WORD - 1) : IF k \in off..(off + Width(w) - 1) THEN k - off \in BitsOf(v) ELSE k \in BitsOf(mem)}
<1> DEFINE mask == Shll(Mask(w), off, WORD)
           part == And(v, Mask(w))
           moved == Shll(part, off, WORD)
           n == Width(w)
<1>1. Mask(w) \in WORDs /\ BitsOf(Mask(w)) = 0..(n - 1)
  BY MaskBits
<1>2. mask \in WORDs /\ BitsOf(mask) = {k \in 0..(WORD - 1) : k - off \in 0..(n - 1)}
  BY <1>1, ShllBits
<1>3. BitsOf(2 ^ WORD - 1 - mask) = (0..(WORD - 1)) \ BitsOf(mask)
  BY <1>2, Complement
<1>4. part \in WORDs /\ BitsOf(part) = BitsOf(v) \cap (0..(n - 1))
  BY <1>1, AndIs
<1>5. BitsOf(moved) = {k \in 0..(WORD - 1) : k - off \in BitsOf(part)}
  BY <1>4, ShllBits
<1>6. BitsOf(BfIns(v, mem, off, w)) = (BitsOf(mem) \cap BitsOf(2 ^ WORD - 1 - mask)) \cup BitsOf(moved)
  BY AndIs DEF BfIns
<1>7. n \in Nat /\ off \in Nat /\ WORD \in Nat /\ BitsOf(mem) \subseteq 0..(WORD - 1)
  BY WidthFacts DEF Width, BitsOf
<1>8. \A k \in 0..(WORD - 1) : k - off \in 0..(n - 1) <=> k \in off..(off + n - 1)
  BY <1>7
<1> HIDE DEF mask, part, moved, n
<1> QED
  BY <1>2, <1>3, <1>4, <1>5, <1>6, <1>7, <1>8 DEF n

-----------------------------------------------------------------------------
(* A product of longs, from the halves of its factors.                      *)
LEMMA LongProduct ==
  ASSUME NEW x \in LONGs, NEW y \in LONGs
  PROVE  LMul(x, y) = (x * Lo(y) + ((Lo(x) * Hi(y)) % 2 ^ WORD) * 2 ^ WORD) % 2 ^ LONG
<1> DEFINE w == 2 ^ WORD
           m == 2 ^ LONG
           a == Hi(x)
           b == Lo(x)
           c == Hi(y)
           d == Lo(y)
           q == (b * c) \div w
           r == (b * c) % w
<1>1. w \in Nat \ {0} /\ m = w * w /\ m \in Nat \ {0}
  BY WidthFacts, PowerType
<1>2. a \in Nat /\ b \in Nat /\ c \in Nat /\ d \in Nat /\ x = a * w + b /\ y = c * w + d /\ x \in Nat /\ y \in Nat
  <2>1. \A v \in WORDs : v \in Nat
    BY DEF WORDs
  <2>2. \A v \in LONGs : v \in Nat
    BY DEF LONGs
  <2> QED
    BY <2>1, <2>2, HiLo
<1>3. LMul(x, y) = (x * y) % m
  BY LMulIs
<1> HIDE DEF w, m, a, b, c, d
<1>4. b * c = q * w + r /\ q \in Int /\ r \in Int
  <2> DEFINE bc == b * c
  <2>1. bc \in Int
    BY <1>2
  <2> HIDE DEF bc
  <2>2. bc = (bc \div w) * w + (bc % w) /\ bc \div w \in Int /\ bc % w \in 0..(w - 1)
    BY <1>1, <2>1, DivMod
  <2> QED
    BY <1>1, <2>2 DEF bc
<1> HIDE DEF q, r
<1>5. x * y = (x * d + r * w) + (a * c + q) * m
  <2>1. x * y = x * d + (x * c) * w
    BY <1>1, <1>2
  <2>2. x * c = (a * c) * w + b * c
    BY <1>1, <1>2
  <2>3. x * c = (a * c) * w + (q * w + r)
    BY <1>4, <2>2
  <2> DEFINE e == a * c
             xd == x * d
             xc == x * c
  <2>4. e \in Int /\ xd \in Int /\ xc = e * w + (q * w + r) /\ x * y = xd + xc * w
    BY <1>2, <2>1, <2>3
  <2> HIDE DEF e, xd, xc
  <2>5. xc * w = (e + q) * (w * w) + r * w
    BY <1>1, <1>4, <2>4
  <2>6. x * y = (xd + r * w) + (e + q) * m
    <3> DEFINE rw == r * w
               k == (e + q) * (w * w)
    <3>1. rw \in Int /\ k \in Int
      BY <1>1, <1>4, <2>4
    <3>2. xc * w = k + rw
      BY <2>5
    <3> HIDE DEF rw, k
    <3>3. x * y = (xd + rw) + k
      BY <2>4, <3>1, <3>2
    <3> QED
      BY <1>1, <3>3 DEF rw, k
  <2> QED
    BY <2>6 DEF e, xd
<1> DEFINE low == x * d + r * w
           k == a * c + q
<1>6. low \in Int /\ k \in Int
  BY <1>1, <1>2, <1>4
<1>7. x * y = low + k * m
  BY <1>5
<1> HIDE DEF low, k
<1>8. (low + k * m) % m = low % m
  BY <1>1, <1>6, ModPlusMultiple
<1>9. (x * y) % m = low % m
  BY <1>7, <1>8
<1> QED
  BY <1>3, <1>9 DEF low, r, w, m, b, c, d

(* A product by a multiplier of one byte.                                   *)
LEMMA OneByte ==
  ASSUME NEW x \in WORDs
  PROVE  x % 2 ^ BYTE \in 0..(2 ^ BYTE - 1) /\ x \div 2 ^ BYTE \in 0..(2 ^ BYTE - 1)
         /\ (x \div 2 ^ BYTE) * 2 ^ BYTE + (x % 2 ^ BYTE) = x
<1> DEFINE B == 2 ^ BYTE
<1>1. B \in Nat \ {0} /\ x \in 0..(B * B - 1)
  BY WidthFacts, PowerType DEF WORDs
<1> HIDE DEF B
<1>2. x = (x \div B) * B + (x % B) /\ x \div B \in Int /\ x % B \in 0..(B - 1)
  BY <1>1, DivMod
<1>3. x \div B \in 0..(B - 1)
  <2> DEFINE q == x \div B
             r == x % B
  <2>1. x = q * B + r /\ q \in Int /\ r \in 0..(B - 1)
    BY <1>2
  <2> HIDE DEF q, r
  <2>2. q >= 0
    <3>1. SUFFICES ASSUME q <= -1 PROVE FALSE
      BY <2>1
    <3>2. q * B <= -B /\ q * B \in Int
      BY <1>1, <2>1, <3>1
    <3> QED
      BY <1>1, <2>1, <3>2
  <2>3. q <= B - 1
    <3>1. SUFFICES ASSUME q >= B PROVE FALSE
      BY <1>1, <2>1
    <3>2. q * B >= B * B /\ q * B \in Int /\ B * B \in Int
      BY <1>1, <2>1, <3>1
    <3> QED
      BY <1>1, <2>1, <3>2
  <2> QED
    BY <1>1, <2>1, <2>2, <2>3 DEF q
<1> QED
  BY <1>2, <1>3 DEF B

-----------------------------------------------------------------------------
(* Words put to a stream, and got back.                                     *)
LEMMA Appended ==
  ASSUME NEW t \in Seq(Int), NEW c \in Int
  PROVE  /\ Append(t, c) \in Seq(Int) /\ Len(Append(t, c)) = Len(t) + 1
         /\ Append(t, c)[Len(t) + 1] = c
         /\ \A k \in 1..Len(t) : Append(t, c)[k] = t[k]
<1>1. Append(t, c) \in Seq(Int) /\ Len(Append(t, c)) = Len(t) + 1
  OBVIOUS
<1>2. Append(t, c)[Len(t) + 1] = c
  OBVIOUS
<1>3. \A k \in 1..Len(t) : Append(t, c)[k] = t[k]
  OBVIOUS
<1> QED
  BY <1>1, <1>2, <1>3

Files == [text : Seq(Int), room : Int, ret : Int]

LEMMA NewFile ==
  ASSUME NEW f \in Files, NEW u \in Seq(Int), NEW n \in Int, NEW d \in Int
  PROVE  [f EXCEPT !.text = u, !.room = n, !.ret = d] = [text |-> u, room |-> n, ret |-> d]
<1> DEFINE g == [f EXCEPT !.text = u, !.room = n, !.ret = d]
<1>1. g \in Files
  BY DEF Files
<1>2. g.text = u /\ g.room = n /\ g.ret = d
  BY DEF Files
<1> HIDE DEF g
<1>3. g = [text |-> g.text, room |-> g.room, ret |-> g.ret]
  BY <1>1 DEF Files
<1>4. g = [text |-> u, room |-> n, ret |-> d]
  BY <1>2, <1>3
<1> QED
  BY <1>4 DEF g

LEMMA PutCharacter ==
  ASSUME NEW t \in Seq(Int), NEW m \in Nat \ {0}, NEW c \in Int, NEW e \in Int
  PROVE  putc([text |-> t, room |-> m, ret |-> e], c) = [text |-> Append(t, c), room |-> m - 1, ret |-> 0]
<1> DEFINE f == [text |-> t, room |-> m, ret |-> e]
           u == Append(t, c)
           n == m - 1
<1>1. f \in Files /\ f.text = t /\ f.room = m /\ f.room # 0
  BY DEF Files
<1>2. u \in Seq(Int) /\ n \in Int /\ 0 \in Int
  BY Appended
<1>3. putc(f, c) = [f EXCEPT !.text = u, !.room = n, !.ret = 0]
  BY DEF putc
<1> HIDE DEF f, u, n
<1>4. [f EXCEPT !.text = u, !.room = n, !.ret = 0] = [text |-> u, room |-> n, ret |-> 0]
  BY <1>1, <1>2, NewFile
<1> QED
  BY <1>3, <1>4 DEF f, u, n

LEMMA PutWord ==
  ASSUME NEW t \in Seq(Int), NEW m \in Nat, m >= 2, NEW w \in WORDs, NEW e \in Int
  PROVE  putw([text |-> t, room |-> m, ret |-> e], w)
           = [text |-> Append(Append(t, w % 2 ^ BYTE), w \div 2 ^ BYTE), room |-> m - 2, ret |-> w]
<1> DEFINE f == [text |-> t, room |-> m, ret |-> e]
           a == w % 2 ^ BYTE
           b == w \div 2 ^ BYTE
           lo == putc(f, a)
           hi == putc(lo, b)
<1>1. a \in Int /\ b \in Int
  <2>1. 2 ^ BYTE \in Nat
    BY WidthFacts, PowerType
  <2> QED
    BY <2>1, OneByte
<1>2. putw(f, w) = IF lo.ret = EOF THEN lo ELSE IF hi.ret = EOF THEN hi ELSE [hi EXCEPT !.ret = w]
  BY DEF putw
<1> HIDE DEF a, b
<1>3. m \in Nat \ {0} /\ m - 1 \in Nat \ {0} /\ (m - 1) - 1 = m - 2
  OBVIOUS
<1>4. lo = [text |-> Append(t, a), room |-> m - 1, ret |-> 0]
  BY <1>1, <1>3, PutCharacter
<1> HIDE DEF lo, f
<1>5. lo.ret # EOF
  BY <1>4 DEF EOF
<1>6. Append(t, a) \in Seq(Int)
  BY <1>1
<1> DEFINE u == Append(t, a)
           n == m - 1
<1>7. u \in Seq(Int) /\ n \in Nat \ {0} /\ 0 \in Int /\ lo = [text |-> u, room |-> n, ret |-> 0]
  BY <1>3, <1>4, <1>6
<1> HIDE DEF u, n
<1>8. hi = [text |-> Append(u, b), room |-> n - 1, ret |-> 0]
  BY <1>1, <1>7, PutCharacter
<1> HIDE DEF hi
<1>9. hi.ret # EOF /\ [hi EXCEPT !.ret = w] = [text |-> Append(u, b), room |-> n - 1, ret |-> w]
  <2> DEFINE v == Append(u, b)
             k == n - 1
  <2>1. hi = [text |-> v, room |-> k, ret |-> 0]
    BY <1>8
  <2> HIDE DEF v, k
  <2>2. hi.ret # EOF
    BY <2>1 DEF EOF
  <2>3. [hi EXCEPT !.ret = w] = [text |-> v, room |-> k, ret |-> w]
    BY <2>1
  <2> QED
    BY <2>2, <2>3 DEF v, k
<1> QED
  BY <1>2, <1>3, <1>5, <1>8, <1>9 DEF u, n, f, a, b

LEMMA FourBytes ==
  ASSUME NEW t \in Seq(Int), Len(t) = 2, NEW c \in Int, NEW d \in Int
  PROVE  /\ Len(Append(Append(t, c), d)) = 4
         /\ Append(Append(t, c), d)[1] = t[1] /\ Append(Append(t, c), d)[2] = t[2]
         /\ Append(Append(t, c), d)[3] = c /\ Append(Append(t, c), d)[4] = d
<1>1. PICK u : u = Append(t, c)
  OBVIOUS
<1>2. u \in Seq(Int) /\ Len(u) = 3 /\ u[3] = c /\ \A k \in 1..2 : u[k] = t[k]
  <2>1. u \in Seq(Int) /\ Len(u) = Len(t) + 1 /\ u[Len(t) + 1] = c /\ \A k \in 1..Len(t) : u[k] = t[k]
    BY <1>1, Appended, Zenon
  <2> QED
    BY <2>1
<1>3. Len(Append(u, d)) = 4 /\ Append(u, d)[4] = d /\ \A k \in 1..3 : Append(u, d)[k] = u[k]
  <2>1. Len(Append(u, d)) = Len(u) + 1 /\ Append(u, d)[Len(u) + 1] = d /\ \A k \in 1..Len(u) : Append(u, d)[k] = u[k]
    BY <1>2, Appended, Zenon
  <2> QED
    BY <1>2, <2>1
<1>4. u[1] = t[1] /\ u[2] = t[2] /\ Append(u, d)[1] = u[1] /\ Append(u, d)[2] = u[2] /\ Append(u, d)[3] = u[3]
  BY <1>2, <1>3
<1> QED
  BY <1>1, <1>2, <1>3, <1>4

LEMMA WordsComeBack ==
  ASSUME NEW w \in WORDs, NEW v \in WORDs, NEW f, f = putw(putw(Opened(4), w), v)
  PROVE  getw(f.text, 1) = w /\ getw(f.text, 3) = v /\ f.ret = v
<1> DEFINE B == 2 ^ BYTE
           a == w % B
           b == w \div B
           c == v % B
           d == v \div B
           t1 == Append(Append(<<>>, a), b)
           t2 == Append(Append(t1, c), d)
<1>1. B \in Nat
  BY WidthFacts, PowerType
<1>2. a \in Int /\ b \in Int /\ c \in Int /\ d \in Int /\ b * B + a = w /\ d * B + c = v
  BY <1>1, OneByte
<1>3. putw([text |-> <<>>, room |-> 4, ret |-> 0], w) = [text |-> t1, room |-> 2, ret |-> w]
  <2>1. <<>> \in Seq(Int) /\ 4 \in Nat /\ 4 >= 2 /\ 4 - 2 = 2 /\ 0 \in Int
    OBVIOUS
  <2> QED
    BY <2>1, PutWord
<1>4. t1 \in Seq(Int) /\ Len(t1) = 2 /\ t1[1] = a /\ t1[2] = b
  <2> HIDE DEF a, b
  <2> QED
    BY <1>2
<1> HIDE DEF t1
<1>5. putw([text |-> t1, room |-> 2, ret |-> w], v) = [text |-> t2, room |-> 0, ret |-> v]
  <2>1. 2 \in Nat /\ 2 >= 2 /\ 2 - 2 = 0 /\ w \in Int
    BY DEF WORDs
  <2> QED
    BY <1>4, <2>1, PutWord
<1>6. Len(t2) = 4 /\ t2[1] = a /\ t2[2] = b /\ t2[3] = c /\ t2[4] = d
  <2> HIDE DEF a, b, c, d
  <2> QED
    BY <1>2, <1>4, FourBytes
<1> HIDE DEF t2
<1>7. f.text = t2 /\ f.ret = v
  BY <1>3, <1>5 DEF Opened
<1>8. getw(t2, 1) = (b * B + a) % 2 ^ WORD /\ getw(t2, 3) = (d * B + c) % 2 ^ WORD
  <2> HIDE DEF a, b, c, d
  <2> QED
    BY <1>6 DEF getw
<1>9. \A x \in WORDs : x % 2 ^ WORD = x
  <2> SUFFICES ASSUME NEW x \in WORDs PROVE x % 2 ^ WORD = x
    OBVIOUS
  <2> DEFINE m == 2 ^ WORD
  <2>1. m \in Nat \ {0} /\ x \in Nat /\ x < m
    <3>1. m \in Nat \ {0}
      BY WidthFacts, PowerType
    <3> QED
      BY <3>1 DEF WORDs
  <2> HIDE DEF m
  <2>2. x % m = x
    BY <2>1, DivInRange
  <2> QED
    BY <2>2 DEF m
<1> QED
  BY <1>2, <1>7, <1>8, <1>9

-----------------------------------------------------------------------------
(* What RoutinesRight says of each operation.                               *)
RoutineOps == {"ldiv", "adiv", "lldiv", "aldiv", "lmul", "llmul", "wrelop", "brelop", "lrelop", "shift", "lshift",
               "bfext", "bfins", "qsort", "putw"}
Answered(op, x, y, r) == call'.op = op /\ call'.x = x /\ call'.y = y /\ call'.res = r

LEMMA Division ==
  ASSUME NEW op, NEW x, NEW y, NEW r, Answered(op, x, y, r),
         \/ op \in {"ldiv", "lldiv"} /\ UnsignedRight(r, x, y)
         \/ op = "adiv" /\ SignedRight(r, x, y, WORD)
         \/ op = "aldiv" /\ SignedRight(r, x, y, LONG)
  PROVE  RoutinesRight'
BY DEF Answered, RoutinesRight

LEMMA Multiplication ==
  ASSUME NEW op, NEW x, NEW y, NEW r, Answered(op, x, y, r),
         \/ op = "lmul" /\ r = (x * y) % 2 ^ WORD
         \/ op = "llmul" /\ r = (x * Lo(y) + ((Lo(x) * Hi(y)) % 2 ^ WORD) * 2 ^ WORD) % 2 ^ LONG
  PROVE  RoutinesRight'
BY DEF Answered, RoutinesRight

LEMMA Comparison ==
  ASSUME NEW op, NEW x, NEW y, NEW r, Answered(op, x, y, r),
         \/ op = "wrelop" /\ OrderRight(r, x, y, WORD)
         \/ op = "brelop" /\ OrderRight(r, x, y, BYTE)
         \/ op = "lrelop" /\ OrderRight(r, x, y, LONG)
  PROVE  RoutinesRight'
BY DEF Answered, RoutinesRight

LEMMA Shift ==
  ASSUME NEW op, NEW x, NEW y, NEW r, Answered(op, x, y, r),
         \/ op = "shift" /\ Shifted(r, Lo(x), y, WORD)
         \/ op = "lshift" /\ Shifted(r, x, y, LONG)
  PROVE  RoutinesRight'
BY DEF Answered, RoutinesRight

LEMMA Extraction ==
  ASSUME NEW x, NEW y, NEW r, Answered("bfext", x, y, r),
         BitsOf(r) = {k \in 0..(Width(y[2]) - 1) : k + y[1] \in BitsOf(x)}
  PROVE  RoutinesRight'
BY DEF Answered, RoutinesRight

LEMMA Insertion ==
  ASSUME NEW x, NEW y, NEW r, Answered("bfins", x, y, r),
         BitsOf(r) = {k \in 0..(WORD - 1) : IF k \in y[1]..(y[1] + Width(y[2]) - 1)
                                            THEN k - y[1] \in BitsOf(x[1]) ELSE k \in BitsOf(x[2])}
  PROVE  RoutinesRight'
BY DEF Answered, RoutinesRight

LEMMA SortOrPutw ==
  ASSUME NEW op, NEW x, NEW y, NEW r, Answered(op, x, y, r),
         \/ op = "qsort" /\ SortRight(r, x)
         \/ op = "putw" /\ r = <<x, y, y>>
  PROVE  RoutinesRight'
BY DEF Answered, RoutinesRight

LEMMA NoRoutine ==
  ASSUME NEW op, op \notin RoutineOps, call'.op = op
  PROVE  RoutinesRight'
BY DEF RoutineOps, RoutinesRight

-----------------------------------------------------------------------------
(* One call after another.                                                  *)
LEMMA Operation ==
  ASSUME NEW op, NEW x, NEW y, NEW r, Called(op, x, y, r)
  PROVE  Answered(op, x, y, r)
BY DEF Called, Answered

LEMMA SampleTypes ==
  /\ \A x \in Words \cup Fields : x \in WORDs
  /\ \A x \in Longs : x \in LONGs
BY SamplesAssumption DEF WORDs, LONGs

(* One lemma for each call a program makes.                                 *)
LEMMA WordsRight == WordCall => RoutinesRight'
<1> SUFFICES ASSUME WordCall PROVE RoutinesRight'
  OBVIOUS
<1>1. PICK x \in Words, y \in Words :
        \/ Called("ldiv", x, y, LDiv(x, y))
        \/ Called("adiv", x, y, ADiv(x, y))
        \/ Called("lmul", x, y, LMulWord(x, y))
        \/ Called("wrelop", x, y, WRelop(x, y))
        \/ Called("brelop", x % 2 ^ BYTE, y % 2 ^ BYTE, BRelop(x % 2 ^ BYTE, y % 2 ^ BYTE))
  BY Zenon DEF WordCall
<1>2. x \in WORDs /\ y \in WORDs
  BY SampleTypes
<1>3. CASE Called("ldiv", x, y, LDiv(x, y))
  <2>1. Answered("ldiv", x, y, LDiv(x, y))
    BY <1>3, Operation, Zenon
  <2>2. UnsignedRight(LDiv(x, y), x, y)
    BY <1>2, UnsignedDivisions
  <2> QED
    BY <2>1, <2>2, Division
<1>4. CASE Called("adiv", x, y, ADiv(x, y))
  <2>1. Answered("adiv", x, y, ADiv(x, y))
    BY <1>4, Operation, Zenon
  <2>2. SignedRight(ADiv(x, y), x, y, WORD)
    BY <1>2, SignedWordDivision
  <2> QED
    BY <2>1, <2>2, Division
<1>5. CASE Called("lmul", x, y, LMulWord(x, y))
  <2>1. Answered("lmul", x, y, LMulWord(x, y))
    BY <1>5, Operation, Zenon
  <2>2. LMulWord(x, y) = (x * y) % 2 ^ WORD
    BY <1>2, LMulWordIs
  <2> QED
    BY <2>1, <2>2, Multiplication
<1>6. CASE Called("wrelop", x, y, WRelop(x, y))
  <2>1. Answered("wrelop", x, y, WRelop(x, y))
    BY <1>6, Operation, Zenon
  <2>2. OrderRight(WRelop(x, y), x, y, WORD)
    <3>1. WORD \in Nat /\ WORD >= 1 /\ x \in 0..(2 ^ WORD - 1) /\ y \in 0..(2 ^ WORD - 1)
      BY <1>2, WidthFacts DEF WORDs
    <3>2. OrderRight(Relop(x, y, WORD), x, y, WORD)
      BY <3>1, RelopIsRight
    <3> QED
      BY <3>2 DEF WRelop
  <2> QED
    BY <2>1, <2>2, Comparison
<1>7. CASE Called("brelop", x % 2 ^ BYTE, y % 2 ^ BYTE, BRelop(x % 2 ^ BYTE, y % 2 ^ BYTE))
  <2> DEFINE a == x % 2 ^ BYTE
             b == y % 2 ^ BYTE
  <2>1. a \in 0..(2 ^ BYTE - 1) /\ b \in 0..(2 ^ BYTE - 1)
    BY <1>2, OneByte
  <2>2. Called("brelop", a, b, BRelop(a, b))
    BY <1>7
  <2> HIDE DEF a, b
  <2>3. Answered("brelop", a, b, BRelop(a, b))
    BY <2>2, Operation, Zenon
  <2>4. OrderRight(BRelop(a, b), a, b, BYTE)
    <3>1. BYTE \in Nat /\ BYTE >= 1
      BY WidthFacts
    <3>2. OrderRight(Relop(a, b, BYTE), a, b, BYTE)
      BY <2>1, <3>1, RelopIsRight
    <3> QED
      BY <3>2 DEF BRelop
  <2> QED
    BY <2>3, <2>4, Comparison
<1> QED
  BY <1>1, <1>3, <1>4, <1>5, <1>6, <1>7, Zenon

LEMMA LongsRight == LongCall => RoutinesRight'
<1> SUFFICES ASSUME LongCall PROVE RoutinesRight'
  OBVIOUS
<1>1. PICK x \in Longs, y \in Longs :
        \/ Called("lldiv", x, y, LLDiv(x, y))
        \/ Called("aldiv", x, y, ALDiv(x, y))
        \/ Called("llmul", x, y, LMul(x, y))
        \/ Called("lrelop", x, y, LRelop(x, y))
  BY Zenon DEF LongCall
<1>2. x \in LONGs /\ y \in LONGs
  BY SampleTypes
<1>3. CASE Called("lldiv", x, y, LLDiv(x, y))
  <2>1. Answered("lldiv", x, y, LLDiv(x, y))
    BY <1>3, Operation, Zenon
  <2>2. UnsignedRight(LLDiv(x, y), x, y)
    BY <1>2, UnsignedDivisions
  <2> QED
    BY <2>1, <2>2, Division
<1>4. CASE Called("aldiv", x, y, ALDiv(x, y))
  <2>1. Answered("aldiv", x, y, ALDiv(x, y))
    BY <1>4, Operation, Zenon
  <2>2. SignedRight(ALDiv(x, y), x, y, LONG)
    BY <1>2, SignedLongDivision
  <2> QED
    BY <2>1, <2>2, Division
<1>5. CASE Called("llmul", x, y, LMul(x, y))
  <2>1. Answered("llmul", x, y, LMul(x, y))
    BY <1>5, Operation, Zenon
  <2>2. LMul(x, y) = (x * Lo(y) + ((Lo(x) * Hi(y)) % 2 ^ WORD) * 2 ^ WORD) % 2 ^ LONG
    BY <1>2, LongProduct
  <2> QED
    BY <2>1, <2>2, Multiplication
<1>6. CASE Called("lrelop", x, y, LRelop(x, y))
  <2>1. Answered("lrelop", x, y, LRelop(x, y))
    BY <1>6, Operation, Zenon
  <2>2. OrderRight(LRelop(x, y), x, y, LONG)
    BY <1>2, LRelopIsRight
  <2> QED
    BY <2>1, <2>2, Comparison
<1> QED
  BY <1>1, <1>3, <1>4, <1>5, <1>6, Zenon

LEMMA ShiftsRight == ShiftCall => RoutinesRight'
<1> SUFFICES ASSUME ShiftCall PROVE RoutinesRight'
  OBVIOUS
<1>1. PICK x \in Longs, count \in 0..(LONG + 1) :
        \/ Called("shift", x, count, <<Shll(Lo(x), count, WORD), Shlr(Lo(x), count, WORD), Shar(Lo(x), count, WORD)>>)
        \/ Called("lshift", x, count, <<Shll(x, count, LONG), Shlr(x, count, LONG), Shar(x, count, LONG)>>)
  BY Zenon DEF ShiftCall
<1>2. /\ Lo(x) \in 0..(2 ^ WORD - 1) /\ x \in 0..(2 ^ LONG - 1) /\ count \in Nat
      /\ WORD \in Nat /\ WORD >= 1 /\ LONG \in Nat /\ LONG >= 1
  <2>1. x \in LONGs
    BY SampleTypes
  <2>2. Lo(x) \in WORDs
    BY <2>1, HiLo
  <2> QED
    BY <2>1, <2>2, WidthFacts DEF WORDs, LONGs
<1>3. CASE Called("shift", x, count, <<Shll(Lo(x), count, WORD), Shlr(Lo(x), count, WORD), Shar(Lo(x), count, WORD)>>)
  <2> DEFINE r == <<Shll(Lo(x), count, WORD), Shlr(Lo(x), count, WORD), Shar(Lo(x), count, WORD)>>
  <2>1. Shifted(r, Lo(x), count, WORD)
    BY <1>2, ShiftsAreRight
  <2> HIDE DEF r
  <2>2. Called("shift", x, count, r)
    BY <1>3 DEF r
  <2>3. Answered("shift", x, count, r)
    BY <2>2, Operation, Zenon
  <2> QED
    BY <2>1, <2>3, Shift
<1>4. CASE Called("lshift", x, count, <<Shll(x, count, LONG), Shlr(x, count, LONG), Shar(x, count, LONG)>>)
  <2> DEFINE r == <<Shll(x, count, LONG), Shlr(x, count, LONG), Shar(x, count, LONG)>>
  <2>1. Shifted(r, x, count, LONG)
    BY <1>2, ShiftsAreRight
  <2> HIDE DEF r
  <2>2. Called("lshift", x, count, r)
    BY <1>4 DEF r
  <2>3. Answered("lshift", x, count, r)
    BY <2>2, Operation, Zenon
  <2> QED
    BY <2>1, <2>3, Shift
<1> QED
  BY <1>1, <1>3, <1>4

LEMMA BitFieldsRight == BitFieldCall => RoutinesRight'
<1> SUFFICES ASSUME BitFieldCall PROVE RoutinesRight'
  OBVIOUS
<1>1. PICK x \in Fields, y \in Fields, off \in 0..(WORD - 1), w \in 0..(WORD - 1) :
        \/ x = y /\ Called("bfext", x, <<off, w>>, BfExt(x, off, w))
        \/ Called("bfins", <<x, y>>, <<off, w>>, BfIns(x, y, off, w))
  BY Zenon DEF BitFieldCall
<1>2. x \in WORDs /\ y \in WORDs
  BY SampleTypes
<1> DEFINE p == <<off, w>>
           z == <<x, y>>
<1>3. p[1] = off /\ p[2] = w /\ z[1] = x /\ z[2] = y
  OBVIOUS
<1> HIDE DEF p, z
<1>4. CASE Called("bfext", x, p, BfExt(x, off, w))
  <2>1. Answered("bfext", x, p, BfExt(x, off, w))
    BY <1>4, Operation, Zenon
  <2>2. BitsOf(BfExt(x, off, w)) = {k \in 0..(Width(p[2]) - 1) : k + p[1] \in BitsOf(x)}
    BY <1>2, <1>3, FieldTaken
  <2> QED
    BY <2>1, <2>2, Extraction
<1>5. CASE Called("bfins", z, p, BfIns(x, y, off, w))
  <2>1. Answered("bfins", z, p, BfIns(x, y, off, w))
    BY <1>5, Operation, Zenon
  <2>2. BitsOf(BfIns(x, y, off, w)) = {k \in 0..(WORD - 1) : IF k \in p[1]..(p[1] + Width(p[2]) - 1)
                                            THEN k - p[1] \in BitsOf(z[1]) ELSE k \in BitsOf(z[2])}
    BY <1>2, <1>3, FieldPut
  <2> QED
    BY <2>1, <2>2, Insertion
<1> QED
  BY <1>1, <1>4, <1>5 DEF p, z

LEMMA SortsRight == SortCall => RoutinesRight'
<1> SUFFICES ASSUME SortCall PROVE RoutinesRight'
  OBVIOUS
<1>1. PICK nel \in 1..MaxSize : \E a \in [0..(nel - 1) -> Keys] : Called("qsort", a, nel, qsort(a))
  BY Zenon DEF SortCall
<1>2. PICK a \in [0..(nel - 1) -> Keys] : Called("qsort", a, nel, qsort(a))
  BY <1>1
<1>3. nel \in Nat \ {0} /\ a \in Array(nel)
  <2>1. MaxSize \in Nat /\ Keys \subseteq Int
    BY SamplesAssumption
  <2>2. nel \in Nat \ {0}
    BY <2>1
  <2>3. \A k \in 0..(nel - 1) : a[k] \in Int
    BY <2>1
  <2>4. a = [k \in 0..(nel - 1) |-> a[k]]
    OBVIOUS
  <2>5. a \in [0..(nel - 1) -> Int]
    BY <2>3, <2>4
  <2> QED
    BY <2>2, <2>5 DEF Array
<1>4. SortRight(qsort(a), a)
  BY <1>3, SortIsRight
<1>5. Answered("qsort", a, nel, qsort(a))
  BY <1>2, Operation, Zenon
<1> QED
  BY <1>4, <1>5, SortOrPutw

LEMMA PutwRight == PutwCall => RoutinesRight'
<1> SUFFICES ASSUME PutwCall PROVE RoutinesRight'
  OBVIOUS
<1>1. PICK w \in Words, v \in Words :
        LET f == putw(putw(Opened(4), w), v) IN Called("putw", w, v, <<getw(f.text, 1), getw(f.text, 3), f.ret>>)
  BY Zenon DEF PutwCall
<1> DEFINE f == putw(putw(Opened(4), w), v)
<1>2. w \in WORDs /\ v \in WORDs
  BY SampleTypes
<1>3. f = putw(putw(Opened(4), w), v)
  OBVIOUS
<1>4. Called("putw", w, v, <<getw(f.text, 1), getw(f.text, 3), f.ret>>)
  BY <1>1
<1> HIDE DEF f
<1>5. getw(f.text, 1) = w /\ getw(f.text, 3) = v /\ f.ret = v
  BY <1>2, <1>3, WordsComeBack
<1>6. Called("putw", w, v, <<w, v, v>>)
  BY <1>4, <1>5
<1>7. Answered("putw", w, v, <<w, v, v>>)
  BY <1>6, Operation, Zenon
<1> QED
  BY <1>7, SortOrPutw

LEMMA NoRoutineCall ==
  ASSUME NEW op, Made(op), op \notin RoutineOps
  PROVE  RoutinesRight'
<1>1. PICK x, y, r : Called(op, x, y, r)
  BY DEF Made
<1>2. call'.op = op
  BY <1>1 DEF Called
<1> QED
  BY <1>2, NoRoutine

(* Division, products, shifts, comparisons, bit fields, the sort and the    *)
(* words of a stream do what they are to do, for every operand.             *)
THEOREM RoutinesAreRight == Spec => []RoutinesRight
<1>1. Init => RoutinesRight
  BY DEF Init, Idle, RoutinesRight
<1>2. RoutinesRight /\ [Next]_vars => RoutinesRight'
  <2> SUFFICES ASSUME RoutinesRight, [Next]_vars PROVE RoutinesRight'
    OBVIOUS
  <2>1. CASE WordCall
    BY <2>1, WordsRight
  <2>2. CASE LongCall
    BY <2>2, LongsRight
  <2>3. CASE ShiftCall
    BY <2>3, ShiftsRight
  <2>4. CASE BitFieldCall
    BY <2>4, BitFieldsRight
  <2>5. CASE SortCall
    BY <2>5, SortsRight
  <2>6. CASE PutwCall
    BY <2>6, PutwRight
  <2>7. CASE Return
    <3>1. call'.op = "idle"
      BY <2>7 DEF Return, Idle
    <3> QED
      BY <3>1, NoRoutine DEF RoutineOps
  <2>8. CASE UNCHANGED vars
    BY <2>8 DEF vars, RoutinesRight
  <2>9. CASE NumeralCall \/ FormatCall \/ LinesCall \/ LineCall \/ ExactCall
    BY <2>9, MadeCalls, NoRoutineCall DEF RoutineOps
  <2>10. CASE FloatCall \/ PartsCall \/ ToFloatCall
    BY <2>10, MadeCalls, NoRoutineCall DEF RoutineOps
  <2>11. CASE ClockCall \/ CpmClockCall
    <3>1. ClockCall => Made("localtime") \/ Made("ctime")
      BY Zenon DEF ClockCall, Made
    <3>2. CpmClockCall => Made("convtime")
      <4> SUFFICES ASSUME CpmClockCall PROVE Made("convtime")
        OBVIOUS
      <4>1. \E x, y, r : Called("convtime", x, y, r)
        BY SMT DEF CpmClockCall
      <4> QED
        BY <4>1 DEF Made
    <3> QED
      BY <2>11, <3>1, <3>2, NoRoutineCall DEF RoutineOps
  <2> QED
    BY <2>1, <2>2, <2>3, <2>4, <2>5, <2>6, <2>7, <2>8, <2>9, <2>10, <2>11 DEF Next
<1> QED
  BY <1>1, <1>2, PTL DEF Spec

-----------------------------------------------------------------------------
(* What is left of a number, division by division.                          *)
Left(q, v, base, n) == q \in [0..n -> Nat] /\ q[0] = v /\ \A k \in 1..n : q[k] = q[k - 1] \div base

LEMMA QuotientsAre ==
  ASSUME NEW v \in Nat, NEW base \in Nat \ {0}, NEW n \in Nat
  PROVE  Left(Quotients(v, base, n), v, base, n)
<1> DEFINE S == Nat
           F == [x \in S |-> x \div base]
           Is(q) == q = [k \in 0..n |-> IF k = 0 THEN v ELSE q[k - 1] \div base]
           left == CHOOSE q : Is(q)
<1>1. Quotients(v, base, n) = left
  BY DEF Quotients
<1>2. F \in [S -> S]
  <2>1. \A x \in Nat : x \div base \in Nat
    BY DivInRange
  <2> QED
    BY <2>1
<1>3. PICK turn : Turns(turn, S, F, v, n)
  <2> HIDE DEF F
  <2> QED
    BY <1>2, TurnsExist
<1>4. turn \in [0..n -> Nat] /\ turn[0] = v /\ \A k \in 1..n : turn[k] = turn[k - 1] \div base
  <2>1. turn \in [0..n -> Nat] /\ turn[0] = v
    BY <1>3 DEF Turns
  <2>2. ASSUME NEW k \in 1..n PROVE turn[k] = turn[k - 1] \div base
    <3>1. turn[k] = F[turn[k - 1]]
      <4> HIDE DEF F
      <4> QED
        BY <1>3 DEF Turns
    <3>2. turn[k - 1] \in Nat
      BY <2>1
    <3> QED
      BY <3>1, <3>2
  <2> QED
    BY <2>1, <2>2
<1>5. \E q : Is(q)
  <2> DEFINE g == [k \in 0..n |-> IF k = 0 THEN v ELSE turn[k - 1] \div base]
  <2>1. \A k \in 0..n : turn[k] = IF k = 0 THEN v ELSE turn[k - 1] \div base
    BY <1>4
  <2>2. turn = [k \in 0..n |-> turn[k]]
    BY <1>4
  <2>3. turn = g
    BY <2>1, <2>2
  <2>4. Is(turn)
    BY <2>3
  <2> HIDE DEF Is
  <2> QED
    BY <2>4
<1>6. Is(left)
  <2> HIDE DEF Is
  <2> QED
    BY <1>5
<1> HIDE DEF left
<1>7. left[0] = v /\ DOMAIN left = 0..n /\ \A k \in 1..n : left[k] = left[k - 1] \div base
  BY <1>6
<1>8. \A k \in 0..n : left[k] \in Nat
  <2> DEFINE T == {k \in Nat : left[k] \in Nat}
  <2>1. 0 \in T
    BY <1>7
  <2>2. \A k \in 0..(n - 1) : k \in T => k + 1 \in T
    <3> SUFFICES ASSUME NEW k \in 0..(n - 1), left[k] \in Nat PROVE left[k + 1] \in Nat
      OBVIOUS
    <3>1. k + 1 \in 1..n /\ (k + 1) - 1 = k
      OBVIOUS
    <3>2. left[k + 1] = left[k] \div base
      BY <1>7, <3>1
    <3> QED
      BY <3>2, DivInRange
  <2> HIDE DEF T
  <2>3. \A k \in 0..n : k \in T
    BY <2>1, <2>2, UpTo
  <2> QED
    BY <2>3 DEF T
<1>9. left = [k \in 0..n |-> left[k]]
  BY <1>6
<1> QED
  BY <1>1, <1>7, <1>8, <1>9 DEF Left

(* A division by two or more takes a bit away at least.                     *)
LEMMA LessLeft ==
  ASSUME NEW v \in Nat, NEW base \in Nat, base >= 2, NEW n \in Nat, NEW q, Left(q, v, base, n),
         NEW L \in 0..n, v < 2 ^ L
  PROVE  q[L] = 0
<1> DEFINE T == {k \in Nat : q[k] \in Nat /\ q[k] < 2 ^ (L - k)}
<1>1. 0 \in T
  BY DEF Left
<1>2. \A k \in 0..(L - 1) : k \in T => k + 1 \in T
  <2> SUFFICES ASSUME NEW k \in 0..(L - 1), q[k] \in Nat, q[k] < 2 ^ (L - k)
               PROVE  q[k + 1] \in Nat /\ q[k + 1] < 2 ^ (L - (k + 1))
    OBVIOUS
  <2> DEFINE a == q[k]
             p == 2 ^ (L - (k + 1))
  <2>1. q[k + 1] = a \div base
    <3>1. k + 1 \in 1..n /\ (k + 1) - 1 = k
      OBVIOUS
    <3> QED
      BY <3>1 DEF Left
  <2>2. 2 ^ (L - k) = 2 * p /\ p \in Nat \ {0}
    <3>1. L - (k + 1) \in Nat /\ (L - (k + 1)) + 1 = L - k
      OBVIOUS
    <3>2. 2 ^ ((L - (k + 1)) + 1) = 2 * 2 ^ (L - (k + 1)) /\ 2 ^ (L - (k + 1)) \in Nat \ {0}
      BY <3>1, PowerNext, PowerType
    <3> QED
      BY <3>1, <3>2
  <2> HIDE DEF a, p
  <2>3. a \in Nat /\ a < 2 * p
    BY <2>2 DEF a
  <2>4. a \div base \in Nat /\ a \div base < p
    <3> DEFINE c == a \div base
               r == a % base
    <3>1. a = c * base + r /\ c \in Int /\ r \in 0..(base - 1) /\ c \in Nat
      BY <2>3, DivMod, DivInRange
    <3> HIDE DEF c, r
    <3>2. c * base >= 2 * c
      <4>1. c * base = 2 * c + c * (base - 2) /\ c * (base - 2) >= 0
        BY <3>1
      <4> QED
        BY <4>1, <3>1
    <3>3. 2 * c <= a
      BY <3>1, <3>2
    <3> QED
      BY <2>2, <2>3, <3>1, <3>3 DEF c
  <2> QED
    BY <2>1, <2>4 DEF p
<1> HIDE DEF T
<1>3. L \in T
  <2>1. \A k \in 0..L : k \in T
    BY <1>1, <1>2, UpTo
  <2> QED
    BY <2>1
<1> QED
  <2>1. q[L] \in Nat /\ q[L] < 2 ^ (L - L) /\ L - L = 0 /\ 2 ^ 0 = 1
    BY <1>3, PowerZero DEF T
  <2> QED
    BY <2>1

LEMMA NothingLeft ==
  ASSUME NEW v \in Nat, NEW base \in Nat \ {0}, NEW n \in Nat, NEW q, Left(q, v, base, n),
         NEW j \in 0..n, q[j] = 0, NEW m \in j..n
  PROVE  q[m] = 0
<1> DEFINE T == {k \in Nat : q[j + k] = 0}
<1>1. 0 \in T
  OBVIOUS
<1>2. \A k \in 0..((n - j) - 1) : k \in T => k + 1 \in T
  <2> SUFFICES ASSUME NEW k \in 0..((n - j) - 1), q[j + k] = 0 PROVE q[j + (k + 1)] = 0
    OBVIOUS
  <2>1. j + (k + 1) \in 1..n /\ (j + (k + 1)) - 1 = j + k
    OBVIOUS
  <2>2. q[j + (k + 1)] = 0 \div base
    BY <2>1 DEF Left
  <2>3. 0 \div base = 0
    BY DivInRange
  <2> QED
    BY <2>2, <2>3
<1> HIDE DEF T
<1>3. \A k \in 0..(n - j) : k \in T
  <2>1. n - j \in Nat
    OBVIOUS
  <2> QED
    BY <1>1, <1>2, <2>1, UpTo
<1> QED
  <2>1. m - j \in 0..(n - j) /\ j + (m - j) = m
    OBVIOUS
  <2>2. q[j + (m - j)] = 0
    BY <1>3, <2>1 DEF T
  <2> QED
    BY <2>1, <2>2

(* A numeral: its digits from the last one are what the divisions leave.    *)
Written(N, v, base) ==
  \E ndig \in Nat \ {0} : \E q : Left(q, v, base, ndig) /\ q[ndig] = 0 /\ N = [k \in 1..ndig |-> q[ndig - k] % base]

LEMMA NumeralIs ==
  ASSUME NEW v \in 0..(2 ^ LONG - 1), NEW f \in Nat, NEW base \in Nat, base >= 2
  PROVE  Written(Numeral(v, f, base), v, base)
<1> DEFINE left == Quotients(v, base, LONG + f)
           Ends(n) == left[n] = 0 /\ \A k \in 0..(n - 1) : left[k] # 0
           need == CHOOSE n \in 0..LONG : Ends(n)
           ndig == IF need = 0 /\ f = 0 THEN 1 ELSE IF need < f THEN f ELSE need
           q == [k \in 0..ndig |-> left[k]]
<1>1. LONG \in Nat /\ LONG >= 1 /\ v \in Nat /\ v < 2 ^ LONG /\ LONG + f \in Nat /\ LONG \in 0..(LONG + f) /\ base \in Nat \ {0}
  <2>1. 2 ^ LONG \in Nat \ {0} /\ LONG \in Nat /\ LONG >= 1
    BY WidthFacts, PowerType
  <2> QED
    BY <2>1
<1>2. Left(left, v, base, LONG + f)
  BY <1>1, QuotientsAre, Zenon
<1>3. Numeral(v, f, base) = [k \in 1..ndig |-> left[ndig - k] % base]
  BY DEF Numeral
<1> HIDE DEF left
<1>4. left[LONG] = 0
  BY <1>1, <1>2, LessLeft
<1>5. need \in 0..LONG /\ left[need] = 0
  <2> DEFINE T == {n \in 0..LONG : left[n] = 0}
  <2>1. T \in SUBSET Nat /\ T # {}
    BY <1>1, <1>4
  <2>2. PICK m \in T : \A x \in T : m <= x
    <3> HIDE DEF T
    <3> QED
      BY <2>1, LeastExists
  <2>3. m \in 0..LONG /\ left[m] = 0 /\ \A k \in 0..(m - 1) : left[k] # 0
    BY <1>1, <2>2
  <2>4. \E n \in 0..LONG : Ends(n)
    BY <2>3
  <2> HIDE DEF Ends
  <2>5. need \in 0..LONG /\ Ends(need)
    BY <2>4
  <2> QED
    BY <2>5 DEF Ends
<1> HIDE DEF need
<1>6. ndig \in Nat \ {0} /\ ndig <= LONG + f /\ need <= ndig
  BY <1>1, <1>5
<1> HIDE DEF ndig
<1>7. left[ndig] = 0
  <2>1. need \in 0..(LONG + f) /\ ndig \in need..(LONG + f)
    BY <1>1, <1>5, <1>6
  <2> QED
    BY <1>1, <1>2, <1>5, <2>1, NothingLeft
<1>8. Left(q, v, base, ndig)
  <2>1. \A k \in 0..ndig : k \in 0..(LONG + f) /\ q[k] = left[k]
    BY <1>1, <1>6
  <2>2. q \in [0..ndig -> Nat]
    BY <1>2, <2>1 DEF Left
  <2>3. \A k \in 1..ndig : k \in 1..(LONG + f) /\ k \in 0..ndig /\ k - 1 \in 0..ndig
    BY <1>1, <1>6
  <2>4. q[0] = v
    BY <1>2, <1>6 DEF Left
  <2>5. \A k \in 1..ndig : q[k] = q[k - 1] \div base
    BY <1>2, <2>1, <2>3 DEF Left
  <2> HIDE DEF q
  <2> QED
    BY <2>2, <2>4, <2>5 DEF Left
<1>9. \A k \in 1..ndig : q[ndig - k] = left[ndig - k]
  BY <1>6
<1>10. Numeral(v, f, base) = [k \in 1..ndig |-> q[ndig - k] % base] /\ q[ndig] = 0
  BY <1>3, <1>6, <1>7, <1>9 DEF q
<1> HIDE DEF q
<1> QED
  BY <1>6, <1>8, <1>10 DEF Written

(* The digits of a numeral at a place of a text, up to its end.             *)
Holds(t, from, N) == Len(t) = (from - 1) + Len(N) /\ \A k \in 1..Len(N) : t[from + (k - 1)] = N[k]

(* What is read so far is what the divisions had left there.                *)
LEMMA OneDigitRead ==
  ASSUME NEW y \in Nat, NEW base \in Nat \ {0}, NEW M \in Nat \ {0}
  PROVE  (((y \div base) % M) * base + (y % base)) % M = y % M
<1> DEFINE c == y \div base
           d == y % base
           r == c % M
           k == c \div M
<1>1. y = c * base + d /\ c \in Int /\ d \in Int
  BY DivMod
<1>2. c = k * M + r /\ k \in Int /\ r \in Int
  <2> HIDE DEF c
  <2> QED
    BY <1>1, DivMod
<1> HIDE DEF c, d, r, k
<1>3. c * base = (k * base) * M + r * base /\ k * base \in Int /\ r * base \in Int
  <2>1. c * base = (k * M) * base + r * base
    BY <1>2
  <2>2. (k * M) * base = (k * base) * M
    BY <1>2
  <2> QED
    BY <1>2, <2>1, <2>2
<1>4. y = (r * base + d) + (k * base) * M /\ r * base + d \in Int
  <2> DEFINE A == c * base
             B == (k * base) * M
             C == r * base
  <2>1. y = A + d /\ A = B + C /\ B \in Int /\ C \in Int /\ d \in Int
    BY <1>1, <1>3
  <2> HIDE DEF A, B, C
  <2>2. y = (C + d) + B /\ C + d \in Int
    BY <2>1
  <2> QED
    BY <2>2 DEF B, C
<1>5. ((r * base + d) + (k * base) * M) % M = (r * base + d) % M
  BY <1>3, <1>4, ModPlusMultiple, Zenon
<1> QED
  BY <1>4, <1>5 DEF c, d, r

LEMMA DigitsRead ==
  ASSUME NEW N, NEW v \in Nat, NEW base \in Nat \ {0}, Written(N, v, base),
         NEW t, NEW from \in Nat \ {0}, Holds(t, from, N), NEW n \in Nat
  PROVE  Digits(t, from, base, n) = v % 2 ^ n
<1>1. PICK ndig \in Nat \ {0} : \E q : Left(q, v, base, ndig) /\ q[ndig] = 0 /\ N = [k \in 1..ndig |-> q[ndig - k] % base]
  BY DEF Written
<1>2. PICK q : Left(q, v, base, ndig) /\ q[ndig] = 0 /\ N = [k \in 1..ndig |-> q[ndig - k] % base]
  BY <1>1
<1> DEFINE M == 2 ^ n
           Step(f, k) == LET c == t[from + (k - 1)] IN
                         IF f[k - 1].on /\ c \in 0..(base - 1) THEN [a |-> (f[k - 1].a * base + c) % 2 ^ n, on |-> TRUE]
                         ELSE [f[k - 1] EXCEPT !.on = FALSE]
           Is(f) == f = [k \in 0..(Len(t) + 1 - from) |-> IF k = 0 THEN [a |-> 0, on |-> TRUE] ELSE Step(f, k)]
           read == CHOOSE f : Is(f)
           Now(k) == [a |-> q[ndig - k] % M, on |-> TRUE]
           g == [k \in 0..ndig |-> Now(k)]
<1>3. Len(N) = ndig /\ Len(t) + 1 - from = ndig
  <2>1. Len(N) = ndig
    BY <1>2
  <2> QED
    BY <2>1 DEF Holds
<1>4. \A k \in 1..ndig : t[from + (k - 1)] = q[ndig - k] % base
  BY <1>2, <1>3 DEF Holds
<1>5. M \in Nat \ {0}
  BY PowerType
<1>6. q \in [0..ndig -> Nat]
  BY <1>2 DEF Left
<1>7. ASSUME NEW k \in 1..ndig
      PROVE  /\ q[ndig - k] % base \in 0..(base - 1)
             /\ ((q[ndig - (k - 1)] % M) * base + (q[ndig - k] % base)) % M = q[ndig - k] % M
  <2>1. q[ndig - k] \in Nat
    BY <1>6
  <2>2. ndig - (k - 1) \in 1..ndig /\ (ndig - (k - 1)) - 1 = ndig - k
    OBVIOUS
  <2>3. q[ndig - (k - 1)] = q[ndig - k] \div base
    BY <1>2, <2>2 DEF Left
  <2> DEFINE y == q[ndig - k]
  <2> HIDE DEF y, M
  <2>4. y \in Nat /\ q[ndig - (k - 1)] = y \div base
    BY <2>1, <2>3 DEF y
  <2>5. (((y \div base) % M) * base + (y % base)) % M = y % M
    BY <1>5, <2>4, OneDigitRead
  <2>6. y % base \in 0..(base - 1)
    BY <2>4, DivMod
  <2> QED
    BY <2>4, <2>5, <2>6 DEF y
<1>8. 0 % M = 0
  <2> HIDE DEF M
  <2> QED
    BY <1>5
<1> HIDE DEF M
<1>9. ASSUME NEW f, NEW k \in 1..ndig, f[k - 1] = Now(k - 1) PROVE Step(f, k) = Now(k)
  <2> DEFINE c == t[from + (k - 1)]
             s == f[k - 1]
  <2>1. s.on /\ s.a = q[ndig - (k - 1)] % M
    BY <1>9
  <2>2. c = q[ndig - k] % base /\ c \in 0..(base - 1)
    BY <1>4, <1>7
  <2>3. (s.a * base + c) % M = q[ndig - k] % M
    <3>1. ((q[ndig - (k - 1)] % M) * base + (q[ndig - k] % base)) % M = q[ndig - k] % M
      BY <1>7
    <3> HIDE DEF s, c
    <3> QED
      BY <2>1, <2>2, <3>1
  <2>4. Step(f, k) = [a |-> (s.a * base + c) % M, on |-> TRUE]
    <3>1. Step(f, k) = IF s.on /\ c \in 0..(base - 1) THEN [a |-> (s.a * base + c) % M, on |-> TRUE]
                       ELSE [s EXCEPT !.on = FALSE]
      BY Zenon DEF M
    <3> HIDE DEF s, c, Step
    <3> QED
      BY <2>1, <2>2, <3>1
  <2> HIDE DEF Step, s, c
  <2> QED
    BY <2>3, <2>4
<1>10. Digits(t, from, base, n) = read[Len(t) + 1 - from].a
  BY DEF Digits
<1> HIDE DEF Step
<1>16. Now(0) = [a |-> 0, on |-> TRUE]
  <2>1. ndig - 0 = ndig
    OBVIOUS
  <2> QED
    BY <1>2, <1>8, <2>1
<1> HIDE DEF Now
<1>17. Is(g)
  <2>1. \A k \in 0..ndig : g[k] = Now(k)
    OBVIOUS
  <2>2. ASSUME NEW k \in 1..ndig PROVE Step(g, k) = Now(k)
    <3>1. k - 1 \in 0..ndig
      OBVIOUS
    <3>2. g[k - 1] = Now(k - 1)
      BY <2>1, <3>1
    <3> HIDE DEF g
    <3> QED
      BY <1>9, <3>2
  <2> DEFINE h == [k \in 0..ndig |-> IF k = 0 THEN [a |-> 0, on |-> TRUE] ELSE Step(g, k)]
  <2>3. \A k \in 0..ndig : Now(k) = IF k = 0 THEN [a |-> 0, on |-> TRUE] ELSE Step(g, k)
    <3> HIDE DEF g
    <3> QED
      BY <1>16, <2>2
  <2>4. g = h
    BY <2>3
  <2> QED
    BY <1>3, <2>4
<1>11. Is(read)
  <2>1. \E f : Is(f)
    BY <1>17
  <2> HIDE DEF Is
  <2> QED
    BY <2>1
<1> HIDE DEF read
<1>12. \A k \in 0..ndig : read[k] = IF k = 0 THEN [a |-> 0, on |-> TRUE] ELSE Step(read, k)
  BY <1>3, <1>11
<1> DEFINE T == {k \in Nat : read[k] = Now(k)}
<1>14. \A k \in 0..ndig : k \in T
  <2>1. 0 \in T
    <3>1. 0 \in 0..ndig /\ 0 \in Nat
      OBVIOUS
    <3>2. read[0] = [a |-> 0, on |-> TRUE]
      BY <1>12, <3>1, Zenon
    <3>3. read[0] = Now(0)
      BY <1>16, <3>2, Zenon
    <3> QED
      BY <3>1, <3>3
  <2>2. \A k \in 0..(ndig - 1) : k \in T => k + 1 \in T
    <3> SUFFICES ASSUME NEW k \in 0..(ndig - 1), read[k] = Now(k) PROVE read[k + 1] = Now(k + 1)
      OBVIOUS
    <3>1. k + 1 \in 1..ndig /\ (k + 1) - 1 = k /\ k + 1 \in 0..ndig /\ k + 1 # 0
      OBVIOUS
    <3>2. Step(read, k + 1) = Now(k + 1)
      BY <1>9, <3>1
    <3> QED
      BY <1>12, <3>1, <3>2
  <2> HIDE DEF T
  <2> QED
    BY <2>1, <2>2, UpTo
<1>15. read[ndig] = Now(ndig)
  BY <1>14
<1>18. read[ndig].a = q[ndig - ndig] % M /\ ndig - ndig = 0
  BY <1>15 DEF Now
<1> QED
  BY <1>2, <1>3, <1>10, <1>18 DEF Left, M

(* Two texts, one after the other.                                          *)
LEMMA TextsJoined ==
  ASSUME NEW a \in Seq(Int), NEW b \in Seq(Int)
  PROVE  /\ a \o b \in Seq(Int) /\ Len(a \o b) = Len(a) + Len(b)
         /\ \A j \in 1..Len(a) : (a \o b)[j] = a[j]
         /\ \A j \in 1..Len(b) : (a \o b)[Len(a) + j] = b[j]
<1>1. Len(a) \in Nat /\ Len(b) \in Nat
  OBVIOUS
<1> DEFINE ab == a \o b
<1>2. /\ ab \in Seq(Int)
      /\ Len(ab) = Len(a) + Len(b)
      /\ \A k \in 1..Len(a) + Len(b) : ab[k] = IF k <= Len(a) THEN a[k] ELSE b[k - Len(a)]
  BY ConcatProperties, Zenon
<1> HIDE DEF ab
<1>3. ASSUME NEW j \in 1..Len(a) PROVE ab[j] = a[j]
  <2>1. j \in 1..Len(a) + Len(b) /\ j <= Len(a)
    BY <1>1
  <2> QED
    BY <1>2, <2>1
<1>4. ASSUME NEW j \in 1..Len(b) PROVE ab[Len(a) + j] = b[j]
  <2>1. Len(a) + j \in 1..Len(a) + Len(b) /\ ~(Len(a) + j <= Len(a)) /\ (Len(a) + j) - Len(a) = j
    BY <1>1
  <2>2. ab[Len(a) + j] = b[(Len(a) + j) - Len(a)]
    BY <1>2, <2>1
  <2> QED
    BY <2>1, <2>2
<1> QED
  BY <1>2, <1>3, <1>4 DEF ab

(* The first character of a numeral is a digit, and no blank or sign.       *)
LEMMA NumeralStarts ==
  ASSUME NEW N, NEW v, NEW base \in Nat \ {0}, Written(N, v, base)
  PROVE  N \in Seq(Nat) /\ N \in Seq(Int) /\ Len(N) \in Nat \ {0} /\ N[1] \in 0..(base - 1)
<1>1. PICK ndig \in Nat \ {0} : \E q : Left(q, v, base, ndig) /\ q[ndig] = 0 /\ N = [k \in 1..ndig |-> q[ndig - k] % base]
  BY DEF Written
<1>2. PICK q : Left(q, v, base, ndig) /\ q[ndig] = 0 /\ N = [k \in 1..ndig |-> q[ndig - k] % base]
  BY <1>1
<1>3. ASSUME NEW k \in 1..ndig PROVE N[k] \in 0..(base - 1)
  <2>1. ndig - k \in 0..ndig
    OBVIOUS
  <2>2. q[ndig - k] \in Nat
    BY <1>2, <2>1 DEF Left
  <2> DEFINE y == q[ndig - k]
  <2>3. N[k] = y % base
    BY <1>2
  <2> HIDE DEF y
  <2>4. y \in Nat
    BY <2>2 DEF y
  <2>5. y % base \in 0..(base - 1)
    BY <2>4
  <2> QED
    BY <2>3, <2>5
<1>4. N = [k \in 1..ndig |-> N[k]]
  BY <1>2
<1>5. \A k \in 1..ndig : N[k] \in Nat /\ N[k] \in Int
  BY <1>3
<1>6. N \in Seq(Nat) /\ N \in Seq(Int) /\ Len(N) = ndig
  BY <1>4, <1>5
<1>7. 1 \in 1..ndig
  OBVIOUS
<1> QED
  BY <1>3, <1>6, <1>7

LEMMA BlanksAre ==
  ASSUME NEW t, NEW p \in Nat, Len(t) \in Nat, p < Len(t), \A j \in 1..p : t[j] = BLANK, t[p + 1] # BLANK
  PROVE  Blanks(t) = p
<1> DEFINE Are(k) == (\A j \in 1..k : t[j] = BLANK) /\ (k < Len(t) => t[k + 1] # BLANK)
           m == CHOOSE k \in 0..Len(t) : Are(k)
<1>1. Blanks(t) = m
  BY DEF Blanks
<1>2. p \in 0..Len(t) /\ Are(p)
  OBVIOUS
<1>3. m \in 0..Len(t) /\ Are(m)
  <2> HIDE DEF Are
  <2> QED
    BY <1>2
<1> HIDE DEF m
<1>4. ~(m < p)
  <2>1. ASSUME m < p PROVE FALSE
    <3>1. m + 1 \in 1..p /\ m < Len(t)
      BY <1>3, <2>1
    <3> QED
      BY <1>3, <3>1
  <2> QED
    BY <2>1
<1>5. ~(p < m)
  <2>1. ASSUME p < m PROVE FALSE
    <3>1. p + 1 \in 1..m
      BY <1>3, <2>1
    <3> QED
      BY <1>3, <3>1
  <2> QED
    BY <2>1
<1> QED
  BY <1>1, <1>3, <1>4, <1>5

(* A text of blanks, a sign or none, and a numeral.                         *)
Field(t, p, N) == p \in Nat /\ (\A j \in 1..p : t[j] = BLANK) /\ Holds(t, p + 1, N)
SignedField(t, p, c, N) ==
  p \in Nat /\ (\A j \in 1..p : t[j] = BLANK) /\ t[p + 1] = c /\ Holds(t, p + 2, N)

LEMMA CharactersAre == BLANK = -1 /\ MINUS = -2 /\ PLUS = -3
BY DEF BLANK, MINUS, PLUS

LEMMA FieldRead ==
  ASSUME NEW N, NEW v \in Nat, Written(N, v, 10), NEW t, NEW p, Field(t, p, N), NEW n \in Nat,
         NEW signs, signs \subseteq {MINUS, PLUS}
  PROVE  Decimal(t, signs, n) = v % 2 ^ n
<1>1. 10 \in Nat \ {0}
  OBVIOUS
<1>2. N \in Seq(Nat) /\ Len(N) \in Nat \ {0} /\ N[1] \in 0..(10 - 1)
  BY <1>1, NumeralStarts
<1>3. p \in Nat /\ (\A j \in 1..p : t[j] = BLANK) /\ Holds(t, p + 1, N)
  BY DEF Field
<1>4. Len(t) = p + Len(N) /\ t[p + 1] = N[1]
  <2>1. (p + 1) - 1 = p /\ 1 \in 1..Len(N) /\ (p + 1) + (1 - 1) = p + 1
    BY <1>2, <1>3
  <2> QED
    BY <1>3, <2>1 DEF Holds
<1>5. Blanks(t) = p
  <2>1. Len(t) \in Nat /\ p < Len(t) /\ t[p + 1] # BLANK
    BY <1>2, <1>3, <1>4, CharactersAre
  <2> QED
    BY <1>3, <2>1, BlanksAre
<1>6. t[p + 1] \notin signs
  BY <1>2, <1>4, CharactersAre
<1>7. Digits(t, p + 1, 10, n) = v % 2 ^ n
  <2>1. p + 1 \in Nat \ {0}
    BY <1>3
  <2> QED
    BY <1>1, <1>3, <2>1, DigitsRead
<1> QED
  BY <1>5, <1>6, <1>7, Zenon DEF Decimal

LEMMA SignedFieldRead ==
  ASSUME NEW N, NEW v \in Nat, Written(N, v, 10), NEW t, NEW p, NEW c, SignedField(t, p, c, N), NEW n \in Nat,
         NEW signs, signs \subseteq {MINUS, PLUS}, c \in signs
  PROVE  Decimal(t, signs, n) = IF c = MINUS THEN Negat(v % 2 ^ n, n) ELSE v % 2 ^ n
<1>1. 10 \in Nat \ {0}
  OBVIOUS
<1>2. N \in Seq(Nat) /\ Len(N) \in Nat \ {0}
  BY <1>1, NumeralStarts
<1>3. p \in Nat /\ (\A j \in 1..p : t[j] = BLANK) /\ t[p + 1] = c /\ Holds(t, p + 2, N)
  BY DEF SignedField
<1>4. Len(t) = (p + 1) + Len(N)
  <2>1. (p + 2) - 1 = p + 1
    BY <1>3
  <2> QED
    BY <1>3, <2>1 DEF Holds
<1>5. Blanks(t) = p
  <2>1. Len(t) \in Nat /\ p < Len(t) /\ t[p + 1] # BLANK
    BY <1>2, <1>3, <1>4, CharactersAre
  <2> QED
    BY <1>3, <2>1, BlanksAre
<1>6. p + 1 <= Len(t) /\ t[p + 1] \in signs /\ (p + 1) + 1 = p + 2
  BY <1>2, <1>3, <1>4
<1>7. Digits(t, p + 2, 10, n) = v % 2 ^ n
  <2>1. p + 2 \in Nat \ {0}
    BY <1>3
  <2> QED
    BY <1>1, <1>3, <2>1, DigitsRead
<1> QED
  BY <1>3, <1>5, <1>6, <1>7, Zenon DEF Decimal

-----------------------------------------------------------------------------
(* What pnum() puts.                                                        *)
LEMMA BlanksMake ==
  ASSUME NEW p \in Nat
  PROVE  LET b == [k \in 1..p |-> BLANK] IN b \in Seq(Int) /\ Len(b) = p /\ \A j \in 1..p : b[j] = BLANK
<1> DEFINE b == [k \in 1..p |-> BLANK]
<1>1. b \in Seq(Int) /\ Len(b) = p
  BY CharactersAre
<1>2. \A j \in 1..p : b[j] = BLANK
  OBVIOUS
<1> QED
  BY <1>1, <1>2

Shown(i, s) == IF s /\ Sign(i, LONG) THEN Negat(i, LONG) ELSE i

LEMMA PnumIs ==
  ASSUME NEW i \in LONGs, NEW f \in Nat, NEW w \in Nat, NEW s \in BOOLEAN, NEW base \in Nat, base >= 2
  PROVE  \E N, p :
           /\ p \in Nat /\ Written(N, Shown(i, s), base) /\ Shown(i, s) \in 0..(2 ^ LONG - 1)
           /\ pnum(i, f, w, s, base) \in Seq(Int) /\ Len(pnum(i, f, w, s, base)) >= w
           /\ IF s /\ Sign(i, LONG) THEN SignedField(pnum(i, f, w, s, base), p, MINUS, N)
                                    ELSE Field(pnum(i, f, w, s, base), p, N)
           /\ w = 0 => p = 0
<1> DEFINE v == Shown(i, s)
           N == Numeral(v, f, base)
           minus == s /\ Sign(i, LONG)
           number == (IF minus THEN <<MINUS>> ELSE <<>>) \o N
           p == IF w > Len(number) THEN w - Len(number) ELSE 0
           b == [k \in 1..p |-> BLANK]
           t == pnum(i, f, w, s, base)
<1>1. v \in 0..(2 ^ LONG - 1)
  <2> DEFINE M == 2 ^ LONG
  <2>1. M \in Nat \ {0} /\ i \in 0..(M - 1)
    BY WidthFacts, PowerType DEF LONGs
  <2>2. Negat(i, LONG) = (M - i) % M
    BY DEF Negat
  <2> HIDE DEF M
  <2>3. (M - i) % M \in 0..(M - 1)
    BY <2>1
  <2>4. v \in 0..(M - 1)
    BY <2>1, <2>2, <2>3 DEF Shown
  <2> QED
    BY <2>4 DEF M
<1>2. t = b \o number
  BY DEF pnum, Shown
<1> HIDE DEF v
<1>3. Written(N, v, base)
  BY <1>1, NumeralIs
<1>4. base \in Nat \ {0}
  OBVIOUS
<1> HIDE DEF N
<1>5. N \in Seq(Int) /\ Len(N) \in Nat \ {0}
  BY <1>3, <1>4, NumeralStarts
<1>6. number \in Seq(Int) /\ Len(number) \in Nat /\ (minus => Len(number) = 1 + Len(N) /\ number[1] = MINUS /\ \A k \in 1..Len(N) : number[1 + k] = N[k])
      /\ (~minus => number = N)
  <2>1. CASE minus
    <3> DEFINE m == <<MINUS>>
    <3>1. number = m \o N
      BY <2>1
    <3>2. m \in Seq(Int) /\ Len(m) = 1 /\ m[1] = MINUS
      BY CharactersAre
    <3> HIDE DEF m, number
    <3>3. /\ m \o N \in Seq(Int) /\ Len(m \o N) = Len(m) + Len(N)
          /\ \A j \in 1..Len(m) : (m \o N)[j] = m[j]
          /\ \A j \in 1..Len(N) : (m \o N)[Len(m) + j] = N[j]
      <4>1. m \in Seq(Int) /\ N \in Seq(Int)
        BY <1>5, <3>2
      <4> QED
        BY <4>1, TextsJoined, Zenon
    <3>4. number \in Seq(Int) /\ Len(number) = 1 + Len(N)
      BY <3>1, <3>2, <3>3, Zenon
    <3>5. number[1] = MINUS /\ \A k \in 1..Len(N) : number[1 + k] = N[k]
      <4>1. 1 \in 1..Len(m)
        BY <3>2
      <4> QED
        BY <3>1, <3>2, <3>3, <4>1, Zenon
    <3>6. Len(number) \in Nat
      BY <1>5, <3>4
    <3> QED
      BY <2>1, <3>4, <3>5, <3>6, Zenon
  <2>2. CASE ~minus
    <3>1. number = <<>> \o N
      BY <2>2
    <3>2. number = N
      BY <1>5, <3>1
    <3>3. N \in Seq(Int)
      BY <1>5
    <3> HIDE DEF number, minus
    <3> QED
      BY <1>5, <2>2, <3>2, <3>3
  <2> HIDE DEF number, minus
  <2> QED
    BY <2>1, <2>2
<1> HIDE DEF number
<1>7. p \in Nat /\ p + Len(number) >= w /\ (w = 0 => p = 0)
  BY <1>6
<1>71. w \in Nat
  OBVIOUS
<1>72. b \in Seq(Int) /\ Len(b) = p /\ \A j \in 1..p : b[j] = BLANK
  <2> HIDE DEF p
  <2> QED
    BY <1>7, BlanksMake
<1> HIDE DEF p, b, t, minus
<1>8. /\ t \in Seq(Int) /\ Len(t) = p + Len(number)
      /\ \A j \in 1..p : t[j] = BLANK
      /\ \A j \in 1..Len(number) : t[p + j] = number[j]
  <2>1. number \in Seq(Int)
    BY <1>6
  <2>2. /\ b \o number \in Seq(Int) /\ Len(b \o number) = Len(b) + Len(number)
        /\ \A j \in 1..Len(b) : (b \o number)[j] = b[j]
        /\ \A j \in 1..Len(number) : (b \o number)[Len(b) + j] = number[j]
    BY <1>72, <2>1, TextsJoined, Zenon
  <2>3. /\ t \in Seq(Int) /\ Len(t) = p + Len(number)
        /\ \A j \in 1..p : t[j] = b[j]
        /\ \A j \in 1..Len(number) : t[p + j] = number[j]
    BY <1>2, <1>72, <2>2, Zenon
  <2> QED
    BY <1>72, <2>3
<1>9. CASE minus
  <2>1. t[p + 1] = MINUS
    <3>1. 1 \in 1..Len(number)
      BY <1>5, <1>6, <1>9
    <3> QED
      BY <1>6, <1>8, <1>9, <3>1
  <2>2. Len(t) = ((p + 2) - 1) + Len(N)
    <3>1. Len(number) = 1 + Len(N) /\ Len(t) = p + Len(number)
      BY <1>6, <1>8, <1>9
    <3> QED
      BY <1>5, <1>7, <3>1
  <2>3. ASSUME NEW k \in 1..Len(N) PROVE t[(p + 2) + (k - 1)] = N[k]
    <3>1. 1 + k \in 1..Len(number) /\ p + (1 + k) = (p + 2) + (k - 1)
      BY <1>5, <1>6, <1>7, <1>9
    <3> QED
      BY <1>6, <1>8, <1>9, <3>1
  <2>4. SignedField(t, p, MINUS, N)
    BY <1>7, <1>8, <2>1, <2>2, <2>3 DEF SignedField, Holds
  <2> QED
    BY <1>1, <1>3, <1>7, <1>8, <1>9, <2>4 DEF t, v, minus
<1>10. CASE ~minus
  <2>2. Len(t) = ((p + 1) - 1) + Len(N)
    BY <1>5, <1>6, <1>7, <1>8, <1>10
  <2>3. ASSUME NEW k \in 1..Len(N) PROVE t[(p + 1) + (k - 1)] = N[k]
    <3>1. k \in 1..Len(number) /\ p + k = (p + 1) + (k - 1)
      BY <1>5, <1>6, <1>7, <1>10
    <3> QED
      BY <1>6, <1>8, <1>10, <3>1
  <2>4. Field(t, p, N)
    BY <1>7, <1>8, <2>2, <2>3 DEF Field, Holds
  <2> QED
    BY <1>1, <1>3, <1>7, <1>8, <1>10, <2>4 DEF t, v, minus
<1> QED
  BY <1>9, <1>10

-----------------------------------------------------------------------------
(* What is read back: a negative number twice negated, in the width of a    *)
(* long or of a word.                                                       *)
LEMMA NegatedTwice ==
  ASSUME NEW W \in Nat \ {0}, NEW k \in Nat \ {0}, NEW x \in Nat
  PROVE  (W - ((k * W - x) % W)) % W = x % W
<1> DEFINE q == x \div W
           r == x % W
<1>1. x = q * W + r /\ q \in Int /\ r \in 0..(W - 1)
  BY DivMod
<1> HIDE DEF q, r
<1>2. CASE r = 0
  <2>1. k * W - x = (k - q) * W + 0
    BY <1>1, <1>2
  <2>2. k * W - x \in Int /\ k - q \in Int /\ 0 \in 0..(W - 1)
    BY <1>1
  <2>3. (k * W - x) % W = 0
    BY <2>1, <2>2, DivModUnique, Zenon
  <2>4. W - 0 = 1 * W + 0 /\ W - 0 \in Int /\ 1 \in Int /\ 0 \in 0..(W - 1)
    OBVIOUS
  <2>5. (W - 0) % W = 0
    BY <2>4, DivModUnique, Zenon
  <2> QED
    BY <1>2, <2>3, <2>5, Zenon DEF r
<1>3. CASE r # 0
  <2>1. k * W - x = ((k - q) - 1) * W + (W - r)
    BY <1>1
  <2>2. k * W - x \in Int /\ (k - q) - 1 \in Int /\ W - r \in 0..(W - 1)
    BY <1>1, <1>3
  <2>3. (k * W - x) % W = W - r
    BY <2>1, <2>2, DivModUnique, Zenon
  <2>4. W - (W - r) = r /\ r = 0 * W + r /\ r \in Int /\ 0 \in Int
    BY <1>1
  <2>5. r % W = r
    BY <1>1, <2>4, DivModUnique, Zenon
  <2> QED
    BY <2>3, <2>4, <2>5, Zenon DEF r
<1> QED
  BY <1>2, <1>3

LEMMA ShownBack ==
  ASSUME NEW x \in LONGs, NEW s \in BOOLEAN
  PROVE  LET v == Shown(x, s) IN
         IF s /\ Sign(x, LONG)
         THEN Negat(v % 2 ^ WORD, WORD) = Lo(x) /\ Negat(v % 2 ^ LONG, LONG) = x
         ELSE v % 2 ^ WORD = Lo(x) /\ v % 2 ^ LONG = x
<1> DEFINE L == 2 ^ LONG
           W == 2 ^ WORD
           v == Shown(x, s)
<1>1. L \in Nat \ {0} /\ W \in Nat \ {0} /\ L = W * W /\ x \in 0..(L - 1)
  BY WidthFacts, PowerType DEF LONGs
<1>2. Negat(x, LONG) = (L - x) % L /\ Negat(v % W, WORD) = (W - (v % W)) % W /\ Negat(v % L, LONG) = (L - (v % L)) % L
  BY DEF Negat
<1>3. Lo(x) = x % W
  BY DEF Lo
<1>4. Sign(x, LONG) => x > 0
  <2> DEFINE h == 2 ^ (LONG - 1)
  <2>1. LONG - 1 \in Nat
    BY WidthFacts
  <2>2. h \in Nat \ {0}
    BY <2>1, PowerType
  <2>3. Sign(x, LONG) => x >= h
    BY DEF Sign
  <2>4. x \in Int
    <3> HIDE DEF L, W, v
    <3> QED
      BY <1>1
  <2> HIDE DEF h, L, W, v
  <2>5. x >= h => x > 0
    BY <2>2, <2>4
  <2> QED
    BY <2>3, <2>5, Zenon
<1>5. v = IF s /\ Sign(x, LONG) THEN Negat(x, LONG) ELSE x
  BY DEF Shown
<1> HIDE DEF L, W, v
<1>6. x \in Nat /\ x % L = x
  <2>1. x = 0 * L + x /\ x \in Int /\ 0 \in Int
    BY <1>1
  <2>2. x % L = x
    BY <1>1, <2>1, DivModUnique, Zenon
  <2> QED
    BY <1>1, <2>2
<1>7. CASE s /\ Sign(x, LONG)
  <2>1. L - x = 0 * L + (L - x) /\ L - x \in 0..(L - 1) /\ L - x \in Int /\ 0 \in Int
    BY <1>1, <1>4, <1>7
  <2>2. (L - x) % L = L - x
    BY <1>1, <2>1, DivModUnique, Zenon
  <2>3. v = L - x
    BY <1>2, <1>5, <1>7, <2>2, Zenon
  <2>4. W * W - x = L - x /\ 1 * L - x = L - x /\ 1 \in Nat \ {0}
    BY <1>1
  <2>5. (W - ((L - x) % W)) % W = x % W
    BY <1>1, <1>6, <2>4, NegatedTwice, Zenon
  <2>6. (L - ((1 * L - x) % L)) % L = x % L
    BY <1>1, <1>6, <2>4, NegatedTwice, Zenon
  <2>7. (L - ((L - x) % L)) % L = x % L
    BY <2>4, <2>6, Zenon
  <2> QED
    BY <1>2, <1>3, <1>6, <1>7, <2>3, <2>5, <2>7, Zenon DEF v, L, W
<1>8. CASE ~(s /\ Sign(x, LONG))
  <2>1. v = x
    BY <1>5, <1>8
  <2> QED
    BY <1>3, <1>6, <1>8, <2>1, Zenon DEF v, L, W
<1> QED
  BY <1>7, <1>8

LEMMA TailIs ==
  ASSUME NEW t \in Seq(Int), NEW m \in 1..Len(t)
  PROVE  /\ SubSeq(t, m, Len(t)) \in Seq(Int)
         /\ Len(SubSeq(t, m, Len(t))) = (Len(t) - m) + 1
         /\ \A i \in 1..((Len(t) - m) + 1) : SubSeq(t, m, Len(t))[i] = t[(m + i) - 1]
<1>1. m \in Int /\ Len(t) \in Int /\ m <= Len(t) /\ \A i \in m..Len(t) : t[i] \in Int
  OBVIOUS
<1> DEFINE n == Len(t)
<1> HIDE DEF n
<1>2. m \in Int /\ n \in Int /\ \A i \in m..n : t[i] \in Int
  BY <1>1 DEF n
<1>3. /\ SubSeq(t, m, n) \in Seq(Int)
      /\ Len(SubSeq(t, m, n)) = IF m <= n THEN n-m+1 ELSE 0
      /\ \A i \in 1 .. n-m+1 : SubSeq(t, m, n)[i] = t[m+i-1]
  BY <1>2, SubSeqProperties
<1> QED
  BY <1>1, <1>3 DEF n

(* The digits of a field, after a plus sign.                                *)
LEMMA PlusField ==
  ASSUME NEW t \in Seq(Int), NEW p, NEW N, NEW v \in Nat, Written(N, v, 10), Field(t, p, N)
  PROVE  SignedField(<<BLANK, PLUS>> \o SubSeq(t, Blanks(t) + 1, Len(t)), 1, PLUS, N)
<1>1. N \in Seq(Int) /\ Len(N) \in Nat \ {0} /\ N[1] \in 0..(10 - 1)
  <2>1. 10 \in Nat \ {0}
    OBVIOUS
  <2> QED
    BY <2>1, NumeralStarts
<1>2. p \in Nat /\ (\A j \in 1..p : t[j] = BLANK) /\ Len(t) = ((p + 1) - 1) + Len(N)
      /\ \A k \in 1..Len(N) : t[(p + 1) + (k - 1)] = N[k]
  BY DEF Field, Holds
<1>3. Len(t) = p + Len(N)
  BY <1>1, <1>2
<1>4. ASSUME NEW k \in 1..Len(N) PROVE t[p + k] = N[k]
  <2>1. (p + 1) + (k - 1) = p + k
    BY <1>1, <1>2
  <2> QED
    BY <1>2, <2>1
<1>5. Blanks(t) = p
  <2>1. t[p + 1] = N[1]
    BY <1>1, <1>4
  <2>2. Len(t) \in Nat /\ p < Len(t) /\ t[p + 1] # BLANK
    BY <1>1, <1>2, <1>3, <2>1, CharactersAre
  <2> QED
    BY <1>2, <2>2, BlanksAre
<1> DEFINE a == <<BLANK, PLUS>>
           m == p + 1
           n == Len(t)
           d == SubSeq(t, m, n)
           u == a \o d
<1>6. a \in Seq(Int) /\ Len(a) = 2 /\ a[1] = BLANK /\ a[2] = PLUS
  BY CharactersAre
<1>7. m \in Int /\ n \in Int /\ m <= n /\ (n - m) + 1 = Len(N) /\ \A i \in m..n : t[i] \in Int
  <2>1. \A i \in m..n : i \in 1..Len(t)
    BY <1>2
  <2> QED
    BY <1>1, <1>2, <1>3, <2>1
<1>8. /\ d \in Seq(Int)
      /\ Len(d) = (n - m) + 1
      /\ \A i \in 1..((n - m) + 1) : d[i] = t[(m + i) - 1]
  <2>1. m \in 1..Len(t)
    BY <1>2, <1>7
  <2> QED
    BY <2>1, TailIs, Zenon
<1>9. Len(d) = Len(N) /\ \A k \in 1..Len(N) : d[k] = N[k]
  <2>1. Len(d) = Len(N)
    BY <1>7, <1>8
  <2>2. ASSUME NEW k \in 1..Len(N) PROVE d[k] = N[k]
    <3>1. k \in 1..((n - m) + 1)
      BY <1>7
    <3>2. (m + k) - 1 = p + k
      BY <1>1, <1>2
    <3> HIDE DEF d, m, n
    <3>3. d[k] = t[(m + k) - 1]
      BY <1>8, <3>1
    <3> QED
      BY <1>4, <3>2, <3>3
  <2> HIDE DEF d
  <2> QED
    BY <2>1, <2>2
<1>10. /\ Len(u) = Len(a) + Len(d)
       /\ \A j \in 1..Len(a) : u[j] = a[j]
       /\ \A j \in 1..Len(d) : u[Len(a) + j] = d[j]
  <2> HIDE DEF a, d
  <2> QED
    BY <1>6, <1>8, TextsJoined, Zenon
<1>11. u = <<BLANK, PLUS>> \o SubSeq(t, Blanks(t) + 1, Len(t))
  BY <1>5
<1> HIDE DEF a, d, u
<1>12. 1 \in Nat /\ (\A j \in 1..1 : u[j] = BLANK) /\ u[1 + 1] = PLUS
  <2>1. 1 \in 1..Len(a) /\ 2 \in 1..Len(a)
    BY <1>6
  <2>2. u[1] = BLANK /\ u[2] = PLUS
    BY <1>6, <1>10, <2>1
  <2> QED
    BY <2>2
<1>13. Holds(u, 1 + 2, N)
  <2>1. Len(u) = ((1 + 2) - 1) + Len(N)
    BY <1>1, <1>6, <1>9, <1>10
  <2>2. ASSUME NEW k \in 1..Len(N) PROVE u[(1 + 2) + (k - 1)] = N[k]
    <3>1. (1 + 2) + (k - 1) = 2 + k
      BY <1>1
    <3>2. u[Len(a) + k] = d[k]
      BY <1>9, <1>10
    <3> QED
      BY <1>6, <1>9, <3>1, <3>2
  <2> QED
    BY <2>1, <2>2 DEF Holds
<1>14. SignedField(u, 1, PLUS, N)
  BY <1>12, <1>13, Zenon DEF SignedField
<1> QED
  BY <1>11, <1>14, Zenon

-----------------------------------------------------------------------------
(* A text of blanks, a sign or none, and the numeral of a number.           *)
Shows(t, v) == \E p, N : Written(N, v, 10) /\ Field(t, p, N)
ShowsSigned(t, c, v) == \E p, N : Written(N, v, 10) /\ SignedField(t, p, c, N)

LEMMA ShownRead ==
  ASSUME NEW v \in Nat, NEW t, Shows(t, v), NEW n \in Nat, NEW signs \in SUBSET {MINUS, PLUS}
  PROVE  Decimal(t, signs, n) = v % 2 ^ n
<1>1. PICK p, N : Written(N, v, 10) /\ Field(t, p, N)
  BY Zenon DEF Shows
<1>2. signs \subseteq {MINUS, PLUS}
  OBVIOUS
<1> QED
  BY <1>1, <1>2, FieldRead

LEMMA ShownSignedRead ==
  ASSUME NEW v \in Nat, NEW t, NEW c, ShowsSigned(t, c, v), NEW n \in Nat, NEW signs \in SUBSET {MINUS, PLUS}, c \in signs
  PROVE  Decimal(t, signs, n) = IF c = MINUS THEN Negat(v % 2 ^ n, n) ELSE v % 2 ^ n
<1>1. PICK p, N : Written(N, v, 10) /\ SignedField(t, p, c, N)
  BY Zenon DEF ShowsSigned
<1>2. signs \subseteq {MINUS, PLUS}
  OBVIOUS
<1> QED
  BY <1>1, <1>2, SignedFieldRead

LEMMA PlusShown ==
  ASSUME NEW t \in Seq(Int), NEW v \in Nat, Shows(t, v)
  PROVE  ShowsSigned(<<BLANK, PLUS>> \o SubSeq(t, Blanks(t) + 1, Len(t)), PLUS, v)
<1>1. PICK p, N : Written(N, v, 10) /\ Field(t, p, N)
  BY Zenon DEF Shows
<1>2. SignedField(<<BLANK, PLUS>> \o SubSeq(t, Blanks(t) + 1, Len(t)), 1, PLUS, N)
  BY <1>1, PlusField
<1> QED
  BY <1>1, <1>2, Zenon DEF ShowsSigned

LEMMA DecimalIs ==
  ASSUME NEW i \in LONGs, NEW f \in Nat, NEW w \in Nat, NEW s \in BOOLEAN, NEW t, t = pnum(i, f, w, s, 10)
  PROVE  /\ Shown(i, s) \in Nat /\ t \in Seq(Int) /\ Len(t) >= w
         /\ s /\ Sign(i, LONG) => ShowsSigned(t, MINUS, Shown(i, s))
         /\ ~(s /\ Sign(i, LONG)) => Shows(t, Shown(i, s))
<1>1. 10 \in Nat /\ 10 >= 2
  OBVIOUS
<1> DEFINE v == Shown(i, s)
           L == 2 ^ LONG
           minus == s /\ Sign(i, LONG)
<1>2. PICK N, p :
        /\ p \in Nat /\ Written(N, v, 10) /\ v \in 0..(L - 1)
        /\ t \in Seq(Int) /\ Len(t) >= w
        /\ IF minus THEN SignedField(t, p, MINUS, N) ELSE Field(t, p, N)
        /\ w = 0 => p = 0
  BY <1>1, PnumIs
<1>3. L \in Nat \ {0}
  BY WidthFacts, PowerType
<1> HIDE DEF v, L, minus
<1>4. v \in Nat
  BY <1>2, <1>3
<1>5. minus => ShowsSigned(t, MINUS, v)
  BY <1>2, Zenon DEF ShowsSigned
<1>6. ~minus => Shows(t, v)
  BY <1>2, Zenon DEF Shows
<1> QED
  BY <1>2, <1>4, <1>5, <1>6, Zenon DEF v, minus

LEMMA HexIs ==
  ASSUME NEW i \in LONGs, NEW f \in Nat
  PROVE  xtoi(pnum(i, f, 0, FALSE, 16)) = Lo(i)
<1> DEFINE s == FALSE
           w == 0
           base == 16
           t == pnum(i, f, w, s, base)
           v == Shown(i, s)
<1>1. /\ base \in Nat /\ base >= 2 /\ base \in Nat \ {0} /\ base = 16
      /\ w \in Nat /\ w = 0 /\ s \in BOOLEAN /\ ~s /\ 1 \in Nat \ {0} /\ WORD \in Nat
  BY WidthFacts
<1>2. v = i
  BY DEF Shown
<1> HIDE DEF s, w, base
<1>3. PICK N, p :
        /\ p \in Nat /\ Written(N, v, base) /\ v \in 0..(2 ^ LONG - 1)
        /\ t \in Seq(Int) /\ Len(t) >= w
        /\ IF s /\ Sign(i, LONG) THEN SignedField(t, p, MINUS, N) ELSE Field(t, p, N)
        /\ w = 0 => p = 0
  <2>1. t = pnum(i, f, w, s, base)
    OBVIOUS
  <2> HIDE DEF t
  <2> QED
    BY <1>1, <2>1, PnumIs
<1> HIDE DEF t, v
<1>4. p = 0 /\ Field(t, p, N) /\ Written(N, v, base)
  BY <1>1, <1>3
<1>5. Holds(t, 0 + 1, N)
  BY <1>4 DEF Field
<1>6. Holds(t, 1, N)
  BY <1>5
<1>7. i \in Nat
  <2> DEFINE L == 2 ^ LONG
  <2>1. L \in Nat \ {0} /\ i \in 0..(L - 1)
    BY WidthFacts, PowerType DEF LONGs
  <2> HIDE DEF L
  <2> QED
    BY <2>1
<1>8. Written(N, i, base)
  BY <1>2, <1>4, Zenon
<1>9. Digits(t, 1, base, WORD) = i % 2 ^ WORD
  BY <1>1, <1>6, <1>7, <1>8, DigitsRead
<1> QED
  BY <1>9, Zenon DEF xtoi, Lo, t, s, w, base

(* A text with a plus sign put before its number, unless it has a minus.    *)
WithPlus(t, minus) == IF minus THEN t ELSE <<BLANK, PLUS>> \o SubSeq(t, Blanks(t) + 1, Len(t))

LEMMA NumeralsOf ==
  ASSUME NEW x \in LONGs, NEW f \in Nat, NEW w \in Nat, NEW s \in BOOLEAN
  PROVE  LET decimal == pnum(x, f, w, s, 10) IN
         /\ atoi(decimal) = Lo(x) /\ atoi(WithPlus(decimal, s /\ Sign(x, LONG))) = Lo(x) /\ atol(decimal) = x
         /\ Len(decimal) >= w
<1> DEFINE minus == s /\ Sign(x, LONG)
           v == Shown(x, s)
           decimal == pnum(x, f, w, s, 10)
           plus == WithPlus(decimal, minus)
           both == {MINUS, PLUS}
           one == {MINUS}
<1>1. /\ v \in Nat /\ decimal \in Seq(Int) /\ Len(decimal) >= w
      /\ minus => ShowsSigned(decimal, MINUS, v)
      /\ ~minus => Shows(decimal, v)
  BY DecimalIs, Zenon
<1>2. IF minus THEN Negat(v % 2 ^ WORD, WORD) = Lo(x) /\ Negat(v % 2 ^ LONG, LONG) = x
               ELSE v % 2 ^ WORD = Lo(x) /\ v % 2 ^ LONG = x
  BY ShownBack, Zenon
<1>3. WORD \in Nat /\ LONG \in Nat
  BY WidthFacts
<1>4. both \in SUBSET {MINUS, PLUS} /\ one \in SUBSET {MINUS, PLUS} /\ MINUS \in both /\ PLUS \in both /\ MINUS \in one
  BY CharactersAre
<1>41. PLUS # MINUS
  BY CharactersAre
<1>5. atoi(decimal) = Decimal(decimal, both, WORD) /\ atoi(plus) = Decimal(plus, both, WORD) /\ atol(decimal) = Decimal(decimal, one, LONG)
  BY DEF atoi, atol
<1>6. plus = IF minus THEN decimal ELSE <<BLANK, PLUS>> \o SubSeq(decimal, Blanks(decimal) + 1, Len(decimal))
  BY DEF WithPlus
<1> HIDE DEF both, one, v, minus, decimal, plus
<1>7. CASE minus
  <2>1. ShowsSigned(decimal, MINUS, v)
    BY <1>1, <1>7
  <2>2. Decimal(decimal, both, WORD) = IF MINUS = MINUS THEN Negat(v % 2 ^ WORD, WORD) ELSE v % 2 ^ WORD
    BY <1>1, <1>3, <1>4, <2>1, ShownSignedRead, Zenon
  <2>3. Decimal(decimal, one, LONG) = IF MINUS = MINUS THEN Negat(v % 2 ^ LONG, LONG) ELSE v % 2 ^ LONG
    BY <1>1, <1>3, <1>4, <2>1, ShownSignedRead, Zenon
  <2>4. plus = decimal
    BY <1>6, <1>7
  <2> QED
    BY <1>1, <1>2, <1>5, <1>7, <2>2, <2>3, <2>4, Zenon DEF decimal, plus, minus
<1>8. CASE ~minus
  <2>1. Shows(decimal, v)
    BY <1>1, <1>8
  <2>2. Decimal(decimal, both, WORD) = v % 2 ^ WORD
    BY <1>1, <1>3, <1>4, <2>1, ShownRead, Zenon
  <2>3. Decimal(decimal, one, LONG) = v % 2 ^ LONG
    BY <1>1, <1>3, <1>4, <2>1, ShownRead, Zenon
  <2>4. plus = <<BLANK, PLUS>> \o SubSeq(decimal, Blanks(decimal) + 1, Len(decimal))
    BY <1>6, <1>8, Zenon
  <2>5. ShowsSigned(plus, PLUS, v)
    BY <1>1, <2>1, <2>4, PlusShown, Zenon
  <2>6. Decimal(plus, both, WORD) = IF PLUS = MINUS THEN Negat(v % 2 ^ WORD, WORD) ELSE v % 2 ^ WORD
    <3> DEFINE c == PLUS
    <3>1. c \in both /\ ShowsSigned(plus, c, v) /\ v \in Nat /\ both \in SUBSET {MINUS, PLUS}
      BY <1>1, <1>4, <2>5
    <3> HIDE DEF c
    <3>2. Decimal(plus, both, WORD) = IF c = MINUS THEN Negat(v % 2 ^ WORD, WORD) ELSE v % 2 ^ WORD
      BY <1>3, <3>1, ShownSignedRead
    <3> QED
      BY <3>2 DEF c
  <2> QED
    BY <1>1, <1>2, <1>41, <1>5, <1>8, <2>2, <2>3, <2>6, Zenon DEF decimal, plus, minus
<1> QED
  BY <1>7, <1>8

LEMMA NumeralsCalled ==
  NumeralCall => call'.op = "numerals" /\ NumeralsRight(call'.res, call'.x, call'.y)
<1> SUFFICES ASSUME NumeralCall PROVE call'.op = "numerals" /\ NumeralsRight(call'.res, call'.x, call'.y)
  OBVIOUS
<1> DEFINE Text(x, f, w, s) == pnum(x, f, w, s, 10)
           Res(x, f, w, s) ==
             [decimal |-> Text(x, f, w, s), atoi |-> atoi(Text(x, f, w, s)),
              signed |-> atoi(WithPlus(Text(x, f, w, s), s /\ Sign(x, LONG))),
              atol |-> atol(Text(x, f, w, s)), xtoi |-> xtoi(pnum(x, f, 0, FALSE, 16))]
<1>1. \E x \in Longs, f \in {0, 3}, w \in {0, 9}, s \in BOOLEAN : Called("numerals", x, w, Res(x, f, w, s))
  BY Zenon DEF NumeralCall, WithPlus
<1>2. PICK x \in Longs, f \in {0, 3}, w \in {0, 9}, s \in BOOLEAN : Called("numerals", x, w, Res(x, f, w, s))
  BY <1>1
<1>3. x \in LONGs /\ f \in Nat /\ w \in Nat
  BY SampleTypes
<1> DEFINE decimal == pnum(x, f, w, s, 10)
           plus == WithPlus(decimal, s /\ Sign(x, LONG))
           h == xtoi(pnum(x, f, 0, FALSE, 16))
           r == [decimal |-> decimal, atoi |-> atoi(decimal), signed |-> atoi(plus), atol |-> atol(decimal), xtoi |-> h]
<1>4. Called("numerals", x, w, r)
  BY <1>2
<1>5. atoi(decimal) = Lo(x) /\ atoi(plus) = Lo(x) /\ atol(decimal) = x /\ Len(decimal) >= w
  BY <1>3, NumeralsOf, Zenon
<1>6. h = Lo(x)
  BY <1>3, HexIs, Zenon
<1> HIDE DEF decimal, plus, h
<1>7. r.atoi = Lo(x) /\ r.signed = Lo(x) /\ r.atol = x /\ r.xtoi = Lo(x) /\ Len(r.decimal) >= w
  BY <1>5, <1>6
<1> HIDE DEF r
<1>8. Answered("numerals", x, w, r)
  BY <1>4, Operation, Zenon
<1>9. call'.op = "numerals" /\ call'.x = x /\ call'.y = w /\ call'.res = r
  BY <1>8 DEF Answered
<1>10. NumeralsRight(r, x, w)
  BY <1>7, Zenon DEF NumeralsRight
<1> QED
  BY <1>9, <1>10, Zenon

NumeralsKeep == call.op = "numerals" => NumeralsRight(call.res, call.x, call.y)

LEMMA NoNumerals ==
  ASSUME call'.op # "numerals"
  PROVE  NumeralsKeep'
BY DEF NumeralsKeep

LEMMA NoNumeralCall ==
  ASSUME NEW op, Made(op), op # "numerals"
  PROVE  NumeralsKeep'
<1>1. PICK x, y, r : Called(op, x, y, r)
  BY DEF Made
<1>2. call'.op = op
  BY <1>1 DEF Called
<1> QED
  BY <1>2, NoNumerals

(* What pnum() writes of any long, in any of its widths, signed or not, is  *)
(* what atoi(), atol() and xtoi() read: nothing is lost between the two     *)
(* but the upper half of a long read as a word (stdio/DOPRNT.C, PNUM.C,     *)
(* gen/ATOI.C, ATOL.C, XTOI.C).                                             *)
THEOREM NumeralsAreRight == Spec => [](call.op = "numerals" => NumeralsRight(call.res, call.x, call.y))
<1>1. Init => NumeralsKeep
  BY DEF Init, Idle, NumeralsKeep
<1>2. NumeralsKeep /\ [Next]_vars => NumeralsKeep'
  <2> SUFFICES ASSUME NumeralsKeep, [Next]_vars PROVE NumeralsKeep'
    OBVIOUS
  <2>1. CASE NumeralCall
    BY <2>1, NumeralsCalled, Zenon DEF NumeralsKeep
  <2>2. CASE Return
    <3>1. call'.op = "idle"
      BY <2>2 DEF Return, Idle
    <3> QED
      BY <3>1, NoNumerals
  <2>3. CASE UNCHANGED vars
    BY <2>3 DEF vars, NumeralsKeep
  <2>4. CASE WordCall \/ LongCall \/ ShiftCall \/ BitFieldCall
    BY <2>4, MadeCalls, NoNumeralCall
  <2>5. CASE SortCall \/ PutwCall \/ FormatCall \/ LinesCall \/ LineCall \/ ExactCall
    BY <2>5, MadeCalls, NoNumeralCall
  <2>6. CASE FloatCall \/ PartsCall \/ ToFloatCall
    BY <2>6, MadeCalls, NoNumeralCall
  <2>7. CASE ClockCall \/ CpmClockCall
    <3>1. ClockCall => Made("localtime") \/ Made("ctime")
      BY Zenon DEF ClockCall, Made
    <3>2. CpmClockCall => Made("convtime")
      <4> SUFFICES ASSUME CpmClockCall PROVE Made("convtime")
        OBVIOUS
      <4>1. \E x, y, r : Called("convtime", x, y, r)
        BY SMT DEF CpmClockCall
      <4> QED
        BY <4>1 DEF Made
    <3> QED
      BY <2>7, <3>1, <3>2, NoNumeralCall
  <2> QED
    BY <2>1, <2>2, <2>3, <2>4, <2>5, <2>6, <2>7 DEF Next
<1> QED
  BY <1>1, <1>2, PTL DEF Spec, NumeralsKeep

-----------------------------------------------------------------------------
(* Lines put: what is on the stream is a beginning of what was to be put.   *)
LEMMA SubSeqIs ==
  ASSUME NEW t \in Seq(Int), NEW m \in Nat \ {0}, NEW n \in Nat, n <= Len(t), m <= n + 1
  PROVE  /\ SubSeq(t, m, n) \in Seq(Int)
         /\ Len(SubSeq(t, m, n)) = (n + 1) - m
         /\ \A i \in 1..((n + 1) - m) : SubSeq(t, m, n)[i] = t[(m + i) - 1]
<1>1. m \in Int /\ n \in Int /\ \A i \in m..n : t[i] \in Int
  OBVIOUS
<1>2. /\ SubSeq(t, m, n) \in Seq(Int)
      /\ Len(SubSeq(t, m, n)) = IF m <= n THEN n-m+1 ELSE 0
      /\ \A i \in 1 .. n-m+1 : SubSeq(t, m, n)[i] = t[m+i-1]
  BY <1>1, SubSeqProperties
<1> QED
  BY <1>2

LEMMA SameText ==
  ASSUME NEW a \in Seq(Int), NEW b \in Seq(Int), Len(a) = Len(b), \A i \in 1..Len(a) : a[i] = b[i]
  PROVE  a = b
<1>1. DOMAIN a = 1..Len(a) /\ DOMAIN b = 1..Len(b)
  OBVIOUS
<1>2. a = [i \in 1..Len(a) |-> a[i]] /\ b = [i \in 1..Len(b) |-> b[i]]
  BY <1>1
<1> QED
  BY <1>2

LEMMA OneMore ==
  ASSUME NEW t \in Seq(Int), NEW n \in Nat, n < Len(t)
  PROVE  Append(SubSeq(t, 1, n), t[n + 1]) = SubSeq(t, 1, n + 1)
<1> DEFINE a == SubSeq(t, 1, n)
           b == SubSeq(t, 1, n + 1)
           c == t[n + 1]
           d == Append(a, c)
<1>1. a \in Seq(Int) /\ Len(a) = n /\ \A i \in 1..n : a[i] = t[i]
  <2>1. 1 \in Nat \ {0} /\ n <= Len(t) /\ 1 <= n + 1 /\ (n + 1) - 1 = n
    OBVIOUS
  <2>2. a \in Seq(Int) /\ Len(a) = (n + 1) - 1 /\ \A i \in 1..((n + 1) - 1) : a[i] = t[(1 + i) - 1]
    BY <2>1, SubSeqIs
  <2> HIDE DEF a
  <2>3. \A i \in 1..n : (1 + i) - 1 = i
    OBVIOUS
  <2> QED
    BY <2>1, <2>2, <2>3
<1>2. b \in Seq(Int) /\ Len(b) = n + 1 /\ \A i \in 1..(n + 1) : b[i] = t[i]
  <2>1. 1 \in Nat \ {0} /\ n + 1 \in Nat /\ n + 1 <= Len(t) /\ 1 <= (n + 1) + 1 /\ ((n + 1) + 1) - 1 = n + 1
    OBVIOUS
  <2>2. b \in Seq(Int) /\ Len(b) = ((n + 1) + 1) - 1 /\ \A i \in 1..(((n + 1) + 1) - 1) : b[i] = t[(1 + i) - 1]
    BY <2>1, SubSeqIs
  <2> HIDE DEF b
  <2>3. \A i \in 1..(n + 1) : (1 + i) - 1 = i
    OBVIOUS
  <2> QED
    BY <2>1, <2>2, <2>3
<1>3. c \in Int
  OBVIOUS
<1> HIDE DEF a, b
<1>4. d \in Seq(Int) /\ Len(d) = n + 1 /\ (\A i \in 1..n : d[i] = a[i]) /\ d[n + 1] = c
  <2> HIDE DEF c
  <2> QED
    BY <1>1, <1>3
<1> HIDE DEF d
<1>5. ASSUME NEW i \in 1..(n + 1) PROVE d[i] = b[i]
  <2>1. CASE i = n + 1
    BY <1>2, <1>4, <2>1 DEF c
  <2>2. CASE i # n + 1
    <3>1. i \in 1..n
      BY <2>2
    <3> QED
      BY <1>1, <1>2, <1>4, <3>1
  <2> QED
    BY <2>1, <2>2
<1>6. d = b
  BY <1>2, <1>4, <1>5, SameText
<1> QED
  BY <1>6 DEF a, b, c, d

(* A stream in fputs(), with so many characters put of the string.          *)
Putting(t, r, ret, k) == [text |-> t, room |-> r, ret |-> ret, k |-> k]

LEMMA PutOne ==
  ASSUME NEW t, NEW r \in Nat, NEW m \in Nat, NEW c
  PROVE  putc([Putting(t, r, 0, m) EXCEPT !.k = Putting(t, r, 0, m).k + 1], c)
           = IF r = 0 THEN Putting(t, 0, EOF, m + 1) ELSE Putting(Append(t, c), r - 1, 0, m + 1)
<1> DEFINE g == Putting(t, r, 0, m)
           h == Putting(t, r, 0, m + 1)
<1>1. g.k = m /\ [g EXCEPT !.k = m + 1] = h
  BY DEF Putting
<1>2. r = 0 => putc(h, c) = Putting(t, 0, EOF, m + 1)
  BY DEF putc, Putting
<1>3. r # 0 => putc(h, c) = Putting(Append(t, c), r - 1, 0, m + 1)
  BY DEF putc, Putting
<1> HIDE DEF g, h
<1>4. putc([g EXCEPT !.k = g.k + 1], c) = putc(h, c)
  BY <1>1
<1> QED
  BY <1>2, <1>3, <1>4, Zenon DEF g

(* What has been put after k characters of a string that is at o in all,    *)
(* when there was room for R.                                               *)
After(all, o, R, text, k) == IF k = 0 \/ R = 0 THEN text ELSE SubSeq(all, 1, o + IF k < R THEN k ELSE R)
PutAfter(all, o, R, text, k) ==
  IF k <= R THEN Putting(After(all, o, R, text, k), R - k, 0, k + 1)
            ELSE Putting(After(all, o, R, text, k), 0, EOF, R + 2)

(* The string is at o in all, and so is the stream, or it is full.          *)
StandsAt(s, all, o) ==
  /\ all \in Seq(Int) /\ s \in Seq(Int) /\ o \in Nat /\ o + Len(s) <= Len(all)
  /\ \A j \in 1..Len(s) : s[j] = all[o + j]
ReadyAt(text, all, o, R) == R \in Nat /\ (R = 0 \/ text = SubSeq(all, 1, o))
NextAt(all, o, k, c) ==
  all \in Seq(Int) /\ o \in Nat /\ k \in Nat /\ o + (k + 1) <= Len(all) /\ c = all[o + (k + 1)]

LEMMA AfterOneMore ==
  ASSUME NEW all, NEW o, NEW R, NEW text, NEW k, NEW c, ReadyAt(text, all, o, R), NextAt(all, o, k, c), k < R
  PROVE  After(all, o, R, text, k + 1) = Append(After(all, o, R, text, k), c)
<1>1. R # 0 /\ text = SubSeq(all, 1, o) /\ all \in Seq(Int) /\ o \in Nat /\ k \in Nat /\ R \in Nat /\ k < R
      /\ o + (k + 1) <= Len(all) /\ c = all[o + (k + 1)]
  BY DEF ReadyAt, NextAt
<1>2. After(all, o, R, text, k + 1) = SubSeq(all, 1, o + (k + 1))
  <2>1. k + 1 # 0 /\ (IF k + 1 < R THEN k + 1 ELSE R) = k + 1
    BY <1>1
  <2> QED
    BY <1>1, <2>1 DEF After
<1>3. After(all, o, R, text, k) = SubSeq(all, 1, o + k)
  <2>1. CASE k = 0
    <3>1. o + 0 = o
      BY <1>1
    <3> QED
      BY <1>1, <2>1, <3>1 DEF After
  <2>2. CASE k # 0
    BY <1>1, <2>2 DEF After
  <2> QED
    BY <2>1, <2>2
<1>4. Append(SubSeq(all, 1, o + k), all[(o + k) + 1]) = SubSeq(all, 1, (o + k) + 1)
  <2>1. o + k \in Nat /\ o + k < Len(all)
    BY <1>1
  <2> QED
    BY <1>1, <2>1, OneMore
<1>5. (o + k) + 1 = o + (k + 1)
  BY <1>1
<1> QED
  BY <1>1, <1>2, <1>3, <1>4, <1>5, Zenon

FStep(s, g) == IF g.ret = EOF THEN g ELSE putc([g EXCEPT !.k = g.k + 1], s[g.k])

LEMMA FputsTurn ==
  ASSUME NEW all, NEW s, NEW o, NEW R, NEW text, StandsAt(s, all, o), ReadyAt(text, all, o, R), NEW k \in 0..(Len(s) - 1)
  PROVE  PutAfter(all, o, R, text, k + 1) = FStep(s, PutAfter(all, o, R, text, k))
<1> DEFINE g == PutAfter(all, o, R, text, k)
<1>0. k \in Nat /\ Len(s) \in Nat /\ k + 1 <= Len(s) /\ R \in Nat
  BY DEF StandsAt, ReadyAt
<1>9. FStep(s, g) = IF g.ret = EOF THEN g ELSE putc([g EXCEPT !.k = g.k + 1], s[g.k])
  BY DEF FStep
<1>1. CASE k > R
  <2>1. g = Putting(After(all, o, R, text, k), 0, EOF, R + 2)
    BY <1>0, <1>1 DEF PutAfter
  <2>2. After(all, o, R, text, k + 1) = After(all, o, R, text, k)
    BY <1>0, <1>1 DEF After
  <2>3. PutAfter(all, o, R, text, k + 1) = Putting(After(all, o, R, text, k + 1), 0, EOF, R + 2)
    BY <1>0, <1>1 DEF PutAfter
  <2>4. g.ret = EOF
    BY <2>1 DEF Putting
  <2> QED
    BY <1>9, <2>1, <2>2, <2>3, <2>4, Zenon
<1>2. CASE k <= R
  <2> DEFINE a == After(all, o, R, text, k)
  <2>1. g = Putting(a, R - k, 0, k + 1)
    BY <1>0, <1>2 DEF PutAfter
  <2> HIDE DEF a, g
  <2>2. g.ret # EOF /\ g.k = k + 1
    BY <2>1 DEF Putting, EOF
  <2>3. R - k \in Nat /\ k + 1 \in Nat /\ k + 1 \in 1..Len(s) /\ (k + 1) + 1 = k + 2
    BY <1>0, <1>2
  <2>4. putc([g EXCEPT !.k = g.k + 1], s[g.k])
          = IF R - k = 0 THEN Putting(a, 0, EOF, (k + 1) + 1) ELSE Putting(Append(a, s[k + 1]), (R - k) - 1, 0, (k + 1) + 1)
    <3> DEFINE r == R - k
               m == k + 1
               h == Putting(a, r, 0, m)
               c == s[m]
    <3>1. r \in Nat /\ m \in Nat
      BY <2>3
    <3> HIDE DEF r, m, c
    <3>2. putc([h EXCEPT !.k = h.k + 1], c)
            = IF r = 0 THEN Putting(a, 0, EOF, m + 1) ELSE Putting(Append(a, c), r - 1, 0, m + 1)
      BY <3>1, PutOne, Zenon
    <3>3. g = h /\ g.k = m
      BY <2>1, <2>2 DEF m, r
    <3> HIDE DEF h
    <3> QED
      BY <3>2, <3>3, Zenon DEF r, m, c
  <2>5. CASE k = R
    <3>1. PutAfter(all, o, R, text, k + 1) = Putting(After(all, o, R, text, k + 1), 0, EOF, R + 2)
      BY <1>0, <2>5 DEF PutAfter
    <3>2. After(all, o, R, text, k + 1) = a
      BY <1>0, <2>5 DEF After, a
    <3>3. R - k = 0 /\ (k + 1) + 1 = R + 2
      BY <1>0, <2>5
    <3> QED
      BY <1>9, <2>2, <2>4, <3>1, <3>2, <3>3, Zenon DEF g
  <2>6. CASE k < R
    <3>1. PutAfter(all, o, R, text, k + 1) = Putting(After(all, o, R, text, k + 1), R - (k + 1), 0, (k + 1) + 1)
      BY <1>0, <2>6 DEF PutAfter
    <3>2. After(all, o, R, text, k + 1) = Append(a, s[k + 1])
      <4> DEFINE c == s[k + 1]
      <4>1. NextAt(all, o, k, c)
        BY <1>0, <2>3 DEF NextAt, StandsAt
      <4> HIDE DEF c
      <4>2. After(all, o, R, text, k + 1) = Append(After(all, o, R, text, k), c)
        BY <2>6, <4>1, AfterOneMore
      <4> QED
        BY <4>2, Zenon DEF a, c
    <3>3. R - k # 0 /\ (R - k) - 1 = R - (k + 1)
      BY <1>0, <2>6
    <3> QED
      BY <1>9, <2>2, <2>4, <3>1, <3>2, <3>3, Zenon DEF g
  <2> QED
    BY <1>0, <1>2, <2>5, <2>6
<1> QED
  BY <1>0, <1>1, <1>2

LEMMA FputsIs ==
  ASSUME NEW all, NEW s, NEW o, NEW R, NEW text, StandsAt(s, all, o), ReadyAt(text, all, o, R),
         NEW f, f.room = R, f.text = text
  PROVE  fputs(f, s) = PutAfter(all, o, R, text, Len(s))
<1> DEFINE n == Len(s)
           Step(g) == FStep(s, g)
           s0 == [text |-> f.text, room |-> f.room, ret |-> 0, k |-> 1]
           turns == CHOOSE turn : turn = [k \in 0..n |-> IF k = 0 THEN s0 ELSE Step(turn[k - 1])]
           G(k) == PutAfter(all, o, R, text, k)
           turn == [k \in 0..n |-> G(k)]
<1>1. fputs(f, s) = turns[n]
  BY DEF fputs, Iterate, FStep
<1>2. G(0) = s0
  BY DEF PutAfter, Putting, After, ReadyAt
<1>3. ASSUME NEW k \in 1..n PROVE G(k) = Step(G(k - 1))
  <2>1. k - 1 \in 0..(Len(s) - 1) /\ (k - 1) + 1 = k
    BY DEF StandsAt
  <2>2. PutAfter(all, o, R, text, (k - 1) + 1) = FStep(s, PutAfter(all, o, R, text, k - 1))
    BY <2>1, FputsTurn
  <2> QED
    BY <2>1, <2>2, Zenon
<1>4. n \in Nat
  BY DEF StandsAt
<1> HIDE DEF n, s0, Step, G
<1>5. turn = [k \in 0..n |-> IF k = 0 THEN s0 ELSE Step(turn[k - 1])]
  <2>1. ASSUME NEW k \in 0..n PROVE turn[k] = IF k = 0 THEN s0 ELSE Step(turn[k - 1])
    <3>1. CASE k = 0
      BY <1>2, <3>1
    <3>2. CASE k # 0
      <4>1. k \in 1..n /\ k - 1 \in 0..n
        BY <1>4, <3>2
      <4> QED
        BY <1>3, <3>2, <4>1
    <3> QED
      BY <3>1, <3>2
  <2> QED
    BY <2>1
<1> HIDE DEF turn
<1>6. turns = [k \in 0..n |-> IF k = 0 THEN s0 ELSE Step(turns[k - 1])]
  BY <1>5
<1> HIDE DEF turns
<1> DEFINE T == {k \in Nat : k <= n => turns[k] = G(k)}
<1>7. 0 \in T
  <2>1. turns[0] = s0
    BY <1>4, <1>6
  <2> QED
    BY <1>2, <2>1
<1>8. ASSUME NEW k \in T PROVE k + 1 \in T
  <2>1. k \in Nat /\ (k <= n => turns[k] = G(k))
    OBVIOUS
  <2>2. ASSUME k + 1 <= n PROVE turns[k + 1] = G(k + 1)
    <3>1. k + 1 \in 1..n /\ k + 1 \in 0..n /\ k + 1 # 0 /\ (k + 1) - 1 = k /\ k <= n
      BY <1>4, <2>1, <2>2
    <3>2. turns[k + 1] = Step(turns[(k + 1) - 1])
      BY <1>6, <3>1
    <3>3. G(k + 1) = Step(G((k + 1) - 1))
      BY <1>3, <3>1
    <3> QED
      BY <2>1, <3>1, <3>2, <3>3
  <2> QED
    BY <2>1, <2>2
<1>9. \A k \in Nat : k \in T
  <2>1. T \in SUBSET Nat
    OBVIOUS
  <2> HIDE DEF T
  <2> QED
    BY <1>7, <1>8, <2>1, Induction
<1>10. turns[n] = G(n)
  BY <1>4, <1>9
<1> QED
  BY <1>1, <1>10 DEF G, n

PutsDone(all, o, R, text, n) ==
  [text |-> After(all, o, R, text, n + 1), room |-> IF n + 1 <= R THEN R - (n + 1) ELSE 0, ret |-> IF n <= R THEN 0 ELSE EOF]

LEMMA PutsIs ==
  ASSUME NEW all, NEW s, NEW o, NEW R, NEW text, StandsAt(s, all, o), ReadyAt(text, all, o, R),
         NEW n, n = Len(s), NextAt(all, o, n, NL), NEW f, f.room = R, f.text = text
  PROVE  puts(f, s) = PutsDone(all, o, R, text, n)
<1> DEFINE g == fputs(f, s)
           h == putc(g, NL)
<1>1. g = PutAfter(all, o, R, text, n)
  <2>2. fputs(f, s) = PutAfter(all, o, R, text, Len(s))
    BY FputsIs, Zenon
  <2> QED
    BY <2>2
<1>0. n \in Nat /\ R \in Nat
  BY DEF NextAt, ReadyAt
<1>2. puts(f, s) = [text |-> h.text, room |-> h.room, ret |-> g.ret]
  BY DEF puts
<1> HIDE DEF g
<1>3. CASE n > R
  <2> DEFINE a == After(all, o, R, text, n)
  <2>1. g = Putting(a, 0, EOF, R + 2)
    BY <1>0, <1>1, <1>3 DEF PutAfter
  <2>2. After(all, o, R, text, n + 1) = a
    BY <1>0, <1>3 DEF After
  <2> HIDE DEF a
  <2>3. g.text = a /\ g.ret = EOF /\ h.text = a /\ h.room = 0
    BY <2>1 DEF putc, Putting
  <2>4. ~(n + 1 <= R) /\ ~(n <= R)
    BY <1>0, <1>3
  <2> HIDE DEF h
  <2> QED
    BY <1>2, <2>2, <2>3, <2>4 DEF PutsDone
<1>4. CASE n <= R
  <2> DEFINE a == After(all, o, R, text, n)
             r == R - n
  <2>1. g = Putting(a, r, 0, n + 1)
    BY <1>0, <1>1, <1>4 DEF PutAfter
  <2>2. r \in Nat
    BY <1>0, <1>4
  <2> HIDE DEF a, r
  <2>3. g.ret = 0 /\ h.text = (IF r = 0 THEN a ELSE Append(a, NL)) /\ h.room = (IF r = 0 THEN 0 ELSE r - 1)
    BY <2>1, <2>2 DEF putc, Putting
  <2> HIDE DEF h
  <2>4. CASE n = R
    <3>1. r = 0 /\ ~(n + 1 <= R)
      BY <1>0, <2>4 DEF r
    <3>2. After(all, o, R, text, n + 1) = a
      BY <1>0, <2>4 DEF After, a
    <3> QED
      BY <1>2, <1>4, <2>3, <3>1, <3>2 DEF PutsDone
  <2>5. CASE n < R
    <3>1. r # 0 /\ n + 1 <= R /\ r - 1 = R - (n + 1)
      BY <1>0, <2>5 DEF r
    <3>2. After(all, o, R, text, n + 1) = Append(a, NL)
      <4>1. After(all, o, R, text, n + 1) = Append(After(all, o, R, text, n), NL)
        BY <2>5, AfterOneMore
      <4> QED
        BY <4>1 DEF a
    <3> QED
      BY <1>2, <1>4, <2>3, <3>1, <3>2 DEF PutsDone
  <2> QED
    BY <1>0, <1>4, <2>4, <2>5
<1> QED
  BY <1>0, <1>3, <1>4

(* Two lines put.                                                           *)
Two(x, y) == ((x \o <<NL>>) \o y) \o <<NL>>

LEMMA TwoIs ==
  ASSUME NEW x \in Seq(Int), NEW y \in Seq(Int)
  PROVE  /\ Two(x, y) \in Seq(Int) /\ Len(x) \in Nat /\ Len(y) \in Nat
         /\ Len(Two(x, y)) = (Len(x) + 1) + (Len(y) + 1)
         /\ \A j \in 1..Len(x) : Two(x, y)[j] = x[j]
         /\ Two(x, y)[Len(x) + 1] = NL
         /\ \A j \in 1..Len(y) : Two(x, y)[(Len(x) + 1) + j] = y[j]
         /\ Two(x, y)[(Len(x) + 1) + (Len(y) + 1)] = NL
<1> DEFINE e == <<NL>>
           a == x \o e
           b == a \o y
           c == b \o e
<1>1. e \in Seq(Int) /\ Len(e) = 1 /\ e[1] = NL
  BY DEF NL
<1>2. Len(x) \in Nat /\ Len(y) \in Nat
  OBVIOUS
<1> HIDE DEF e
<1>3. /\ a \in Seq(Int) /\ Len(a) = Len(x) + Len(e)
      /\ \A j \in 1..Len(x) : a[j] = x[j]
      /\ \A j \in 1..Len(e) : a[Len(x) + j] = e[j]
  BY <1>1, TextsJoined, Zenon
<1> HIDE DEF a
<1>4. /\ b \in Seq(Int) /\ Len(b) = Len(a) + Len(y)
      /\ \A j \in 1..Len(a) : b[j] = a[j]
      /\ \A j \in 1..Len(y) : b[Len(a) + j] = y[j]
  BY <1>3, TextsJoined, Zenon
<1> HIDE DEF b
<1>5. /\ c \in Seq(Int) /\ Len(c) = Len(b) + Len(e)
      /\ \A j \in 1..Len(b) : c[j] = b[j]
      /\ \A j \in 1..Len(e) : c[Len(b) + j] = e[j]
  BY <1>1, <1>4, TextsJoined, Zenon
<1>6. Two(x, y) = c
  BY DEF Two, a, b, c, e
<1> HIDE DEF c
<1>7. Len(a) = Len(x) + 1 /\ Len(b) = (Len(x) + 1) + Len(y) /\ Len(c) = (Len(x) + 1) + (Len(y) + 1) /\ 1 \in 1..Len(e)
  BY <1>1, <1>2, <1>3, <1>4, <1>5
<1>8. ASSUME NEW j \in 1..Len(x) PROVE c[j] = x[j]
  <2>1. j \in 1..Len(a) /\ j \in 1..Len(b)
    BY <1>2, <1>7
  <2> QED
    BY <1>3, <1>4, <1>5, <2>1
<1>9. c[Len(x) + 1] = NL
  <2>1. Len(x) + 1 \in 1..Len(a) /\ Len(x) + 1 \in 1..Len(b)
    BY <1>2, <1>7
  <2> QED
    BY <1>1, <1>3, <1>4, <1>5, <1>7, <2>1
<1>10. ASSUME NEW j \in 1..Len(y) PROVE c[(Len(x) + 1) + j] = y[j]
  <2>1. (Len(x) + 1) + j \in 1..Len(b)
    BY <1>2, <1>7
  <2> QED
    BY <1>4, <1>5, <1>7, <2>1
<1>11. c[(Len(x) + 1) + (Len(y) + 1)] = NL
  <2>1. (Len(x) + 1) + (Len(y) + 1) = Len(b) + 1
    BY <1>2, <1>7
  <2> QED
    BY <1>1, <1>5, <1>7, <2>1
<1> QED
  BY <1>2, <1>5, <1>6, <1>7, <1>8, <1>9, <1>10, <1>11

PutTwo(x, y, room, all, n, first, second) ==
  /\ all = Two(x, y) /\ n = IF room < Len(all) THEN room ELSE Len(all)
  /\ first = puts(Opened(room), x) /\ second = puts([first EXCEPT !.ret = 0], y)

LEMMA TwoPut ==
  ASSUME NEW x \in Seq(Int), NEW y \in Seq(Int), NEW room \in Nat,
         NEW all, NEW n, NEW first, NEW second, PutTwo(x, y, room, all, n, first, second)
  PROVE  /\ second.text = SubSeq(all, 1, n)
         /\ (second.ret = EOF) <=> (y # <<>> /\ n < Len(all) - 1)
<1> DEFINE p == Len(x)
           q == Len(y)
           c == p + 1
<1>0. /\ all = Two(x, y) /\ n = IF room < Len(all) THEN room ELSE Len(all)
      /\ first = puts(Opened(room), x) /\ second = puts([first EXCEPT !.ret = 0], y)
  BY Zenon DEF PutTwo
<1>1. /\ all \in Seq(Int) /\ p \in Nat /\ q \in Nat /\ Len(all) = c + (q + 1)
      /\ \A j \in 1..p : all[j] = x[j]
      /\ all[c] = NL
      /\ \A j \in 1..q : all[c + j] = y[j]
      /\ all[c + (q + 1)] = NL
  BY <1>0, TwoIs
<1>2. y # <<>> <=> q # 0
  OBVIOUS
<1>3. c \in Nat /\ c <= Len(all) /\ c + (q + 1) <= Len(all) /\ Len(all) - 1 = c + q
  BY <1>1
<1>4. SubSeq(all, 1, 0) = <<>>
  <2>1. SubSeq(all, 1, 0) \in Seq(Int) /\ Len(SubSeq(all, 1, 0)) = (0 + 1) - 1
    <3>1. 1 \in Nat \ {0} /\ 0 \in Nat /\ 0 <= Len(all) /\ 1 <= 0 + 1
      BY <1>1
    <3> QED
      BY <1>1, <3>1, SubSeqIs, Zenon
  <2> QED
    BY <2>1
<1> DEFINE t == After(all, 0, room, <<>>, c)
           room1 == IF c <= room THEN room - c ELSE 0
<1>5. first = [text |-> t, room |-> room1, ret |-> IF p <= room THEN 0 ELSE EOF]
  <2> DEFINE f == Opened(room)
  <2>1. f.room = room /\ f.text = <<>>
    BY DEF Opened
  <2>2. 0 \in Nat /\ 0 + (p + 1) <= Len(all) /\ 0 + (p + 1) = c /\ \A j \in 1..p : 0 + j = j
    BY <1>1
  <2>3. \A j \in 1..p : x[j] = all[0 + j]
    BY <1>1, <2>2
  <2>4. all[0 + (p + 1)] = NL
    BY <1>1, <2>2
  <2>5. <<>> = SubSeq(all, 1, 0)
    BY <1>4
  <2>6. p \in Nat /\ p = Len(x)
    BY <1>1
  <2> DEFINE nothing == <<>>
  <2>7. f.text = nothing /\ nothing = SubSeq(all, 1, 0)
    BY <2>1, <2>5
  <2> HIDE DEF f, p, nothing
  <2>8. StandsAt(x, all, 0) /\ NextAt(all, 0, p, NL)
    BY <1>1, <2>2, <2>3, <2>4, <2>6 DEF StandsAt, NextAt
  <2>9. ReadyAt(nothing, all, 0, room)
    BY <2>7 DEF ReadyAt
  <2>11. f.room = room /\ f.text = nothing
    BY <2>1, <2>7
  <2>12. p = Len(x)
    BY <2>6
  <2>10. puts(f, x) = PutsDone(all, 0, room, nothing, p)
    BY <2>11, <2>12, <2>8, <2>9, PutsIs
  <2> QED
    BY <1>0, <2>10 DEF f, nothing, PutsDone, p
<1>6. room1 \in Nat
  BY <1>3
<1>7. t = SubSeq(all, 1, IF c < room THEN c ELSE room)
  <2>1. c # 0
    BY <1>1
  <2>2. CASE room = 0
    <3>1. t = <<>> /\ (IF c < room THEN c ELSE room) = 0
      BY <1>1, <2>2 DEF After
    <3> QED
      BY <1>4, <3>1
  <2>3. CASE room # 0
    <3>1. 0 + (IF c < room THEN c ELSE room) = IF c < room THEN c ELSE room
      BY <1>3
    <3> QED
      BY <2>1, <2>3, <3>1 DEF After
  <2> QED
    BY <2>2, <2>3
<1>8. room1 = 0 \/ t = SubSeq(all, 1, c)
  <2>1. CASE c <= room
    <3>1. (IF c < room THEN c ELSE room) = c
      BY <1>3, <2>1
    <3> QED
      BY <1>7, <3>1
  <2>2. CASE ~(c <= room)
    BY <2>2
  <2> QED
    BY <2>1, <2>2
<1> DEFINE f2 == [first EXCEPT !.ret = 0]
<1>9. f2.text = t /\ f2.room = room1
  <2> HIDE DEF t, room1
  <2> QED
    BY <1>5
<1> HIDE DEF f2, t, room1
<1>10. q \in Nat /\ q = Len(y)
  BY <1>1
<1>11. second = [text |-> After(all, c, room1, t, q + 1),
                 room |-> IF q + 1 <= room1 THEN room1 - (q + 1) ELSE 0,
                 ret |-> IF q <= room1 THEN 0 ELSE EOF]
  <2> HIDE DEF c, q
  <2>1. StandsAt(y, all, c) /\ NextAt(all, c, q, NL)
    BY <1>1, <1>3, <1>10 DEF StandsAt, NextAt
  <2>2. ReadyAt(t, all, c, room1)
    BY <1>6, <1>8 DEF ReadyAt
  <2>3. puts(f2, y) = PutsDone(all, c, room1, t, q)
    BY <1>9, <1>10, <2>1, <2>2, PutsIs
  <2> QED
    BY <1>0, <2>3 DEF f2, PutsDone
<1>12. second.text = SubSeq(all, 1, n)
  <2>1. CASE room1 = 0
    <3>1. second.text = t
      BY <1>11, <2>1 DEF After
    <3>2. (IF c < room THEN c ELSE room) = n
      BY <1>0, <1>1, <1>3, <2>1 DEF room1
    <3> QED
      BY <1>7, <3>1, <3>2
  <2>2. CASE room1 # 0
    <3>1. c <= room /\ room1 = room - c
      BY <2>2 DEF room1
    <3>2. q + 1 # 0
      BY <1>1
    <3>3. second.text = SubSeq(all, 1, c + IF q + 1 < room1 THEN q + 1 ELSE room1)
      <4>1. second.text = After(all, c, room1, t, q + 1)
        BY <1>11
      <4> DEFINE k == q + 1
      <4>2. k # 0
        BY <3>2
      <4> HIDE DEF k
      <4>3. After(all, c, room1, t, k) = SubSeq(all, 1, c + IF k < room1 THEN k ELSE room1)
        BY <2>2, <4>2, Zenon DEF After
      <4> QED
        BY <4>1, <4>3, Zenon DEF k
    <3>4. (c + IF q + 1 < room1 THEN q + 1 ELSE room1) = n
      <4> DEFINE L == Len(all)
      <4>1. L = c + (q + 1) /\ c \in Nat /\ q \in Nat /\ n = (IF room < L THEN room ELSE L)
        BY <1>0, <1>1, <1>3
      <4> HIDE DEF L, c, q
      <4> QED
        BY <3>1, <4>1
    <3> QED
      BY <3>3, <3>4
  <2> QED
    BY <2>1, <2>2
<1>13. (second.ret = EOF) <=> (q # 0 /\ n < Len(all) - 1)
  <2>1. (second.ret = EOF) <=> ~(q <= room1)
    BY <1>11 DEF EOF
  <2>2. ~(q <= room1) <=> (q # 0 /\ n < Len(all) - 1)
    BY <1>0, <1>1, <1>3 DEF room1
  <2> QED
    BY <2>1, <2>2, Zenon
<1> QED
  BY <1>2, <1>12, <1>13, Zenon

-----------------------------------------------------------------------------
(* Lines got, and pieces of them.                                           *)
IsText(t) == t \in Seq(Int) /\ \A i \in 1..Len(t) : t[i] # EOF

(* What fgets() gives of a text from a place on, at most n characters.      *)
Got(t, from, n, g) ==
  /\ g.at \in from..(Len(t) + 1) /\ g.at - from <= n
  /\ g.line = SubSeq(t, from, g.at - 1)
  /\ from <= Len(t) => g.at > from
  /\ \A i \in from..(g.at - 2) : t[i] # NL
  /\ g.at - from = n \/ g.at = Len(t) + 1 \/ (g.at > from /\ t[g.at - 1] = NL)

(* The first character at which a line ends.                                *)
LEMMA LineEnds ==
  ASSUME NEW t, IsText(t), NEW from \in 1..(Len(t) + 1), NEW stop, stop = First(t, from, LAMBDA c : c \in {NL, EOF})
  PROVE  /\ stop \in from..(Len(t) + 1)
         /\ stop <= Len(t) => t[stop] = NL
         /\ \A i \in from..(stop - 1) : t[i] # NL
<1>1. t \in Seq(Int) /\ Len(t) \in Nat /\ \A i \in 1..Len(t) : t[i] # EOF
  BY DEF IsText
<1> DEFINE L == Len(t)
           Ends(j) == getc(t, j) \in {NL, EOF}
           U == {j \in from..(L + 1) : Ends(j)}
           Is(j) == Ends(j) /\ \A i \in from..(j - 1) : ~Ends(i)
<1>2. stop = CHOOSE j \in from..(L + 1) : Is(j)
  BY DEF First
<1>3. \E j \in from..(L + 1) : Is(j)
  <2>1. L + 1 \in U
    BY <1>1 DEF getc
  <2>2. U \in SUBSET Nat
    BY <1>1
  <2> HIDE DEF U
  <2>3. PICK m \in U : \A x \in U : m <= x
    BY <2>1, <2>2, LeastExists
  <2>4. m \in from..(L + 1) /\ Ends(m)
    BY DEF U
  <2>5. ASSUME NEW i \in from..(m - 1) PROVE ~Ends(i)
    <3>1. i \in from..(L + 1) /\ ~(m <= i)
      BY <1>1, <2>4
    <3> HIDE DEF Ends
    <3> QED
      BY <2>3, <3>1 DEF U
  <2> HIDE DEF Ends
  <2> QED
    BY <2>4, <2>5
<1>4. stop \in from..(L + 1) /\ Is(stop)
  <2> HIDE DEF Is
  <2> QED
    BY <1>2, <1>3
<1>5. stop <= L => t[stop] = NL
  <2>1. ASSUME stop <= L PROVE t[stop] = NL
    <3>1. stop \in 1..L /\ ~(stop > L)
      BY <1>1, <1>4, <2>1
    <3>2. getc(t, stop) = t[stop]
      BY <3>1, Zenon DEF getc
    <3> QED
      BY <1>1, <1>4, <3>1, <3>2
  <2> QED
    BY <2>1
<1>6. ASSUME NEW i \in from..(stop - 1) PROVE t[i] # NL
  <2>1. i \in 1..L /\ ~(i > L)
    BY <1>1, <1>4
  <2>2. getc(t, i) = t[i]
    BY <2>1, Zenon DEF getc
  <2> QED
    BY <1>4, <2>2
<1> QED
  BY <1>4, <1>5, <1>6

LEMMA FgetsGot ==
  ASSUME NEW t, IsText(t), NEW from \in 1..(Len(t) + 1), NEW n \in Nat \ {0}
  PROVE  Got(t, from, n, fgets(t, from, n))
<1> DEFINE stop == First(t, from, LAMBDA c : c \in {NL, EOF})
           end == IF stop - from >= n THEN from + n ELSE IF stop > Len(t) THEN stop ELSE stop + 1
           L == Len(t)
           g == fgets(t, from, n)
<1>1. /\ stop \in from..(L + 1)
      /\ stop <= L => t[stop] = NL
      /\ \A i \in from..(stop - 1) : t[i] # NL
  BY LineEnds
<1>2. g.at = end /\ g.line = SubSeq(t, from, end - 1)
  BY DEF fgets
<1>3. L \in Nat
  BY DEF IsText
<1> HIDE DEF stop, g, L
<1>4. from \in 1..(L + 1)
  BY DEF L
<1>5. stop \in Nat /\ from \in Nat /\ from <= stop /\ stop <= L + 1
  BY <1>1, <1>3, <1>4
<1>6. end = IF stop - from >= n THEN from + n ELSE IF stop > L THEN stop ELSE stop + 1
  BY DEF L
<1> HIDE DEF end
<1>7. end \in from..(L + 1) /\ end - from <= n /\ (from <= L => end > from)
  BY <1>3, <1>5, <1>6
<1>8. ASSUME NEW i \in from..(end - 2) PROVE t[i] # NL
  <2>1. i \in from..(stop - 1)
    BY <1>3, <1>5, <1>6
  <2> QED
    BY <1>1, <2>1
<1>9. end - from = n \/ end = L + 1 \/ (end > from /\ t[end - 1] = NL)
  <2>1. CASE stop - from >= n
    BY <1>5, <1>6, <2>1
  <2>2. CASE ~(stop - from >= n) /\ stop > L
    BY <1>3, <1>5, <1>6, <2>2
  <2>3. CASE ~(stop - from >= n) /\ ~(stop > L)
    <3>1. end = stop + 1 /\ stop <= L
      BY <1>3, <1>5, <1>6, <2>3
    <3>2. end - 1 = stop /\ end > from
      BY <1>5, <3>1
    <3> QED
      BY <1>1, <3>1, <3>2
  <2> QED
    BY <2>1, <2>2, <2>3
<1> QED
  BY <1>2, <1>7, <1>8, <1>9 DEF Got, g, L

LEMMA Spliced ==
  ASSUME NEW t \in Seq(Int), NEW a \in 1..(Len(t) + 1), NEW b \in a..(Len(t) + 1)
  PROVE  SubSeq(t, 1, a - 1) \o SubSeq(t, a, b - 1) = SubSeq(t, 1, b - 1)
<1> DEFINE c == SubSeq(t, 1, a - 1)
           d == SubSeq(t, a, b - 1)
           e == SubSeq(t, 1, b - 1)
           f == c \o d
<1>1. c \in Seq(Int) /\ Len(c) = a - 1 /\ \A i \in 1..(a - 1) : c[i] = t[i]
  <2> DEFINE m == a - 1
  <2>1. m \in Nat /\ m <= Len(t) /\ 1 <= m + 1 /\ 1 \in Nat \ {0} /\ (m + 1) - 1 = m /\ \A i \in 1..m : (1 + i) - 1 = i
    OBVIOUS
  <2> HIDE DEF m
  <2>2. /\ SubSeq(t, 1, m) \in Seq(Int) /\ Len(SubSeq(t, 1, m)) = (m + 1) - 1
        /\ \A i \in 1..((m + 1) - 1) : SubSeq(t, 1, m)[i] = t[(1 + i) - 1]
    BY <2>1, SubSeqIs
  <2>3. c = SubSeq(t, 1, m)
    BY DEF m
  <2> HIDE DEF c
  <2>4. c \in Seq(Int) /\ Len(c) = m /\ \A i \in 1..m : c[i] = t[i]
    BY <2>1, <2>2, <2>3
  <2> QED
    BY <2>4 DEF m
<1>2. e \in Seq(Int) /\ Len(e) = b - 1 /\ \A i \in 1..(b - 1) : e[i] = t[i]
  <2> DEFINE m == b - 1
  <2>1. m \in Nat /\ m <= Len(t) /\ 1 <= m + 1 /\ 1 \in Nat \ {0} /\ (m + 1) - 1 = m /\ \A i \in 1..m : (1 + i) - 1 = i
    OBVIOUS
  <2> HIDE DEF m
  <2>2. /\ SubSeq(t, 1, m) \in Seq(Int) /\ Len(SubSeq(t, 1, m)) = (m + 1) - 1
        /\ \A i \in 1..((m + 1) - 1) : SubSeq(t, 1, m)[i] = t[(1 + i) - 1]
    BY <2>1, SubSeqIs
  <2>3. e = SubSeq(t, 1, m)
    BY DEF m
  <2> HIDE DEF e
  <2>4. e \in Seq(Int) /\ Len(e) = m /\ \A i \in 1..m : e[i] = t[i]
    BY <2>1, <2>2, <2>3
  <2> QED
    BY <2>4 DEF m
<1>3. d \in Seq(Int) /\ Len(d) = b - a /\ \A i \in 1..(b - a) : d[i] = t[(a - 1) + i]
  <2> DEFINE m == b - 1
  <2>1. m \in Nat /\ m <= Len(t) /\ a <= m + 1 /\ a \in Nat \ {0} /\ (m + 1) - a = b - a /\ \A i \in 1..(b - a) : (a + i) - 1 = (a - 1) + i
    OBVIOUS
  <2> HIDE DEF m
  <2>2. /\ SubSeq(t, a, m) \in Seq(Int) /\ Len(SubSeq(t, a, m)) = (m + 1) - a
        /\ \A i \in 1..((m + 1) - a) : SubSeq(t, a, m)[i] = t[(a + i) - 1]
    BY <2>1, SubSeqIs
  <2>3. d = SubSeq(t, a, m)
    BY DEF m
  <2> HIDE DEF d
  <2> QED
    BY <2>1, <2>2, <2>3
<1> HIDE DEF c, d, e
<1>4. /\ f \in Seq(Int) /\ Len(f) = Len(c) + Len(d)
      /\ \A j \in 1..Len(c) : f[j] = c[j]
      /\ \A j \in 1..Len(d) : f[Len(c) + j] = d[j]
  BY <1>1, <1>3, TextsJoined, Zenon
<1> HIDE DEF f
<1>5. Len(f) = Len(e)
  BY <1>1, <1>2, <1>3, <1>4
<1>6. ASSUME NEW i \in 1..Len(f) PROVE f[i] = e[i]
  <2>1. CASE i <= a - 1
    <3>1. i \in 1..(a - 1) /\ i \in 1..(b - 1)
      BY <1>1, <1>3, <1>4, <2>1
    <3> QED
      BY <1>1, <1>2, <1>4, <3>1
  <2>2. CASE ~(i <= a - 1)
    <3> DEFINE j == i - (a - 1)
    <3>1. j \in 1..(b - a) /\ i \in 1..(b - 1) /\ (a - 1) + j = i
      BY <1>1, <1>3, <1>4, <2>2
    <3> HIDE DEF j
    <3>2. f[(a - 1) + j] = d[j]
      BY <1>1, <1>3, <1>4, <3>1
    <3>3. d[j] = t[(a - 1) + j] /\ e[i] = t[i]
      BY <1>2, <1>3, <3>1
    <3> QED
      BY <3>1, <3>2, <3>3
  <2> QED
    BY <2>1, <2>2
<1>7. f = e
  BY <1>2, <1>4, <1>5, <1>6, SameText
<1> QED
  BY <1>7 DEF c, d, e, f

(* The pieces of a text, one after the other.                               *)
PiecesOf(P, t, n) ==
  /\ P[0] = [line |-> <<>>, at |-> 1]
  /\ \A k \in 1..Len(t) : P[k] = fgets(t, P[k - 1].at, n)

LEMMA PiecesExist ==
  ASSUME NEW t, IsText(t), NEW n \in Nat \ {0},
         NEW P, P = CHOOSE p : p = [k \in 0..Len(t) |-> IF k = 0 THEN [line |-> <<>>, at |-> 1] ELSE fgets(t, p[k - 1].at, n)]
  PROVE  PiecesOf(P, t, n)
<1> DEFINE L == Len(t)
           S == [line : Seq(Int), at : 1..(L + 1)]
           F == [s \in S |-> fgets(t, s.at, n)]
           s0 == [line |-> <<>>, at |-> 1]
           Is(p) == p = [k \in 0..L |-> IF k = 0 THEN s0 ELSE fgets(t, p[k - 1].at, n)]
<1>1. L \in Nat /\ t \in Seq(Int)
  BY DEF IsText
<1>2. s0 \in S
  BY <1>1
<1>3. ASSUME NEW s \in S PROVE fgets(t, s.at, n) \in S
  <2> DEFINE from == s.at
             g == fgets(t, from, n)
  <2>1. from \in 1..(L + 1)
    OBVIOUS
  <2> HIDE DEF from
  <2>2. Got(t, from, n, g)
    BY <2>1, FgetsGot
  <2>3. \E end : g = [line |-> SubSeq(t, from, end - 1), at |-> end]
    BY DEF fgets
  <2>4. PICK end : g = [line |-> SubSeq(t, from, end - 1), at |-> end]
    BY <2>3
  <2>5. end \in from..(L + 1)
    <3>1. g.at = end
      BY <2>4
    <3> HIDE DEF g
    <3> QED
      BY <2>2, <3>1 DEF Got
  <2> DEFINE m == end - 1
  <2>6. from \in Nat \ {0} /\ m \in Nat /\ m <= Len(t) /\ from <= m + 1 /\ end \in 1..(L + 1)
    BY <1>1, <2>1, <2>5
  <2>7. SubSeq(t, from, m) \in Seq(Int)
    <3> HIDE DEF m
    <3> QED
      BY <1>1, <2>6, SubSeqIs
  <2>8. g \in S
    <3> HIDE DEF g
    <3> QED
      BY <2>4, <2>6, <2>7
  <2> QED
    BY <2>8 DEF g, from
<1> HIDE DEF S
<1>4. F \in [S -> S] /\ \A s \in S : F[s] = fgets(t, s.at, n)
  BY <1>3
<1> HIDE DEF F, s0
<1>5. PICK turn : Turns(turn, S, F, s0, L)
  BY <1>1, <1>2, <1>4, TurnsExist
<1>6. turn \in [0..L -> S] /\ turn[0] = s0 /\ \A k \in 1..L : turn[k] = F[turn[k - 1]]
  BY <1>5 DEF Turns
<1>7. ASSUME NEW k \in 1..L PROVE turn[k] = fgets(t, turn[k - 1].at, n)
  <2>1. k - 1 \in 0..L
    BY <1>1
  <2> QED
    BY <1>4, <1>6, <2>1, Zenon
<1>8. Is(turn)
  <2>1. ASSUME NEW k \in 0..L PROVE turn[k] = IF k = 0 THEN s0 ELSE fgets(t, turn[k - 1].at, n)
    <3>1. CASE k = 0
      BY <1>6, <3>1
    <3>2. CASE k # 0
      <4>1. k \in 1..L
        BY <1>1, <3>2
      <4> QED
        BY <1>7, <3>2, <4>1
    <3> QED
      BY <3>1, <3>2
  <2>2. turn = [k \in 0..L |-> turn[k]]
    BY <1>6
  <2> QED
    BY <2>1, <2>2
<1>9. P = CHOOSE p : Is(p)
  BY DEF s0
<1> HIDE DEF Is
<1>10. Is(P)
  BY <1>8, <1>9
<1>11. P[0] = s0
  <2>1. 0 \in 0..L
    BY <1>1
  <2> QED
    BY <1>10, <2>1 DEF Is
<1>12. ASSUME NEW k \in 1..L PROVE P[k] = fgets(t, P[k - 1].at, n)
  <2>1. k \in 0..L /\ k # 0
    BY <1>1
  <2> QED
    BY <1>10, <2>1 DEF Is
<1> QED
  BY <1>11, <1>12 DEF PiecesOf, s0

LEMMA PlacesAre ==
  ASSUME NEW t, IsText(t), NEW n \in Nat \ {0}, NEW P, PiecesOf(P, t, n)
  PROVE  /\ \A k \in 0..Len(t) : P[k].at \in 1..(Len(t) + 1) /\ (P[k].at = Len(t) + 1 \/ P[k].at >= k + 1)
         /\ \A k \in 1..Len(t) : Got(t, P[k - 1].at, n, P[k])
<1> DEFINE L == Len(t)
           A(k) == P[k].at \in 1..(L + 1) /\ (P[k].at = L + 1 \/ P[k].at >= k + 1)
           T == {k \in Nat : k <= L => A(k)}
<1>1. L \in Nat /\ P[0] = [line |-> <<>>, at |-> 1] /\ \A k \in 1..L : P[k] = fgets(t, P[k - 1].at, n)
  BY DEF PiecesOf, IsText
<1>2. ASSUME NEW k \in 1..L, P[k - 1].at \in 1..(L + 1) PROVE Got(t, P[k - 1].at, n, P[k])
  <2> DEFINE from == P[k - 1].at
  <2>1. P[k] = fgets(t, from, n)
    BY <1>1
  <2>2. from \in 1..(L + 1)
    BY <1>2
  <2> HIDE DEF from
  <2>3. Got(t, from, n, P[k])
    BY <2>1, <2>2, FgetsGot
  <2> QED
    BY <2>3 DEF from
<1>3. 0 \in T
  BY <1>1
<1>4. ASSUME NEW k \in T PROVE k + 1 \in T
  <2>1. k \in Nat /\ (k <= L => A(k))
    OBVIOUS
  <2>2. ASSUME k + 1 <= L PROVE A(k + 1)
    <3> DEFINE a == P[k].at
               b == P[k + 1].at
    <3>1. k + 1 \in 1..L /\ (k + 1) - 1 = k /\ k <= L
      BY <1>1, <2>1, <2>2
    <3>2. a \in 1..(L + 1) /\ (a = L + 1 \/ a >= k + 1)
      BY <2>1, <3>1
    <3>3. Got(t, a, n, P[k + 1])
      BY <1>2, <3>1, <3>2
    <3>4. b \in a..(L + 1) /\ (a <= L => b > a)
      BY <3>3 DEF Got
    <3> HIDE DEF a, b
    <3>5. b \in 1..(L + 1) /\ (b = L + 1 \/ b >= (k + 1) + 1)
      BY <1>1, <2>1, <3>2, <3>4
    <3> QED
      BY <3>5 DEF b
  <2> QED
    BY <2>1, <2>2
<1>5. \A k \in Nat : k \in T
  <2>1. T \in SUBSET Nat
    OBVIOUS
  <2> HIDE DEF T
  <2> QED
    BY <1>3, <1>4, <2>1, Induction
<1>6. ASSUME NEW k \in 0..L PROVE A(k)
  BY <1>1, <1>5
<1>7. ASSUME NEW k \in 1..L PROVE Got(t, P[k - 1].at, n, P[k])
  <2>1. k - 1 \in 0..L
    BY <1>1
  <2>2. P[k - 1].at \in 1..(L + 1)
    BY <1>6, <2>1
  <2> QED
    BY <1>2, <2>2
<1> QED
  BY <1>6, <1>7

(* Nothing is left after the end.                                           *)
LEMMA StaysAtEnd ==
  ASSUME NEW t, IsText(t), NEW n \in Nat \ {0}, NEW P, PiecesOf(P, t, n),
         NEW k \in 1..Len(t), P[k].at = Len(t) + 1, NEW m \in (k + 1)..Len(t)
  PROVE  P[m].at = Len(t) + 1 /\ P[m - 1].at = Len(t) + 1
<1> DEFINE L == Len(t)
           T == {j \in Nat : k + j <= L => P[k + j].at = L + 1}
<1>1. L \in Nat
  BY DEF IsText
<1>2. /\ \A j \in 0..L : P[j].at \in 1..(L + 1)
      /\ \A j \in 1..L : Got(t, P[j - 1].at, n, P[j])
  BY PlacesAre
<1>3. 0 \in T
  <2>1. k + 0 = k
    OBVIOUS
  <2> QED
    BY <2>1
<1>4. ASSUME NEW j \in T PROVE j + 1 \in T
  <2>1. j \in Nat /\ (k + j <= L => P[k + j].at = L + 1)
    OBVIOUS
  <2>2. ASSUME k + (j + 1) <= L PROVE P[k + (j + 1)].at = L + 1
    <3> DEFINE i == k + (j + 1)
    <3>1. i \in 1..L /\ i - 1 = k + j /\ k + j <= L
      BY <1>1, <2>1, <2>2
    <3> HIDE DEF i
    <3>2. Got(t, P[i - 1].at, n, P[i]) /\ P[i - 1].at = L + 1
      BY <1>2, <2>1, <3>1
    <3>3. P[i].at \in (L + 1)..(L + 1)
      BY <3>2 DEF Got
    <3>4. P[i].at = L + 1
      BY <1>1, <3>3
    <3> QED
      BY <3>4 DEF i
  <2> QED
    BY <2>1, <2>2
<1>5. \A j \in Nat : j \in T
  <2>1. T \in SUBSET Nat
    OBVIOUS
  <2> HIDE DEF T
  <2> QED
    BY <1>3, <1>4, <2>1, Induction
<1>6. m - k \in Nat /\ k + (m - k) = m /\ (m - 1) - k \in Nat /\ k + ((m - 1) - k) = m - 1 /\ m <= L /\ m - 1 <= L
  BY <1>1
<1> QED
  BY <1>5, <1>6

(* A piece of a text, from one place to the next.                           *)
PieceOf(t, from, at, line) ==
  /\ line \in Seq(Int) /\ Len(line) = at - from
  /\ \A j \in 1..(at - from) : line[j] = t[(from + j) - 1]
  /\ SubSeq(t, 1, from - 1) \o line = SubSeq(t, 1, at - 1)

LEMMA PieceIs ==
  ASSUME NEW t, IsText(t), NEW n \in Nat \ {0}, NEW from \in 1..(Len(t) + 1), NEW g, Got(t, from, n, g)
  PROVE  PieceOf(t, from, g.at, g.line)
<1> DEFINE m == g.at - 1
           at == g.at
<1>1. t \in Seq(Int) /\ Len(t) \in Nat
  BY DEF IsText
<1>2. at \in from..(Len(t) + 1) /\ g.line = SubSeq(t, from, m) /\ m = at - 1
  BY DEF Got
<1> HIDE DEF m, at
<1>3. from \in Nat \ {0} /\ m \in Nat /\ m <= Len(t) /\ from <= m + 1 /\ (m + 1) - from = at - from /\ at = m + 1
  BY <1>1, <1>2
<1>4. /\ SubSeq(t, from, m) \in Seq(Int) /\ Len(SubSeq(t, from, m)) = (m + 1) - from
      /\ \A i \in 1..((m + 1) - from) : SubSeq(t, from, m)[i] = t[(from + i) - 1]
  BY <1>1, <1>3, SubSeqIs
<1>5. SubSeq(t, 1, from - 1) \o SubSeq(t, from, at - 1) = SubSeq(t, 1, at - 1)
  BY <1>1, <1>2, Spliced
<1>6. /\ g.line \in Seq(Int) /\ Len(g.line) = at - from
      /\ \A j \in 1..(at - from) : g.line[j] = t[(from + j) - 1]
      /\ SubSeq(t, 1, from - 1) \o g.line = SubSeq(t, 1, at - 1)
  BY <1>2, <1>3, <1>4, <1>5, Zenon
<1> QED
  BY <1>6 DEF at, PieceOf

LEMMA CountOf ==
  ASSUME NEW L \in Nat, NEW pieces, DOMAIN pieces = 1..L, pieces = [k \in DOMAIN pieces |-> pieces[k]],
         \A k \in 1..L : pieces[k] \in Seq(Int)
  PROVE  Len(pieces) = L
<1>1. pieces \in [1..L -> Seq(Int)]
  <2>1. pieces = [k \in 1..L |-> pieces[k]]
    OBVIOUS
  <2> QED
    BY <2>1
<1>2. pieces \in Seq(Seq(Int))
  BY <1>1
<1> QED
  BY <1>2

LEMMA Flattened ==
  ASSUME NEW t, IsText(t), NEW n \in Nat \ {0}, NEW P, PiecesOf(P, t, n),
         NEW pieces, pieces = [k \in 1..Len(t) |-> P[k].line]
  PROVE  FlattenSeq(pieces) = t
<1> DEFINE L == Len(t)
<1>1. L \in Nat /\ t \in Seq(Int) /\ DOMAIN pieces = 1..L
  BY DEF IsText
<1>2. /\ \A k \in 0..L : P[k].at \in 1..(L + 1) /\ (P[k].at = L + 1 \/ P[k].at >= k + 1)
      /\ \A k \in 1..L : Got(t, P[k - 1].at, n, P[k])
  BY PlacesAre
<1>3. \A k \in 1..L : pieces[k] = P[k].line
  OBVIOUS
<1>4. ASSUME NEW k \in 1..L
      PROVE  pieces[k] \in Seq(Int) /\ SubSeq(t, 1, P[k - 1].at - 1) \o pieces[k] = SubSeq(t, 1, P[k].at - 1)
  <2> DEFINE from == P[k - 1].at
  <2>1. k - 1 \in 0..L
    BY <1>1
  <2>2. from \in 1..(L + 1) /\ Got(t, from, n, P[k])
    BY <1>2, <2>1
  <2> HIDE DEF from
  <2>3. PieceOf(t, from, P[k].at, P[k].line)
    BY <2>2, PieceIs
  <2>4. P[k].line \in Seq(Int) /\ SubSeq(t, 1, from - 1) \o P[k].line = SubSeq(t, 1, P[k].at - 1)
    BY <2>3, Zenon DEF PieceOf
  <2>5. pieces[k] = P[k].line
    BY <1>3
  <2> QED
    BY <2>4, <2>5, Zenon DEF from
<1>5. Len(pieces) = L
  <2>1. \A k \in 1..L : pieces[k] \in Seq(Int)
    BY <1>4
  <2>2. pieces = [k \in DOMAIN pieces |-> pieces[k]]
    BY <1>1
  <2> HIDE DEF L
  <2> QED
    BY <1>1, <2>1, <2>2, CountOf, Zenon
<1>6. CASE L = 0
  <2>1. FlattenSeq(pieces) = pieces
    BY <1>5, <1>6 DEF FlattenSeq
  <2>2. pieces = [k \in 1..0 |-> P[k].line] /\ t = <<>>
    BY <1>1, <1>6
  <2>3. pieces = <<>>
    BY <2>2
  <2> QED
    BY <2>1, <2>2, <2>3
<1>7. CASE L # 0
  <2> DEFINE Is(f) == f = [i \in 1..L |-> IF i = 1 THEN pieces[i] ELSE f[i - 1] \o pieces[i]]
             flat == CHOOSE f : Is(f)
             G(i) == SubSeq(t, 1, P[i].at - 1)
             g == [i \in 1..L |-> G(i)]
  <2>1. FlattenSeq(pieces) = flat[L]
    BY <1>5, <1>7 DEF FlattenSeq
  <2>2. G(0) = <<>>
    <3>1. P[0].at - 1 = 0
      BY DEF PiecesOf
    <3>2. 1 \in Nat \ {0} /\ 0 \in Nat /\ 0 <= Len(t) /\ 1 <= 0 + 1
      BY <1>1
    <3>3. SubSeq(t, 1, 0) \in Seq(Int) /\ Len(SubSeq(t, 1, 0)) = (0 + 1) - 1
      BY <1>1, <3>2, SubSeqIs, Zenon
    <3>4. SubSeq(t, 1, 0) = <<>>
      BY <3>3
    <3> QED
      BY <3>1, <3>4, Zenon
  <2>3. \A i \in 1..L : G(i) = G(i - 1) \o pieces[i]
    BY <1>4
  <2>4. G(1) = pieces[1]
    <3>1. 1 \in 1..L /\ 1 - 1 = 0
      BY <1>1, <1>7
    <3>2. G(1) = G(0) \o pieces[1]
      BY <2>3, <3>1
    <3>3. <<>> \o pieces[1] = pieces[1]
      BY <1>4, <3>1, ConcatEmptySeq
    <3> HIDE DEF G
    <3> QED
      BY <2>2, <3>2, <3>3
  <2> HIDE DEF G
  <2>5. Is(g)
    <3>1. ASSUME NEW i \in 1..L PROVE g[i] = IF i = 1 THEN pieces[i] ELSE g[i - 1] \o pieces[i]
      <4>1. CASE i = 1
        BY <2>4, <4>1
      <4>2. CASE i # 1
        <5>1. i - 1 \in 1..L
          BY <1>1, <4>2
        <5>2. g[i - 1] = G(i - 1) /\ g[i] = G(i)
          BY <5>1
        <5> HIDE DEF g
        <5> QED
          BY <2>3, <4>2, <5>2
      <4> QED
        BY <4>1, <4>2
    <3> QED
      BY <3>1
  <2> HIDE DEF g, Is
  <2>6. Is(flat)
    BY <2>5
  <2> HIDE DEF flat
  <2>7. \A i \in 1..L : flat[i] = IF i = 1 THEN pieces[i] ELSE flat[i - 1] \o pieces[i]
    BY <2>6 DEF Is
  <2> DEFINE T == {i \in Nat : i + 1 <= L => flat[i + 1] = G(i + 1)}
  <2>8. 0 \in T
    <3>1. 1 \in 1..L /\ 0 + 1 = 1
      BY <1>1, <1>7
    <3>2. flat[1] = G(1)
      BY <2>4, <2>7, <3>1
    <3> QED
      BY <3>1, <3>2
  <2>9. ASSUME NEW i \in T PROVE i + 1 \in T
    <3>1. i \in Nat /\ (i + 1 <= L => flat[i + 1] = G(i + 1))
      OBVIOUS
    <3>2. ASSUME (i + 1) + 1 <= L PROVE flat[(i + 1) + 1] = G((i + 1) + 1)
      <4> DEFINE j == (i + 1) + 1
      <4>1. j \in 1..L /\ j - 1 = i + 1 /\ j # 1 /\ i + 1 <= L
        BY <1>1, <3>1, <3>2
      <4> HIDE DEF j
      <4>2. flat[j] = flat[j - 1] \o pieces[j] /\ G(j) = G(j - 1) \o pieces[j]
        BY <2>3, <2>7, <4>1
      <4>3. flat[j] = G(j)
        BY <3>1, <4>1, <4>2
      <4> QED
        BY <4>3 DEF j
    <3> QED
      BY <3>1, <3>2
  <2>10. \A i \in Nat : i \in T
    <3>1. T \in SUBSET Nat
      OBVIOUS
    <3> HIDE DEF T
    <3> QED
      BY <2>8, <2>9, <3>1, Induction
  <2>11. flat[L] = G(L)
    <3>1. L - 1 \in Nat /\ (L - 1) + 1 = L
      BY <1>1, <1>7
    <3>2. L - 1 \in T
      BY <2>10, <3>1
    <3> HIDE DEF L
    <3>3. (L - 1) + 1 <= L => flat[(L - 1) + 1] = G((L - 1) + 1)
      BY <3>2
    <3>4. (L - 1) + 1 <= L
      BY <3>1
    <3> QED
      BY <3>1, <3>3, <3>4, Zenon
  <2>12. P[L].at = L + 1 /\ (L + 1) - 1 = L
    <3>1. L \in 0..L
      BY <1>1
    <3>2. P[L].at \in 1..(L + 1) /\ (P[L].at = L + 1 \/ P[L].at >= L + 1)
      BY <1>2, <3>1
    <3> DEFINE a == P[L].at
    <3> HIDE DEF a, L
    <3>3. a \in 1..(L + 1) /\ (a = L + 1 \/ a >= L + 1)
      BY <3>2 DEF a
    <3>4. a = L + 1 /\ (L + 1) - 1 = L
      BY <1>1, <3>3
    <3> QED
      BY <3>4 DEF a
  <2>13. G(L) = SubSeq(t, 1, L)
    BY <2>12 DEF G
  <2>14. SubSeq(t, 1, L) = t
    <3> HIDE DEF L
    <3>1. 1 \in Nat \ {0} /\ L \in Nat /\ L <= Len(t) /\ 1 <= L + 1 /\ (L + 1) - 1 = L /\ L = Len(t)
      BY <1>1 DEF L
    <3>2. /\ SubSeq(t, 1, L) \in Seq(Int) /\ Len(SubSeq(t, 1, L)) = (L + 1) - 1
          /\ \A i \in 1..((L + 1) - 1) : SubSeq(t, 1, L)[i] = t[(1 + i) - 1]
      BY <1>1, <3>1, SubSeqIs
    <3> DEFINE u == SubSeq(t, 1, L)
    <3>3. \A i \in 1..L : (1 + i) - 1 = i
      OBVIOUS
    <3> HIDE DEF u
    <3>4. u \in Seq(Int) /\ Len(u) = Len(t) /\ \A i \in 1..Len(u) : u[i] = t[i]
      BY <3>1, <3>2, <3>3 DEF u
    <3>5. u = t
      BY <1>1, <3>4, SameText
    <3> QED
      BY <3>5 DEF u
  <2> QED
    BY <2>1, <2>11, <2>13, <2>14
<1> QED
  BY <1>6, <1>7

LEMMA PiecesAreRight ==
  ASSUME NEW t, IsText(t), NEW n \in Nat \ {0}, NEW P, PiecesOf(P, t, n),
         NEW pieces, pieces = [k \in 1..Len(t) |-> P[k].line]
  PROVE  PiecesRight(pieces, t, n)
<1> DEFINE L == Len(t)
<1>1. L \in Nat /\ t \in Seq(Int) /\ DOMAIN pieces = 1..L
  BY DEF IsText
<1>2. /\ \A k \in 0..L : P[k].at \in 1..(L + 1)
      /\ \A k \in 1..L : Got(t, P[k - 1].at, n, P[k])
  BY PlacesAre
<1>3. ASSUME NEW k \in 1..L
      PROVE  LET from == P[k - 1].at  at == P[k].at IN
             /\ from \in 1..(L + 1) /\ at \in 1..(L + 1) /\ Got(t, from, n, P[k])
             /\ pieces[k] \in Seq(Int) /\ Len(pieces[k]) = at - from
             /\ \A j \in 1..(at - from) : pieces[k][j] = t[(from + j) - 1]
  <2> DEFINE from == P[k - 1].at
             at == P[k].at
  <2>1. k - 1 \in 0..L /\ k \in 0..L
    BY <1>1
  <2>2. from \in 1..(L + 1) /\ at \in 1..(L + 1) /\ Got(t, from, n, P[k])
    BY <1>2, <2>1
  <2> HIDE DEF from
  <2>6. PieceOf(t, from, at, P[k].line)
    BY <2>2, PieceIs
  <2>3. P[k].line \in Seq(Int) /\ Len(P[k].line) = at - from /\ \A j \in 1..(at - from) : P[k].line[j] = t[(from + j) - 1]
    BY <2>6, Zenon DEF PieceOf
  <2>4. pieces[k] = P[k].line
    OBVIOUS
  <2> HIDE DEF at
  <2>5. pieces[k] \in Seq(Int) /\ Len(pieces[k]) = at - from /\ \A j \in 1..(at - from) : pieces[k][j] = t[(from + j) - 1]
    BY <2>3, <2>4, Zenon
  <2> QED
    BY <2>2, <2>5 DEF from, at
<1>4. FlattenSeq(pieces) = t
  BY Flattened
<1>5. ASSUME NEW k \in DOMAIN pieces, pieces[k] # <<>>
      PROVE  /\ Len(pieces[k]) <= n
             /\ \A j \in 1..(Len(pieces[k]) - 1) : pieces[k][j] # NL
             /\ Len(pieces[k]) = n \/ Last(pieces[k]) = NL \/ \A m \in (k + 1)..Len(pieces) : pieces[m] = <<>>
  <2> DEFINE from == P[k - 1].at
             at == P[k].at
             piece == pieces[k]
  <2>0. k \in 1..L
    BY <1>1
  <2>1. /\ from \in 1..(L + 1) /\ at \in 1..(L + 1) /\ Got(t, from, n, P[k])
        /\ piece \in Seq(Int) /\ Len(piece) = at - from
        /\ \A j \in 1..(at - from) : piece[j] = t[(from + j) - 1]
    BY <1>3, <2>0
  <2>2. /\ at \in from..(L + 1) /\ at - from <= n
        /\ \A i \in from..(at - 2) : t[i] # NL
        /\ at - from = n \/ at = L + 1 \/ (at > from /\ t[at - 1] = NL)
    BY <2>1 DEF Got
  <2> HIDE DEF from, at
  <2>3. ASSUME NEW j \in 1..(Len(piece) - 1) PROVE piece[j] # NL
    <3> HIDE DEF piece
    <3>1. j \in 1..(at - from) /\ (from + j) - 1 \in from..(at - 2)
      BY <2>1, <2>2
    <3> QED
      BY <2>1, <2>2, <3>1
  <2>4. CASE at > from /\ t[at - 1] = NL
    <3> HIDE DEF piece
    <3>1. at - from \in 1..(at - from) /\ (from + (at - from)) - 1 = at - 1
      <4>1. from \in Int /\ at \in Int
        BY <1>1, <2>1
      <4> QED
        BY <2>4, <4>1
    <3>2. piece[at - from] = t[at - 1]
      BY <2>1, <3>1
    <3>3. Last(piece) = NL
      BY <2>1, <2>4, <3>2 DEF Last
    <3> QED
      BY <2>1, <2>2, <2>3, <3>3 DEF piece
  <2>5. CASE at = L + 1
    <3>1. ASSUME NEW m \in (k + 1)..Len(pieces) PROVE pieces[m] = <<>>
      <4>1. Len(pieces) = L
        <5>1. \A i \in 1..L : pieces[i] \in Seq(Int)
          BY <1>3
        <5>3. pieces = [i \in DOMAIN pieces |-> pieces[i]]
          OBVIOUS
        <5> HIDE DEF L
        <5> QED
          BY <1>1, <5>1, <5>3, CountOf, Zenon
      <4>2. m \in (k + 1)..L /\ m \in 1..L
        BY <1>1, <2>0, <4>1
      <4>3. P[m].at = L + 1 /\ P[m - 1].at = L + 1
        <5>1. P[k].at = L + 1
          BY <2>5 DEF at
        <5> QED
          BY <2>0, <4>2, <5>1, StaysAtEnd
      <4>4. pieces[m] \in Seq(Int) /\ Len(pieces[m]) = P[m].at - P[m - 1].at
        BY <1>3, <4>2
      <4>5. Len(pieces[m]) = 0
        BY <1>1, <4>3, <4>4
      <4> DEFINE u == pieces[m]
      <4> HIDE DEF u
      <4>6. u \in Seq(Int) /\ Len(u) = 0
        BY <4>4, <4>5 DEF u
      <4>7. u = <<>>
        BY <4>6
      <4> QED
        BY <4>7 DEF u
    <3>2. Len(piece) <= n
      BY <2>1, <2>2
    <3> QED
      BY <2>3, <3>1, <3>2 DEF piece
  <2>6. CASE at - from = n
    <3>2. Len(piece) <= n /\ Len(piece) = n
      BY <2>1, <2>2, <2>6
    <3> QED
      BY <2>3, <3>2 DEF piece
  <2> QED
    BY <2>2, <2>4, <2>5, <2>6
<1> QED
  BY <1>4, <1>5, Zenon DEF PiecesRight

(* gets() takes a line without its newline.                                 *)
LEMMA GetsIs ==
  ASSUME NEW t, IsText(t), NEW from \in 1..Len(t), NEW m \in from..Len(t), t[m] = NL, \A i \in from..(m - 1) : t[i] # NL
  PROVE  gets(t, from).at = m + 1 /\ gets(t, from).line = SubSeq(t, from, m - 1)
<1> DEFINE L == Len(t)
           n == L + 1
           g == fgets(t, from, n)
<1>1. L \in Nat /\ t \in Seq(Int)
  BY DEF IsText
<1>2. Got(t, from, n, g)
  <2>1. from \in 1..(Len(t) + 1) /\ n \in Nat \ {0}
    BY <1>1
  <2> HIDE DEF n
  <2> QED
    BY <2>1, FgetsGot
<1>3. gets(t, from) = [g EXCEPT !.line = SubSeq(@, 1, Len(@) - 1)]
  BY DEF gets
<1>4. g = [line |-> g.line, at |-> g.at]
  BY DEF fgets
<1> HIDE DEF g
<1>5. gets(t, from).at = g.at /\ gets(t, from).line = SubSeq(g.line, 1, Len(g.line) - 1)
  BY <1>3, <1>4
<1> DEFINE at == g.at
<1>6. /\ at \in from..(L + 1) /\ (from <= L => at > from)
      /\ g.line = SubSeq(t, from, at - 1)
      /\ \A i \in from..(at - 2) : t[i] # NL
      /\ at - from = n \/ at = L + 1 \/ (at > from /\ t[at - 1] = NL)
  BY <1>2 DEF Got
<1> HIDE DEF at
<1>7. from \in Nat \ {0} /\ m \in Nat /\ from <= m /\ m <= L /\ from <= L
  BY <1>1
<1>8. at - 1 = m
  <2>1. ~(m <= at - 2)
    <3>1. m <= at - 2 => m \in from..(at - 2)
      BY <1>6, <1>7
    <3> QED
      BY <1>6, <3>1
  <2>2. ~(at - 1 < m)
    <3>1. ASSUME at - 1 < m PROVE FALSE
      <4>1. at - 1 \in from..(m - 1) /\ at # L + 1 /\ at - from # n
        BY <1>1, <1>6, <1>7, <3>1
      <4> QED
        BY <1>6, <4>1
    <3> QED
      BY <3>1
  <2> QED
    BY <1>6, <1>7, <2>1, <2>2
<1>9. at = m + 1 /\ g.line = SubSeq(t, from, m)
  <2>1. at = m + 1
    BY <1>6, <1>7, <1>8
  <2> QED
    BY <1>6, <1>8, <2>1
<1> DEFINE a == SubSeq(t, from, m)
           b == SubSeq(t, from, m - 1)
           k == m - from
           c == SubSeq(a, 1, k)
<1>10. a \in Seq(Int) /\ Len(a) = k + 1 /\ \A i \in 1..(k + 1) : a[i] = t[(from + i) - 1]
  <2>1. m <= Len(t) /\ from <= m + 1 /\ (m + 1) - from = k + 1
    BY <1>7
  <2>2. /\ SubSeq(t, from, m) \in Seq(Int) /\ Len(SubSeq(t, from, m)) = (m + 1) - from
        /\ \A i \in 1..((m + 1) - from) : SubSeq(t, from, m)[i] = t[(from + i) - 1]
    BY <1>1, <1>7, <2>1, SubSeqIs
  <2> HIDE DEF k
  <2> QED
    BY <2>1, <2>2, Zenon
<1>11. b \in Seq(Int) /\ Len(b) = k /\ \A i \in 1..k : b[i] = t[(from + i) - 1]
  <2> DEFINE p == m - 1
  <2>1. p \in Nat /\ p <= Len(t) /\ from <= p + 1 /\ (p + 1) - from = k
    BY <1>7
  <2> HIDE DEF p
  <2>2. /\ SubSeq(t, from, p) \in Seq(Int) /\ Len(SubSeq(t, from, p)) = (p + 1) - from
        /\ \A i \in 1..((p + 1) - from) : SubSeq(t, from, p)[i] = t[(from + i) - 1]
    BY <1>1, <1>7, <2>1, SubSeqIs
  <2>3. b = SubSeq(t, from, p)
    BY DEF p
  <2> HIDE DEF k, b
  <2> QED
    BY <2>1, <2>2, <2>3, Zenon
<1>12. k \in Nat
  BY <1>7
<1> HIDE DEF a, b, k
<1>13. c \in Seq(Int) /\ Len(c) = k /\ \A i \in 1..k : c[i] = a[i]
  <2>1. 1 \in Nat \ {0} /\ k <= Len(a) /\ 1 <= k + 1 /\ (k + 1) - 1 = k /\ \A i \in 1..k : (1 + i) - 1 = i
    BY <1>10, <1>12
  <2>2. c \in Seq(Int) /\ Len(c) = (k + 1) - 1 /\ \A i \in 1..((k + 1) - 1) : c[i] = a[(1 + i) - 1]
    BY <1>10, <1>12, <2>1, SubSeqIs
  <2> HIDE DEF c
  <2> QED
    BY <2>1, <2>2
<1> HIDE DEF c
<1>14. \A i \in 1..Len(c) : c[i] = b[i]
  <2>1. \A i \in 1..k : i \in 1..(k + 1)
    BY <1>12
  <2> QED
    BY <1>10, <1>11, <1>13, <2>1
<1>15. c = b
  BY <1>11, <1>13, <1>14, SameText
<1>16. Len(a) - 1 = k
  BY <1>10, <1>12
<1>17. gets(t, from).line = SubSeq(a, 1, k)
  <2>1. g.line = a
    BY <1>9 DEF a
  <2> QED
    BY <1>5, <1>16, <2>1
<1> QED
  BY <1>5, <1>9, <1>15, <1>17 DEF c, b, at

(* A line to put has no newline in it and no end.                           *)
IsLine(x) == x \in Seq(Int) /\ \A i \in 1..Len(x) : x[i] # NL /\ x[i] # EOF

LEMMA TwoText ==
  ASSUME NEW x, IsLine(x), NEW y, IsLine(y), NEW all, all = Two(x, y)
  PROVE  IsText(all)
<1> DEFINE c == Len(x) + 1
           q == Len(y)
<1>1. x \in Seq(Int) /\ y \in Seq(Int) /\ c \in Nat /\ q \in Nat
  BY DEF IsLine
<1>2. /\ \A i \in 1..Len(x) : x[i] # EOF
      /\ \A i \in 1..Len(y) : y[i] # EOF
  BY DEF IsLine
<1>3. /\ all \in Seq(Int) /\ Len(all) = c + (q + 1)
      /\ \A j \in 1..Len(x) : all[j] = x[j]
      /\ all[c] = NL
      /\ \A j \in 1..q : all[c + j] = y[j]
      /\ all[c + (q + 1)] = NL
  BY <1>1, TwoIs
<1>4. NL # EOF
  BY DEF NL, EOF
<1>5. ASSUME NEW i \in 1..Len(all) PROVE all[i] # EOF
  <2>1. CASE i < c
    <3>1. i \in 1..Len(x)
      BY <1>1, <2>1
    <3> QED
      BY <1>2, <1>3, <3>1
  <2>2. CASE i = c
    BY <1>3, <1>4, <2>2
  <2>3. CASE c < i /\ i < c + (q + 1)
    <3> DEFINE j == i - c
    <3>1. j \in 1..q /\ c + j = i
      BY <1>1, <2>3
    <3> HIDE DEF c, j
    <3> QED
      BY <1>2, <1>3, <3>1 DEF q
  <2>4. CASE i = c + (q + 1)
    BY <1>3, <1>4, <2>4
  <2>5. i < c \/ i = c \/ (c < i /\ i < c + (q + 1)) \/ i = c + (q + 1)
    <3> HIDE DEF c, q
    <3> QED
      BY <1>1, <1>3
  <2> QED
    BY <2>1, <2>2, <2>3, <2>4, <2>5, Zenon
<1> QED
  BY <1>3, <1>5 DEF IsText

LEMMA BeginningText ==
  ASSUME NEW t, IsText(t), NEW n \in 0..Len(t)
  PROVE  IsText(SubSeq(t, 1, n)) /\ Len(SubSeq(t, 1, n)) = n
<1>1. t \in Seq(Int) /\ Len(t) \in Nat /\ \A i \in 1..Len(t) : t[i] # EOF
  BY DEF IsText
<1>2. 1 \in Nat \ {0} /\ n \in Nat /\ n <= Len(t) /\ 1 <= n + 1 /\ (n + 1) - 1 = n /\ \A i \in 1..n : (1 + i) - 1 = i /\ i \in 1..Len(t)
  BY <1>1
<1> DEFINE u == SubSeq(t, 1, n)
<1>3. u \in Seq(Int) /\ Len(u) = (n + 1) - 1 /\ \A i \in 1..((n + 1) - 1) : u[i] = t[(1 + i) - 1]
  BY <1>1, <1>2, SubSeqIs
<1> HIDE DEF u
<1>4. IsText(u) /\ Len(u) = n
  BY <1>1, <1>2, <1>3 DEF IsText
<1> QED
  BY <1>4 DEF u

(* What was put as two lines is got as these two.                           *)
LEMMA TwoGot ==
  ASSUME NEW x, IsLine(x), NEW y, IsLine(y), NEW all, all = Two(x, y), NEW line, line = gets(all, 1)
  PROVE  line.line = x /\ gets(all, line.at).line = y
<1> DEFINE p == Len(x)
           q == Len(y)
           c == p + 1
           L == Len(all)
<1>1. x \in Seq(Int) /\ y \in Seq(Int) /\ c \in Nat /\ p \in Nat /\ q \in Nat
  BY DEF IsLine
<1>2. /\ \A i \in 1..p : x[i] # NL
      /\ \A i \in 1..q : y[i] # NL
  BY DEF IsLine
<1>3. /\ all \in Seq(Int) /\ L = c + (q + 1)
      /\ \A j \in 1..p : all[j] = x[j]
      /\ all[c] = NL
      /\ \A j \in 1..q : all[c + j] = y[j]
      /\ all[c + (q + 1)] = NL
  BY <1>1, TwoIs
<1>4. IsText(all)
  BY TwoText
<1> HIDE DEF q, L
<1>5. line.at = c + 1 /\ line.line = SubSeq(all, 1, c - 1)
  <2>1. 1 \in 1..L /\ c \in 1..L /\ c - 1 = p
    BY <1>1, <1>3
  <2>2. \A i \in 1..(c - 1) : all[i] # NL
    BY <1>2, <1>3, <2>1
  <2> HIDE DEF p, c
  <2>3. gets(all, 1).at = c + 1 /\ gets(all, 1).line = SubSeq(all, 1, c - 1)
    BY <1>3, <1>4, <2>1, <2>2, GetsIs DEF L
  <2> QED
    BY <2>3
<1>6. gets(all, c + 1).line = SubSeq(all, c + 1, L - 1)
  <2> DEFINE d == c + 1
  <2>1. d \in 1..L /\ L \in d..L
    BY <1>1, <1>3
  <2>2. all[L] = NL
    BY <1>3
  <2>3. ASSUME NEW i \in d..(L - 1) PROVE all[i] # NL
    <3> DEFINE j == i - c
    <3>1. j \in 1..q /\ c + j = i
      BY <1>1, <1>3
    <3> HIDE DEF c, j
    <3> QED
      BY <1>2, <1>3, <3>1
  <2> HIDE DEF d, c
  <2>4. gets(all, d).line = SubSeq(all, d, L - 1)
    BY <1>4, <2>1, <2>2, <2>3, GetsIs DEF L
  <2> QED
    BY <2>4 DEF d
<1> DEFINE a == SubSeq(all, 1, c - 1)
           b == SubSeq(all, c + 1, L - 1)
<1>7. a = x
  <2>1. 1 \in Nat \ {0} /\ p <= Len(all) /\ 1 <= p + 1 /\ (p + 1) - 1 = p /\ \A i \in 1..p : (1 + i) - 1 = i
    BY <1>1, <1>3 DEF L
  <2>2. SubSeq(all, 1, p) \in Seq(Int) /\ Len(SubSeq(all, 1, p)) = (p + 1) - 1 /\ \A i \in 1..((p + 1) - 1) : SubSeq(all, 1, p)[i] = all[(1 + i) - 1]
    BY <1>1, <1>3, <2>1, SubSeqIs
  <2>3. a = SubSeq(all, 1, p)
    BY <1>1
  <2> HIDE DEF a
  <2>4. a \in Seq(Int) /\ Len(a) = Len(x) /\ \A i \in 1..Len(a) : a[i] = x[i]
    BY <1>3, <2>1, <2>2, <2>3
  <2> QED
    BY <1>1, <2>4, SameText
<1>8. b = y
  <2> DEFINE from == c + 1
             m == L - 1
  <2>1. from \in Nat \ {0} /\ m \in Nat /\ m <= Len(all) /\ from <= m + 1 /\ (m + 1) - from = q /\ \A i \in 1..q : (from + i) - 1 = c + i
    BY <1>1, <1>3 DEF L
  <2>2. b = SubSeq(all, from, m)
    OBVIOUS
  <2> HIDE DEF from, m, c
  <2>3. /\ SubSeq(all, from, m) \in Seq(Int) /\ Len(SubSeq(all, from, m)) = (m + 1) - from
        /\ \A i \in 1..((m + 1) - from) : SubSeq(all, from, m)[i] = all[(from + i) - 1]
    BY <1>3, <2>1, SubSeqIs
  <2>5. b \in Seq(Int) /\ Len(b) = q /\ \A i \in 1..q : b[i] = all[(from + i) - 1]
    BY <2>1, <2>2, <2>3
  <2> HIDE DEF b
  <2>6. \A i \in 1..q : b[i] = y[i]
    BY <1>3, <2>1, <2>5
  <2>4. b \in Seq(Int) /\ Len(b) = Len(y) /\ \A i \in 1..Len(b) : b[i] = y[i]
    BY <2>5, <2>6, Zenon DEF q
  <2> QED
    BY <1>1, <2>4, SameText
<1> QED
  BY <1>5, <1>6, <1>7, <1>8

(* All that is put and got, for two lines of any length, room for any part  *)
(* of them and pieces of any size.                                          *)
LEMMA LinesOf ==
  ASSUME NEW x, IsLine(x), NEW y, IsLine(y), NEW n \in Nat \ {0}, NEW room \in Nat
  PROVE  LinesRight(PutAndGot(x, y, n, room), <<x, y>>, [n |-> n, room |-> room])
<1> DEFINE all == Two(x, y)
           first == puts(Opened(room), x)
           second == puts([first EXCEPT !.ret = 0], y)
           text == second.text
           P == CHOOSE p : p = [k \in 0..Len(text) |-> IF k = 0 THEN [line |-> <<>>, at |-> 1] ELSE fgets(text, p[k - 1].at, n)]
           line == gets(text, 1)
           pieces == [k \in 1..Len(text) |-> P[k].line]
           got == <<line.line, gets(text, line.at).line>>
           m == IF room < Len(all) THEN room ELSE Len(all)
           r == PutAndGot(x, y, n, room)
           w == <<x, y>>
           f == [n |-> n, room |-> room]
<1>1. r = [text |-> text, ret |-> second.ret, pieces |-> pieces, lines |-> got]
  BY Zenon DEF PutAndGot
<1>2. x \in Seq(Int) /\ y \in Seq(Int)
  BY DEF IsLine
<1>3. /\ text = SubSeq(all, 1, m)
      /\ (second.ret = EOF) <=> (y # <<>> /\ m < Len(all) - 1)
  <2>1. all = Two(x, y) /\ m = IF room < Len(all) THEN room ELSE Len(all)
    OBVIOUS
  <2>2. first = puts(Opened(room), x) /\ second = puts([first EXCEPT !.ret = 0], y)
    OBVIOUS
  <2> HIDE DEF all, m, first, second
  <2>3. PutTwo(x, y, room, all, m, first, second)
    BY <2>1, <2>2, Zenon DEF PutTwo
  <2> QED
    BY <1>2, <2>3, TwoPut
<1>4. IsText(all)
  BY TwoText
<1>5. m \in 0..Len(all)
  BY <1>4 DEF IsText
<1> HIDE DEF all, second
<1>6. IsText(text) /\ Len(text) = m
  <2> HIDE DEF text, m
  <2> QED
    BY <1>3, <1>4, <1>5, BeginningText
<1> HIDE DEF text
<1>7. PiecesOf(P, text, n)
  <2> DEFINE Q == P
  <2> HIDE DEF Q
  <2> QED
    BY <1>6, PiecesExist
<1> HIDE DEF P
<1>8. PiecesRight(pieces, text, n)
  BY <1>6, <1>7, PiecesAreRight
<1> HIDE DEF pieces
<1>9. ASSUME text = all PROVE got = w
  <2>1. line.line = x /\ gets(text, line.at).line = y
    BY <1>9, TwoGot DEF all
  <2> QED
    BY <2>1
<1> HIDE DEF got, m, r
<1>10. /\ r.text = text /\ r.ret = second.ret /\ r.pieces = pieces /\ r.lines = got
       /\ f.n = n /\ f.room = room /\ w[1] = x /\ w[2] = y
  BY <1>1
<1> HIDE DEF f, w
<1>11. /\ r.text = SubSeq(all, 1, IF f.room < Len(all) THEN f.room ELSE Len(all))
       /\ (r.ret = EOF) = (w[2] # <<>> /\ Len(r.text) < Len(all) - 1)
       /\ PiecesRight(r.pieces, r.text, f.n)
       /\ r.text = all => r.lines = w
  <2>1. r.text = SubSeq(all, 1, IF f.room < Len(all) THEN f.room ELSE Len(all))
    BY <1>3, <1>10 DEF m
  <2>2. (r.ret = EOF) = (w[2] # <<>> /\ Len(r.text) < Len(all) - 1)
    BY <1>3, <1>6, <1>10
  <2>3. PiecesRight(r.pieces, r.text, f.n)
    BY <1>8, <1>10, Zenon
  <2>4. r.text = all => r.lines = w
    BY <1>9, <1>10
  <2> QED
    BY <2>1, <2>2, <2>3, <2>4, Zenon
<1>12. all = ((w[1] \o <<NL>>) \o w[2]) \o <<NL>>
  BY <1>10, Zenon DEF all, Two
<1>13. LinesRight(r, w, f)
  BY <1>11, <1>12, Zenon DEF LinesRight
<1> QED
  BY <1>13 DEF r, w, f

LEMMA StringsAreLines ==
  ASSUME NEW x \in Strings \cup {<<>>}
  PROVE  IsLine(x)
<1>1. CASE x \in Strings
  <2> DEFINE C == Int \ {NL, EOF}
  <2>1. x \in Seq(C)
    BY <1>1, SamplesAssumption
  <2>2. C \subseteq Int /\ \A c \in C : c # NL /\ c # EOF
    OBVIOUS
  <2> HIDE DEF C
  <2>3. Len(x) \in Nat /\ x \in [1..Len(x) -> C]
    BY <2>1
  <2>4. \A i \in 1..Len(x) : x[i] # NL /\ x[i] # EOF
    BY <2>2, <2>3
  <2>6. x \in [1..Len(x) -> Int]
    BY <2>2, <2>3
  <2>5. x \in Seq(Int)
    BY <2>3, <2>6
  <2> QED
    BY <2>4, <2>5 DEF IsLine
<1>2. CASE x = <<>>
  BY <1>2 DEF IsLine
<1> QED
  BY <1>1, <1>2

LinesKeep == call.op = "lines" => LinesRight(call.res, call.x, call.y)

LEMMA LinesCalled == LinesCall => LinesKeep'
<1> SUFFICES ASSUME LinesCall PROVE LinesKeep'
  OBVIOUS
<1>1. PICK x \in Strings \cup {<<>>}, y \in Strings \cup {<<>>}, n \in 1..4, room \in {0, 1, 3, 100} :
        Called("lines", <<x, y>>, [n |-> n, room |-> room], PutAndGot(x, y, n, room))
  BY Zenon DEF LinesCall
<1>2. IsLine(x) /\ IsLine(y) /\ n \in Nat \ {0} /\ room \in Nat
  BY StringsAreLines
<1> DEFINE r == PutAndGot(x, y, n, room)
           w == <<x, y>>
           f == [n |-> n, room |-> room]
<1>3. LinesRight(r, w, f)
  BY <1>2, LinesOf, Zenon
<1>4. Called("lines", w, f, r)
  BY <1>1, Zenon
<1> HIDE DEF r, w, f
<1>5. Answered("lines", w, f, r)
  BY <1>4, Operation, Zenon
<1>6. call'.x = w /\ call'.y = f /\ call'.res = r
  BY <1>5 DEF Answered
<1> QED
  BY <1>3, <1>6, Zenon DEF LinesKeep

LEMMA NoLinesCall ==
  ASSUME NEW op, Made(op), op # "lines"
  PROVE  LinesKeep'
<1>1. PICK x, y, r : Called(op, x, y, r)
  BY DEF Made
<1>2. call'.op = op
  BY <1>1 DEF Called
<1> QED
  BY <1>2 DEF LinesKeep

(* Of two lines put, of any length and with room for any part of them, the  *)
(* stream holds a beginning, and the last puts() fails if a character was   *)
(* left out other than the newline, which it does not test.  Read in        *)
(* pieces of any size this beginning loses nothing and a piece ends only    *)
(* where it should; and when all was put, gets() gives the lines again      *)
(* (stdio/PUTS.C, GETS.C).                                                  *)
THEOREM LinesAreRight == Spec => [](call.op = "lines" => LinesRight(call.res, call.x, call.y))
<1>1. Init => LinesKeep
  BY DEF Init, Idle, LinesKeep
<1>2. LinesKeep /\ [Next]_vars => LinesKeep'
  <2> SUFFICES ASSUME LinesKeep, [Next]_vars PROVE LinesKeep'
    OBVIOUS
  <2>1. CASE LinesCall
    BY <2>1, LinesCalled, Zenon
  <2>2. CASE Return
    BY <2>2 DEF Return, Idle, LinesKeep
  <2>3. CASE UNCHANGED vars
    BY <2>3 DEF vars, LinesKeep
  <2>4. CASE WordCall \/ LongCall \/ ShiftCall \/ BitFieldCall
    BY <2>4, MadeCalls, NoLinesCall
  <2>5. CASE SortCall \/ PutwCall \/ FormatCall \/ NumeralCall \/ LineCall \/ ExactCall
    BY <2>5, MadeCalls, NoLinesCall
  <2>6. CASE FloatCall \/ PartsCall \/ ToFloatCall
    BY <2>6, MadeCalls, NoLinesCall
  <2>7. CASE ClockCall \/ CpmClockCall
    <3>1. ClockCall => Made("localtime") \/ Made("ctime")
      BY Zenon DEF ClockCall, Made
    <3>2. CpmClockCall => Made("convtime")
      <4> SUFFICES ASSUME CpmClockCall PROVE Made("convtime")
        OBVIOUS
      <4>1. \E x, y, r : Called("convtime", x, y, r)
        BY SMT DEF CpmClockCall
      <4> QED
        BY <4>1 DEF Made
    <3> QED
      BY <2>7, <3>1, <3>2, NoLinesCall
  <2> QED
    BY <2>1, <2>2, <2>3, <2>4, <2>5, <2>6, <2>7 DEF Next
<1> QED
  BY <1>1, <1>2, PTL DEF Spec, LinesKeep
=============================================================================
