------------------------------ MODULE Calendar ------------------------------
(***************************************************************************)
(* Seconds since 1970 to dates (stdio/CTIME.C), and CP/M's dates, which    *)
(* count days from 1978, to seconds (cpm/CONVTIME.C).                      *)
(***************************************************************************)
EXTENDS Integers, Sequences, FiniteSets

CONSTANT LastYear  \* bound on the years tried, since 1900

(* Every year of four is a leap year until 2100. *)
ASSUME YearsAssumption == LastYear \in 71..200

monlen == <<31, 28, 31, 30, 31, 30, 31, 31, 30, 31, 30, 31>>
dylen(yr) == IF yr % 4 # 0 THEN 365 ELSE 366
MonLen(yr, mon) == IF mon = 1 THEN (IF yr % 4 = 0 THEN 29 ELSE 28) ELSE monlen[mon + 1]

(* cumday on arrival at a year, and at a month of it. *)
CumYear(yr) ==
  LET Years(days) == Cardinality({y \in 70..(yr - 1) : dylen(y) = days})
  IN 365 * Years(365) + 366 * Years(366)
CumMonth(yr) == LET cum[mon \in 0..12] == IF mon = 0 THEN 0 ELSE cum[mon - 1] + MonLen(yr, mon - 1)
                IN cum

gmtime(t) ==
  LET minutes == t \div 60
      hours == minutes \div 60
      day == hours \div 24
      yr == CHOOSE y \in 70..(LastYear - 1) : CumYear(y) <= day /\ day < CumYear(y + 1)
      yday == day - CumYear(yr)
      cum == CumMonth(yr)
      mon == CHOOSE m \in 0..11 : cum[m] <= yday /\ yday < cum[m + 1]
  IN [tm_sec |-> t % 60, tm_min |-> minutes % 60, tm_hour |-> hours % 24,
      tm_wday |-> (day + 4) % 7, tm_year |-> yr, tm_yday |-> yday,
      tm_mon |-> mon, tm_mday |-> yday - cum[mon] + 1]

localtime(t, time_zone) == gmtime(t - time_zone * 60)

(* The date in letters: the names by their number, and two digits a number. *)
Blank == -1
put2d(i, cl) == <<IF i \div 10 # 0 THEN i \div 10 ELSE cl, i % 10>>
asctime(tm) ==
  <<tm.tm_wday, tm.tm_mon, put2d(tm.tm_mday, Blank), put2d(tm.tm_hour, 0), put2d(tm.tm_min, 0),
    put2d(tm.tm_sec, 0), put2d(tm.tm_year \div 100 + 19, Blank), put2d(tm.tm_year % 100, 0)>>

(* CP/M's days are counted from 1, and its times are two digits a byte. *)
EPOCHLate == 2922
EPOCH == 2922 - 1
frmbcd(c) == (c % 16) + ((c \div 16) % 16) * 10
convtime(tod) ==
  (((tod.days + EPOCH) * 24 + frmbcd(tod.hour)) * 60 + frmbcd(tod.min)) * 60 + frmbcd(tod.sec)

-----------------------------------------------------------------------------
(* The days before a date, by the rules of the Gregorian calendar. *)
Leap(y) == y % 4 = 0 /\ (y % 100 # 0 \/ y % 400 = 0)
Leaps(y) == y \div 4 - y \div 100 + y \div 400
DaysOf(y, m) == IF m = 2 THEN (IF Leap(y) THEN 29 ELSE 28)
                ELSE IF m \in {4, 6, 9, 11} THEN 30 ELSE 31
Before == <<0, 31, 59, 90, 120, 151, 181, 212, 243, 273, 304, 334>>
DayNumber(y, m, d) ==
  365 * (y - 1970) + Leaps(y - 1) - Leaps(1969)
    + Before[m] + (IF m > 2 /\ Leap(y) THEN 1 ELSE 0) + d - 1

Denotes(tm, t) ==
  LET y == 1900 + tm.tm_year  m == tm.tm_mon + 1 IN
  /\ m \in 1..12 /\ tm.tm_mday \in 1..DaysOf(y, m)
  /\ tm.tm_hour \in 0..23 /\ tm.tm_min \in 0..59 /\ tm.tm_sec \in 0..59
  /\ t = ((DayNumber(y, m, tm.tm_mday) * 24 + tm.tm_hour) * 60 + tm.tm_min) * 60 + tm.tm_sec
  /\ tm.tm_wday = (4 + DayNumber(y, m, tm.tm_mday)) % 7
  /\ tm.tm_yday = DayNumber(y, m, tm.tm_mday) - DayNumber(y, 1, 1)

Number(digits) == (IF digits[1] = Blank THEN 0 ELSE digits[1]) * 10 + digits[2]
Reads(text, tm) ==
  /\ text[1] = tm.tm_wday /\ text[2] = tm.tm_mon
  /\ [k \in 1..4 |-> Number(text[k + 2])] = <<tm.tm_mday, tm.tm_hour, tm.tm_min, tm.tm_sec>>
  /\ 100 * Number(text[7]) + Number(text[8]) = 1900 + tm.tm_year
=============================================================================
