------------------------------ MODULE Rfc3339 -------------------------------
(***************************************************************************)
(* src/libsol/rfc3339.c: the date and the time of day of a timestamp, for  *)
(* days whose intermediate results fit 31 bits (up to the year 29000).     *)
(***************************************************************************)
EXTENDS Integers, Sequences, Loop

(* Days of a year that starts in March before the month, from January on   *)
(* for the first two.                                                      *)
DayOffset == <<306, 337, 0, 31, 61, 92, 122, 153, 184, 214, 245, 275>>

(* The days before the year 29000 or so, and the seconds of a day.         *)
Days == {day \in Nat : 200 * (day + 306) <= 2147483647}
Seconds == {second \in Nat : second < 86400}

Date(y, m, d) == [rc |-> 0, y |-> y, m |-> m, d |-> d]
NoDate == [rc |-> 1, y |-> 0, m |-> 0, d |-> 0]

(* Mutant of Centuries: a century is 36525 days.                           *)
JulianCenturies(Z) == (100 * Z - 25) \div 3652500

(* A: the centuries before the day.                                        *)
Centuries(Z) == (100 * Z - 25) \div 3652425

rdn_to_ymd(rdn) ==
    LET Z == rdn + 306
        A == Centuries(Z)
        B == A - (A \div 4)
        year == (100 * B + (100 * Z - 25)) \div 36525
        d == (B + Z) - ((1461 * year) \div 4)
        month == (535 * d + 48950) \div 16384
        y == IF month > 12 THEN year + 1 ELSE year
        m == IF month > 12 THEN month - 12 ELSE month
    IN  IF y > 9999 \/ m > 12 \/ d > 31 + DayOffset[m] THEN NoDate
        ELSE Date(y, m, d - DayOffset[m])

(* What rfc3339_format takes from the right end of the buffer: seconds,    *)
(* minutes and hours, two digits each.                                     *)
TimeDigits(second) ==
    LET s10 == second \div 10
        minutes == s10 \div 6
        m10 == minutes \div 10
        hours == m10 \div 6
    IN  <<(hours \div 10) % 10, hours % 10, m10 % 6, minutes % 10,
          s10 % 6, second % 10>>

-----------------------------------------------------------------------------
(* The calendar.                                                           *)

IsLeap(y) == y % 4 = 0 /\ (y % 100 # 0 \/ y % 400 = 0)

MonthLength(y, m) ==
    IF m = 2 THEN (IF IsLeap(y) THEN 29 ELSE 28)
    ELSE IF m \in {4, 6, 9, 11} THEN 30 ELSE 31

DaysBeforeYear(y) ==
    365 * (y - 1) + ((y - 1) \div 4) - ((y - 1) \div 100)
    + ((y - 1) \div 400)

(* A month after the other.                                                *)
DaysBeforeMonth(y, m) ==
    After([s \in [month : Nat, days : Nat] |->
              [month |-> s.month + 1,
               days |-> s.days + MonthLength(y, s.month)]],
          [month |-> 1, days |-> 0])[m - 1].days

(* The number of a date, 1 for the first day of the year 1.                *)
DayNumber(y, m, d) == DaysBeforeYear(y) + DaysBeforeMonth(y, m) + d
=============================================================================
