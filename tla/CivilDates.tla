------------------------------ MODULE CivilDates ------------------------------
(***************************************************************************)
(* The calendar dates the services compute with: YYYY-MM-DD strings in the *)
(* code, compared as strings, with arithmetic by Date.UTC.                 *)
(*                                                                         *)
(* A date is <<month, day>>, months counted from January of FirstYear.     *)
(***************************************************************************)
EXTENDS Integers, FiniteSetsExt

CONSTANTS FirstYear, MaxMonth    \* the calendar: months 0..MaxMonth
-----------------------------------------------------------------------------
IsLeap(y) == y % 4 = 0 /\ (y % 100 # 0 \/ y % 400 = 0)

DaysInMonth(m) ==
  LET y == FirstYear + (m \div 12)
      k == (m % 12) + 1
  IN  IF k = 2 THEN (IF IsLeap(y) THEN 29 ELSE 28)
      ELSE IF k \in {4, 6, 9, 11} THEN 30 ELSE 31

Before(x, y) == x[1] < y[1] \/ (x[1] = y[1] /\ x[2] < y[2])
NotAfter(x, y) == x = y \/ Before(x, y)

Smaller(a, b) == IF a <= b THEN a ELSE b

Dates == UNION {{<<m, d>> : d \in 1..DaysInMonth(m)} : m \in 0..(MaxMonth - 1)}

(* Day numbers, for whole-day arithmetic (Date.UTC and setUTCDate). *)
DaysBefore == [m \in 0..MaxMonth |-> MapThenSumSet(DaysInMonth, 0..(m - 1))]
DayNo(x) == DaysBefore[x[1]] + x[2]
DateOf == [n \in 1..DaysBefore[MaxMonth] |-> CHOOSE x \in Dates : DayNo(x) = n]

AddDays(x, n) == DateOf[DayNo(x) + n]

(* Seeded fault: the target month does not clamp the day. *)
AddMonthsUnclamped(x, n) == <<x[1] + n, x[2]>>

AddMonths(x, n) == <<x[1] + n, Smaller(x[2], DaysInMonth(x[1] + n))>>
=============================================================================
