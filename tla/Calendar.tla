------------------------------ MODULE Calendar ------------------------------
(***************************************************************************)
(* Days counted from the first of a month: Python's date and calendar, as   *)
(* billing.py and installation.py use them.                                 *)
(***************************************************************************)
EXTENDS Integers, Sequences

CONSTANTS
    MonthLengths,    \* days of each month, from the first month on
    None             \* no day, no fact, no zone

ASSUME CalendarAssumption ==
    /\ MonthLengths \in Seq(28..31)
    /\ None \notin Int

CalendarMonths == 1..Len(MonthLengths)

FirstDay[m \in 1..Len(MonthLengths) + 1] ==
    IF m = 1 THEN 1 ELSE FirstDay[m - 1] + MonthLengths[m - 1]

CalendarDays == 1..FirstDay[Len(MonthLengths) + 1] - 1

MonthOf == [d \in CalendarDays |->
               CHOOSE m \in CalendarMonths : FirstDay[m] <= d /\ d < FirstDay[m + 1]]

Least(a, b) == IF a < b THEN a ELSE b

(* The same day of another month, or its last when it is shorter.           *)
SameDay(day, month) ==
    FirstDay[month] + Least(day - FirstDay[MonthOf[day]], MonthLengths[month] - 1)
=============================================================================
