---------------------------- MODULE Installation ----------------------------
(***************************************************************************)
(* The facts about an installation worked out from the dashboard and the    *)
(* statistics (installation.py): the length of its billing period and the   *)
(* bracket of its yearly consumption.                                       *)
(*                                                                         *)
(* A dashboard has the starts of the billing periods, the day the active    *)
(* meter was assembled, and whether a meter before it was disassembled.     *)
(* Statistics give each stored day the sum up to and including it.          *)
(***************************************************************************)
EXTENDS Bills

BILLING_PERIOD_MONTHS == {1, 2, 6, 12}
CAPACITY_BRACKET_LIMITS_KWH == <<500, 1200, 2800>>
NEW_CONNECTION_STATISTICS_SLACK == 7

CapacityBracket(kwh) ==
    CASE kwh < CAPACITY_BRACKET_LIMITS_KWH[1] -> 0
      [] kwh \in CAPACITY_BRACKET_LIMITS_KWH[1]..CAPACITY_BRACKET_LIMITS_KWH[2] -> 1
      [] kwh \in CAPACITY_BRACKET_LIMITS_KWH[2] + 1..CAPACITY_BRACKET_LIMITS_KWH[3] -> 2
      [] OTHER -> 3

(* _months, of the days between two boundaries.                             *)
PeriodMonths(days) ==
    LET months == WholeMonths(days)
        off == 100 * days - months * AVERAGE_MONTH_DAYS
    IN IF /\ months \in BILLING_PERIOD_MONTHS
          /\ off \in -100 * BILLING_PERIOD_TOLERANCE_DAYS..100 * BILLING_PERIOD_TOLERANCE_DAYS
       THEN months ELSE None

DetectBillingMonths(starts, previous, last) ==
    LET n == Len(starts)
        portal == IF n < 2 THEN None ELSE PeriodMonths(starts[n] - starts[n - 1])
        typed == IF previous = None \/ last = None THEN None
                 ELSE IF previous < last THEN PeriodMonths(last - previous) ELSE None
    IN IF portal # None THEN portal ELSE typed

(* _add_months; past the calendar's end there is no day.                    *)
AddMonths(day, months) ==
    IF MonthOf[day] + months \in CalendarMonths THEN SameDay(day, MonthOf[day] + months) ELSE None

YearBefore(day) == SameDay(day, MonthOf[day] - 12)

(* The start of the newest billing period whose opening reading the         *)
(* statistics reach, counted on from another start.                         *)
LastStart(from, months, until) ==
    LET start[d \in CalendarDays] ==
            LET following == AddMonths(d, months)
            IN IF following = None THEN d
               ELSE IF following - 1 <= until THEN start[following] ELSE d
    IN start[from]

(* latest_reading_day: the latest day a reading is known or counted for.    *)
LatestReadingDay(starts, last, until, months) ==
    LET newest == starts[Len(starts)]
        read == IF starts = <<>> THEN {}
                ELSE {newest - 1} \cup (IF months = None \/ until = None THEN {}
                                        ELSE {LastStart(newest, months, until) - 1})
        candidates == read \cup ({last} \ {None})
    IN IF candidates = {} THEN until ELSE Max(candidates)

-----------------------------------------------------------------------------
(* The yearly consumption. *)

SumOn(sums, day) ==
    LET days == {d \in DOMAIN sums : d <= day} IN IF days = {} THEN 0 ELSE sums[Max(days)]

Consumption(sums, since, until) == SumOn(sums, until) - SumOn(sums, since)

FirstStored(sums, until) == IF DOMAIN sums = {} THEN None ELSE Min(DOMAIN sums)

FirstDayOf(sums, until) ==
    LET days == {d \in DOMAIN sums : d <= until /\ sums[d] # 0} IN IF days = {} THEN None ELSE Min(days)

NewConnection(dashboard, since, first) ==
    /\ dashboard.assembled # None
    /\ ~dashboard.earlier
    /\ since < dashboard.assembled
    /\ first <= dashboard.assembled + NEW_CONNECTION_STATISTICS_SLACK

YearComplete(dashboard, since, first) ==
    first # None /\ (first <= since \/ NewConnection(dashboard, since, first))

(* async_detect_installation. *)
DetectInstallation(dashboard, previous, last, until, sums) ==
    LET months == DetectBillingMonths(dashboard.starts, previous, last)
        reading == LatestReadingDay(dashboard.starts, last, until, months)
        since == YearBefore(reading)
        kwh == Consumption(sums, since, reading)
        first == FirstDayOf(sums, reading)
        annual == IF reading = None \/ until = None THEN None
                  ELSE IF reading > until THEN None
                  ELSE IF YearComplete(dashboard, since, first) THEN [kwh |-> kwh, partial |-> FALSE]
                  ELSE IF first # None /\ CapacityBracket(kwh) = Len(CAPACITY_BRACKET_LIMITS_KWH)
                  THEN [kwh |-> kwh, partial |-> TRUE]
                  ELSE None
    IN [months |-> months, annual |-> annual, until |-> reading]

(* What is detected is what the customer is billed by.  The reading is one  *)
(* the statistics reach; the sum never puts the customer too high; a        *)
(* partial one has the bracket of all that was used in the year before the  *)
(* reading; a whole one has the bracket of what is stored of that year, if  *)
(* no meter of the connection was missed but for the days of slack; and a   *)
(* window between the boundaries of a detected period is charged as many    *)
(* months (installation.py:97-132, 187-299).                                *)
DetectedRight(detected, dashboard, previous, last, until, sums, stored, used) ==
    LET since == YearBefore(detected.until)
        year(f, days) == MapThenSumSet(LAMBDA d : f[d], DOMAIN f \cap days)
        slack == dashboard.assembled..dashboard.assembled + NEW_CONNECTION_STATISTICS_SLACK - 1
        n == Len(dashboard.starts)
        spans == (IF n < 2 THEN {} ELSE {dashboard.starts[n] - dashboard.starts[n - 1]})
                 \cup (IF previous = None THEN {} ELSE {last - previous})
    IN /\ detected.annual # None =>
              LET kwh == detected.annual.kwh
                  known == year(stored, since + 1..detected.until)
                  true == year(used, since + 1..detected.until)
              IN /\ detected.until <= until
                 /\ kwh <= true
                 /\ detected.annual.partial => CapacityBracket(kwh) = CapacityBracket(true)
                 /\ \/ detected.annual.partial
                    \/ CapacityBracket(kwh) = CapacityBracket(known)
                    \/ /\ ~dashboard.earlier
                       /\ dashboard.assembled # None /\ dashboard.assembled > since
                       /\ known - kwh = year(stored, {d \in slack : SumOn(sums, d) = 0})
       /\ detected.months # None =>
              \E days \in spans : IsWhole(days) /\ WholeMonths(days) = detected.months
=============================================================================
