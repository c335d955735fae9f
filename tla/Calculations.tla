---------------------------- MODULE Calculations ----------------------------
(***************************************************************************)
(* The calculations that keep no state, on inputs taken one at a time.      *)
(***************************************************************************)
EXTENDS Installation, DayHours, HistoryScan

CONSTANTS
    MeteredHours,    \* hours of consumption and return, with the ratio and the rates they are settled by
    BillWindows,     \* three days of reading, and the first with prices
    Households,      \* dashboards, typed reading dates, consumption and what is stored of it
    Answers,         \* days asked for, the clock changes and the assembly of the meter
    Histories        \* the days the portal has, and the newest to import

(* The hours of a bill, each in a zone or in none that has a price.         *)
AreHours(hours) ==
    /\ IsFiniteSet(DOMAIN hours)
    /\ \A h \in DOMAIN hours : hours[h].kwh \in Nat /\ hours[h].zone \in Zones \cup {None}

ASSUME MeteredHoursAssumption ==
    \A x \in MeteredHours :
        AreHours(x.consumed) /\ AreHours(x.returned) /\ x.ratio \in Nat /\ x.rate \in [Zones -> Int]

ASSUME BillWindowsAssumption ==
    \A x \in BillWindows :
        /\ {x.start, x.reading, x.end, x.end + 1} \subseteq CalendarDays
        /\ x.start < x.reading /\ x.reading < x.end /\ x.first \in Int

(* What was used is known by the day, and sums are stored from a day on but *)
(* for some days, the gaps: any of the active statistics may be the one that *)
(* is stored until a day, and consumption may lag behind it, be switched    *)
(* off, or have missed days whose requests failed.  The zeroes of before    *)
(* are what older versions stored.  Without a meter before                  *)
(* the active one nothing was used until it was assembled.  The calendar    *)
(* reaches a year before the days a reading may be on.                      *)
HasYearBefore(day) == day \in CalendarDays /\ MonthOf[day] > 12

ASSUME HouseholdsAssumption ==
    \A x \in Households :
        LET starts == x.dashboard.starts
            assembled == x.dashboard.assembled
        IN /\ starts \in Seq(CalendarDays) /\ (starts # <<>> => HasYearBefore(starts[Len(starts)] - 1))
           /\ {x.previous, x.last, x.until} \subseteq CalendarDays \cup {None}
           /\ \A day \in {x.last, x.until} \ {None} : HasYearBefore(day)
           /\ IsFiniteSet(DOMAIN x.used) /\ \A d \in DOMAIN x.used : d \in Int /\ x.used[d] \in Nat
           /\ x.from \in Int /\ IsFiniteSet(x.zeroes) /\ \A d \in x.zeroes : d \in Int /\ d < x.from
           /\ assembled \in Int \cup {None} /\ x.dashboard.earlier \in BOOLEAN
           /\ assembled # None /\ ~x.dashboard.earlier
                  => \A d \in DOMAIN x.used : d < assembled => x.used[d] = 0

(* The meter was assembled on one of the days, or it does not matter when.  *)
ASSUME AnswersAssumption ==
    \A x \in Answers :
        /\ x.first \in Days /\ x.last \in Days /\ x.back \in 1..HoursPerDay /\ x.forward \in 1..HoursPerDay
        /\ x.sums \in BOOLEAN
        /\ x.assembly # NoTime => x.assembly \in Int /\ \E d \in Days : x.assembly \div 2 \in HoursOf(d)

ASSUME HistoriesAssumption == \A x \in Histories : x.data \in SUBSET Nat /\ x.newest \in Int

VARIABLE input

Init == input = [kind |-> "none"]

Waiting == input.kind = "none"

TakeHours == Waiting /\ \E x \in MeteredHours : input' = [kind |-> "hours", of |-> x]
TakeWindows == Waiting /\ \E x \in BillWindows : input' = [kind |-> "windows", of |-> x]
TakeFacts == Waiting /\ \E x \in Households : input' = [kind |-> "facts", of |-> x]
TakeAnswer == Waiting /\ \E x \in Answers : input' = [kind |-> "answer", of |-> x]
TakeHistory == Waiting /\ \E x \in Histories : input' = [kind |-> "history", of |-> x]

Next == TakeHours \/ TakeWindows \/ TakeFacts \/ TakeAnswer \/ TakeHistory

Spec == Init /\ [][Next]_input

-----------------------------------------------------------------------------
(* Net metering conserves energy and credit (billing.py:203-228).           *)
NetMeteringConserves ==
    input.kind = "hours" =>
        Conserves(input.of.consumed, input.of.returned, input.of.ratio, input.of.rate)

(* Consecutive bills add up (billing.py:389-437).                           *)
BillsAddUp ==
    input.kind = "windows" =>
        AddUp(input.of.start, input.of.reading, input.of.end, {d \in CalendarDays : d >= input.of.first})

(* The sums stored for consumption from a day on, and zeroes of before.     *)
SumsOf(used, from, zeroes) ==
    [d \in {from} \cup zeroes \cup {e \in DOMAIN used : from <= e} |->
        MapThenSumSet(LAMBDA e : used[e], {e \in DOMAIN used : from <= e /\ e <= d})]

Stored(x) == Restrict(x.used, DOMAIN x.used \ x.gaps)

Detected(x) ==
    DetectInstallation(x.dashboard, x.previous, x.last, x.until, SumsOf(Stored(x), x.from, x.zeroes))

RightBy(x, stored) ==
    DetectedRight(Detected(x), x.dashboard, x.previous, x.last, x.until,
                  SumsOf(Stored(x), x.from, x.zeroes), stored, x.used)

(* The facts detected are those the customer is billed by, as far as the    *)
(* consumption is stored (installation.py:97-299).                          *)
FactsAreRight == input.kind = "facts" => RightBy(input.of, Stored(input.of))

(* "It is read from the energy statistics, so it needs them to reach that   *)
(* day" (installation.py:263-264): the facts are right by all that was      *)
(* used.  No passing run checks it: the code asks it of the newest day of   *)
(* any active statistic, and consumption may be stored only up to an        *)
(* earlier one.                                                             *)
FactsAreOfTheYear == input.kind = "facts" => RightBy(input.of, input.of.used)

(* An answer gives every hour of its days once (parsing.py:41-186).         *)
DaysAreWhole ==
    input.kind = "answer" =>
        LET x == input.of
        IN WholeDays(RangeAnswer(x.first, x.last, x.back, x.forward, x.sums), x.first..x.last, x.assembly, x.back)

(* No hour is kept that ended before the meter was assembled                *)
(* (parsing.py:170-171).  No passing run checks it: a meter assembled in the *)
(* second of two repeated hours keeps the first.                            *)
AssemblyIsExact ==
    input.kind = "answer" =>
        LET x == input.of
        IN NoneBefore(RangeAnswer(x.first, x.last, x.back, x.forward, x.sums), x.first..x.last, x.assembly, x.back)

(* Only a long gap hides older history (coordinator.py:985-1029).           *)
ScanFindsHistory == input.kind = "history" => FindsHistory(input.of.data, input.of.newest)
=============================================================================
