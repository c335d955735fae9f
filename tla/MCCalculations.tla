--------------------------- MODULE MCCalculations ---------------------------
(* Inputs of the calculations around their boundaries.                      *)
EXTENDS Calculations

TariffZones == {"day", "night", "peak"}
Year == <<31, 28, 31, 30, 31, 30, 31, 31, 30, 31, 30, 31>>
Lengths == Year \o [Year EXCEPT ![2] = 29] \o SubSeq(Year, 1, 3)
ShortDays == <<4, 5, 4, 3, 4>>

(* Three hours in zones of their own, two in one, or some without a price.  *)
HourZones == {<<"day", "night", "peak">>, <<"day", "night", "day">>,
              <<"night", None, "peak">>, <<None, None, "day">>}
Kwh(zones, kwh) == [h \in DOMAIN zones |-> [zone |-> zones[h], kwh |-> kwh[h]]]

SomeHours ==
    {[consumed |-> Kwh(zones, used), returned |-> Kwh(zones, returned), ratio |-> ratio, rate |-> rate] :
        zones \in HourZones, used \in [1..3 -> {0, 1, 3}], returned \in [1..3 -> {0, 1, 5}],
        ratio \in {7, 8}, rate \in [TariffZones -> {1, 2}]}

(* Windows around the ends of months and the tolerance for whole months.    *)
Spans == {1, 3, 16, 23, 24, 28, 29, 30, 31, 32, 37, 38, 54, 59, 61, 67, 68, 100, 365}

SomeWindows ==
    {[start |-> start, reading |-> start + one, end |-> start + one + two, first |-> first] :
        start \in {15, 30, 31, 32, 45, 58, 59, 60}, one \in Spans, two \in Spans, first \in {1, 40, 50, 75}}

(* Dashboards with no, one or two starts of periods, typed reading dates    *)
(* that say the same, more or less, and statistics up to day 500; then      *)
(* consumption on two days, the assembly and the first stored day around    *)
(* the beginning of the year it comes to, and its end.  Older versions of    *)
(* the integration may have stored zeroes for the days before; or one of    *)
(* the two days, or all from the second on, are not stored.                 *)
Until == 500
Starts == {<<>>, <<367, 427>>, <<397, 427>>, <<380, 427>>, <<62, 427>>, <<503>>}
Typed == {[previous |-> None, last |-> None], [previous |-> None, last |-> 510], [previous |-> 395, last |-> 425]}

ReadingOf(starts, typed) ==
    LatestReadingDay(starts, typed.last, Until, DetectBillingMonths(starts, typed.previous, typed.last))

Years ==
    {[starts |-> starts, typed |-> typed, reading |-> ReadingOf(starts, typed),
      since |-> YearBefore(ReadingOf(starts, typed))] : starts \in Starts, typed \in Typed}

(* Days are counted from the beginning of the year, or around its end.      *)
Household(year, assembled, earlier, from, one, two, gaps, zeroes, kwh, more) ==
    [dashboard |-> [starts |-> year.starts, earlier |-> earlier,
                    assembled |-> IF assembled = None THEN None ELSE year.since + assembled],
     previous |-> year.typed.previous, last |-> year.typed.last, until |-> Until,
     used |-> (year.since + one :> kwh)
              @@ (<<year.since + 97, year.since + 98, year.reading, year.reading + 1>>[two] :> more),
     from |-> year.since + from, zeroes |-> {year.since + day : day \in {z \in zeroes : z < from}},
     gaps |-> IF gaps = "none" THEN {} ELSE IF gaps = "one" THEN {year.since + one}
              ELSE year.since + 97..year.reading + 1]

HouseholdsOf(assembled, from, one, gaps, zeroes, kwh, more) ==
    {x \in {Household(year, day, earlier, first, used, two, gap, zero, less, many) :
                year \in Years, day \in assembled, earlier \in BOOLEAN, first \in from, used \in one,
                two \in 1..4, gap \in gaps, zero \in zeroes, less \in kwh, many \in more} :
        x.dashboard.assembled = None \/ x.dashboard.earlier
            \/ \A d \in DOMAIN x.used : d < x.dashboard.assembled => x.used[d] = 0}

SomeHouseholds ==
    HouseholdsOf({None, 0, 1, 90}, {0, 1, 8, 97, 98}, {0, 1, 92}, {"none"}, {{}, {-50, 92}}, {0, 1000}, {500, 1801, 2801})
    \cup HouseholdsOf({None, 1}, {0, 8}, {1, 92}, {"one", "two"}, {{}}, {1000}, {1801, 2801})

(* Up to three days, with one of 25 and one of 23 hours among five, the     *)
(* clock changing after any hour, and an assembly at every half hour.       *)
DaysAsked == {days \in Days \X Days : days[1] <= days[2] /\ days[2] <= days[1] + 2}

AnswersFor(first, last) ==
    {[first |-> first, last |-> last, assembly |-> assembly, back |-> back, forward |-> forward, sums |-> sums] :
        assembly \in {NoTime} \cup 2 * DayStart[first]..2 * DayStart[last + 1] - 1,
        back \in 1..HoursPerDay, forward \in 1..HoursPerDay, sums \in {FALSE, first # last}}

SomeAnswers == UNION {AnswersFor(days[1], days[2]) : days \in DaysAsked}

(* Any days with data among ten.                                            *)
SomeHistories == [data : SUBSET (1..10), newest : 8..12]
=============================================================================
