------------------------------- MODULE Bills -------------------------------
(***************************************************************************)
(* The arithmetic of a bill estimate (billing.py): the kWh of each zone and *)
(* how net metering settles them, and the months its fees are charged for.  *)
(* The prices, and the rounding of the amounts made with them, are left     *)
(* out.                                                                     *)
(***************************************************************************)
EXTENDS Calendar, FiniteSetsExt, SequencesExt

CONSTANT Zones    \* of the tariff, under the names they are shown by

ASSUME ZonesAssumption == IsFiniteSet(Zones) /\ None \notin Zones

-----------------------------------------------------------------------------
(* Net metering.  Energy is counted in tenths of a kWh and the ratio, 0.8 or *)
(* 0.7, in tenths; the rounding to three places never bites.  hours gives    *)
(* each hour's kWh and its zone, None when the tariff has no price for it.   *)

(* _add_hours: what each zone gets, and what no zone does.                  *)
KwhIn(hours, z) == MapThenSumSet(LAMBDA h : hours[h].kwh, {h \in DOMAIN hours : hours[h].zone = z})
KwhByZone(hours) == [z \in Zones |-> KwhIn(hours, z)]
UnpricedKwh(hours) == KwhIn(hours, None)

Total(byZone) == MapThenSumSet(LAMBDA z : byZone[z], Zones)

ByRateUp(rate) ==
    CHOOSE order \in SetToSeqs(Zones) :
        \A i, j \in DOMAIN order : i < j => rate[order[i]] <= rate[order[j]]

(* The zones from the highest variable network rate down.                   *)
ByRate(rate) ==
    CHOOSE order \in SetToSeqs(Zones) :
        \A i, j \in DOMAIN order : i < j => rate[order[i]] >= rate[order[j]]

Credit(returned, ratio) == [z \in Zones |-> returned[z] * ratio]

(* What a zone has to pay for after its own returned energy.                *)
OwnBilled(consumed, credit) ==
    [z \in Zones |-> 10 * consumed[z] - Least(10 * consumed[z], credit[z])]

(* settle_net_metering: each zone's credit goes to its own consumption      *)
(* first, what is left of all of them to the zones in order.                *)
SettleNetMetering(consumed, returned, ratio, order) ==
    LET credit == Credit(returned, ratio)
        own == OwnBilled(consumed, credit)
        surplus == Total(credit) - (10 * Total(consumed) - Total(own))
        left[i \in 0..Len(order)] ==
            IF i = 0 THEN surplus ELSE left[i - 1] - Least(own[order[i]], left[i - 1])
        place(z) == CHOOSE i \in DOMAIN order : order[i] = z
    IN [billed |-> [z \in Zones |-> own[z] - (left[place(z) - 1] - left[place(z)])],
        left |-> left[Len(order)]]

(* Every consumed kWh is billed, set against a credit or counted as         *)
(* unpriced, exactly once, and every credit used once or left over; nothing *)
(* is left over while something is billed; no zone is billed more than it   *)
(* consumed; and a zone gets another's surplus only when all dearer ones    *)
(* are settled (billing.py:203-228, 250-283, 345-371).                      *)
Conserves(consumedHours, returnedHours, ratio, rate) ==
    LET consumed == KwhByZone(consumedHours)
        returned == KwhByZone(returnedHours)
        credit == Credit(returned, ratio)
        own == OwnBilled(consumed, credit)
        settled == SettleNetMetering(consumed, returned, ratio, ByRate(rate))
    IN /\ Total(consumed) + UnpricedKwh(consumedHours)
              = MapThenSumSet(LAMBDA h : consumedHours[h].kwh, DOMAIN consumedHours)
       /\ Total(settled.billed) - settled.left = 10 * Total(consumed) - Total(credit)
       /\ settled.left >= 0 /\ (settled.left > 0 => Total(settled.billed) = 0)
       /\ \A z \in Zones : settled.billed[z] \in 0..own[z]
       /\ \A y, z \in Zones : rate[y] < rate[z] /\ settled.billed[y] < own[y] => settled.billed[z] = 0

-----------------------------------------------------------------------------
(* Months of a window (start, end].  Days are in hundredths where the length *)
(* of an average month, 30.44, comes in.                                     *)

AVERAGE_MONTH_DAYS == 3044
BILLING_PERIOD_TOLERANCE_DAYS == 7

(* Months of the calendar are average ones, give or take less than the      *)
(* tolerance: any number of them in a row, over a century.                  *)
ASSUME MonthsAssumption ==
    \A first, last \in 1..Len(MonthLengths) + 1 :
        100 * (FirstDay[last] - FirstDay[first]) - (last - first) * AVERAGE_MONTH_DAYS
            \in -100 * BILLING_PERIOD_TOLERANCE_DAYS..100 * BILLING_PERIOD_TOLERANCE_DAYS

(* round(days / AVERAGE_MONTH_DAYS); halves do not occur.                   *)
WholeMonths(days) == (200 * days + AVERAGE_MONTH_DAYS) \div (2 * AVERAGE_MONTH_DAYS)

(* The window is charged whole months: there is a whole_month_share.        *)
IsWhole(days) ==
    /\ WholeMonths(days) > 0
    /\ 100 * days - WholeMonths(days) * AVERAGE_MONTH_DAYS
           \in -100 * BILLING_PERIOD_TOLERANCE_DAYS..100 * BILLING_PERIOD_TOLERANCE_DAYS

(* A common multiple of the lengths of months, to add days of them up.      *)
Parts == 28 * 29 * 15 * 31

(* distribution_months as a fraction.  priced are the days with prices.     *)
DistributionMonths(start, end, priced) ==
    LET days == (start + 1)..end \cap priced
    IN IF IsWhole(end - start)
       THEN [of |-> WholeMonths(end - start) * Cardinality(days), parts |-> end - start]
       ELSE [of |-> MapThenSumSet(LAMBDA m : Cardinality({d \in days : MonthOf[d] = m}) * (Parts \div MonthLengths[m]),
                                  {MonthOf[d] : d \in days}),
             parts |-> Parts]

FromStart(start, end, priced) == {MonthOf[d] : d \in (start + 1)..end \cap priced}

(* charged_months: those after the month of the previous reading, or the    *)
(* last one when there are none.                                            *)
ChargedMonths(start, end, priced) ==
    LET months == FromStart(start, end, priced)
        later == {m \in months : m > MonthOf[start]}
    IN IF later # {} \/ months = {} THEN later ELSE {Max(months)}

EndsMonth(day) == MonthOf[day + 1] > MonthOf[day]

(* Each month is charged once by two bills in a row, start to reading to    *)
(* end, when both reach another month; except one whose prices only begin   *)
(* after its reading, which neither charges.                                *)
MonthsOnce(start, reading, end, priced) ==
    LET one == ChargedMonths(start, reading, priced)
        two == ChargedMonths(reading, end, priced)
    IN /\ MonthOf[start] < MonthOf[reading] /\ MonthOf[reading] < MonthOf[end]
       /\ MonthOf[reading] \in FromStart(reading, end, priced)
              => MonthOf[reading] \in FromStart(start, reading, priced)
       => one \cap two = {} /\ one \cup two = ChargedMonths(start, end, priced)

(* The months of whole windows add up, when all is a whole window too.      *)
WindowsAdd(start, reading, end) ==
    IsWhole(reading - start) /\ IsWhole(end - reading) /\ IsWhole(end - start)
    => WholeMonths(end - start) = WholeMonths(reading - start) + WholeMonths(end - reading)

(* Calendar months are charged as so many, by the month or by the day.      *)
CalendarCharged(start, end) ==
    LET all == DistributionMonths(start, end, CalendarDays)
    IN EndsMonth(start) /\ EndsMonth(end) => all.of = all.parts * (MonthOf[end] - MonthOf[start])

(* Two bills in a row charge what one would: the subscription and trade     *)
(* fees by MonthsOnce, the distribution fees by the others                  *)
(* (billing.py:389-437).                                                    *)
AddUp(start, reading, end, priced) ==
    MonthsOnce(start, reading, end, priced) /\ WindowsAdd(start, reading, end) /\ CalendarCharged(start, end)
=============================================================================
