-------------------------- MODULE CostPricingProofs --------------------------
(***************************************************************************)
(* What CostPricing promises, for any statistics, prices, zones and days.   *)
(* A fingerprint tells the truth until the first of the troubles of Kinds   *)
(* comes; nothing is assumed of the constants.                              *)
(***************************************************************************)
EXTENDS CostPricing, WellFoundedInduction, TLAPS

Marks == {"none", "zero"} \cup Prices
Stores == [energy : [Keys -> 0..LastDay],
           cost : [Costed -> [Zones -> [Days -> Marks]]]]
Prints == [Days -> Prices \cup {NoPrice}]
Tables == {t \in [until : 0..LastDay, price : Prints] : IsTable(t)}
Whys == {"none", "history", "reprice", "catch up", "update", "action"}
TaskRecords ==
    [at : Places, why : Whys, keys : SUBSET Keys, tariff : Tables, upTo : 0..LastDay,
     yesterday : 0..LastDay, from : Days, to : 0..LastDay]

\* No cost is in a zone that is not its own.
Zoned(data) ==
    \A k \in Costed, z \in Zones, d \in Days :
        data.cost[k][z][d] \in Prices => Zone[data.cost[k][z][d]] = z

Types ==
    /\ today \in 1..LastDay + 1 /\ tariff \in Tables /\ on \subseteq Keys
    /\ db \in Stores /\ Zoned(db) /\ queued \in Stores /\ Zoned(queued)
    /\ prices \in Prints /\ kept \in BOOLEAN
    /\ checkedUntil \in 0..LastDay /\ repriceFailed \in BOOLEAN
    /\ task \in [Tasks -> TaskRecords]
    /\ changes \in 0..MaxChanges /\ events \in 0..MaxEvents

-----------------------------------------------------------------------------
(* The greatest and the least of some days. *)

LEMMA Least ==
    ASSUME NEW T \in SUBSET Nat, T # {}
    PROVE  \E n \in T : \A m \in T : n <= m
<1>1. PICK n \in T : \A m \in T : <<m, n>> \notin OpToRel(<, Nat)
  BY WFMin, NatLessThanWellFounded
<1>2. \A m \in T : ~(m < n)
  BY <1>1 DEF OpToRel
<1>3. \A m \in T : n <= m
  BY <1>2
<1> QED
  BY <1>3

LEMMA MinIs ==
    ASSUME NEW T \in SUBSET Nat, T # {}
    PROVE  Min(T) \in T /\ \A m \in T : Min(T) <= m
<1>1. PICK n \in T : \A m \in T : n <= m
  BY Least
<1> QED
  BY <1>1 DEF Min

LEMMA MaxIs ==
    ASSUME NEW S \in SUBSET (0..LastDay), S # {}
    PROVE  Max(S) \in S /\ \A s \in S : s <= Max(S)
<1> DEFINE gaps == {n \in Nat : \E s \in S : n = LastDay - s}
<1>1. S \subseteq Nat /\ LastDay \in Nat /\ \A s \in S : s \in Nat /\ LastDay - s \in Nat
  BY PricingAssumption
<1>2. \A s \in S : LastDay - s \in gaps
  <2> SUFFICES ASSUME NEW s \in S PROVE LastDay - s \in gaps
    OBVIOUS
  <2>1. LastDay - s \in Nat
    BY <1>1
  <2> QED
    BY <2>1
<1>3. gaps # {} /\ gaps \in SUBSET Nat
  BY <1>2
<1>4. PICK n \in gaps : \A m \in gaps : n <= m
  BY <1>3, Least
<1>5. PICK s \in S : n = LastDay - s
  BY <1>4
<1>6. \A r \in S : r <= s
  <2> SUFFICES ASSUME NEW r \in S PROVE r <= s
    OBVIOUS
  <2>1. LastDay - s <= LastDay - r
    BY <1>2, <1>4, <1>5
  <2>2. LastDay \in Int /\ s \in Int /\ r \in Int
    BY <1>1
  <2> QED
    BY <2>1, <2>2
<1>7. Max(S) \in S /\ \A r \in S : Max(S) >= r
  <2>1. \A r \in S : s >= r
    BY <1>1, <1>6
  <2> QED
    BY <2>1 DEF Max
<1> QED
  BY <1>1, <1>7

LEMMA NewestDayIs ==
    ASSUME Types
    PROVE  /\ NewestDay \in 0..LastDay
           /\ \A k \in on : db.energy[k] <= NewestDay
           /\ NewestDay = 0 \/ \E k \in on : NewestDay = db.energy[k]
<1> DEFINE days == {0} \cup {db.energy[k] : k \in on}
<1>1. \A k \in on : db.energy[k] \in 0..LastDay
  BY DEF Types, Stores
<1>2. days \in SUBSET (0..LastDay) /\ days # {}
  BY <1>1, PricingAssumption
<1> HIDE DEF days
<1>3. Max(days) \in days /\ \A d \in days : d <= Max(days)
  BY <1>2, MaxIs
<1> USE DEF days
<1>4. NewestDay = Max(days)
  BY DEF NewestDay
<1> QED
  BY <1>1, <1>2, <1>3, <1>4

\* Statistic k has a cost on day d.
HasCost(k, d) == \E z \in Zones : db.cost[k][z][d] # "none"

LEMMA NewestCostIs ==
    /\ NewestCost \in 0..LastDay
    /\ \A k \in on \cap Costed, d \in Days : HasCost(k, d) => d <= NewestCost
    /\ NewestCost = 0 \/ \E k \in on \cap Costed : HasCost(k, NewestCost)
<1> DEFINE costs == {d \in Days : \E k \in on \cap Costed, z \in Zones : db.cost[k][z][d] # "none"}
           days == {0} \cup costs
<1>1. days \in SUBSET (0..LastDay) /\ days # {}
  BY PricingAssumption DEF Days
<1>2. NewestCost = Max(days)
  BY DEF NewestCost
<1>3. \A d \in Days : d \in costs <=> \E k \in on \cap Costed : HasCost(k, d)
  BY DEF HasCost
<1> HIDE DEF costs
<1>4. Max(days) \in days /\ \A d \in days : d <= Max(days)
  BY <1>1, MaxIs
<1>5. costs \subseteq Days
  BY DEF costs
<1> QED
  BY <1>1, <1>2, <1>3, <1>4, <1>5

-----------------------------------------------------------------------------
(* Every step keeps the types. *)

LEMMA TablesAre ==
    /\ \A t \in Tariffs : IsTable(t) => t \in Tables
    /\ \A t \in Tables : t \in Tariffs
    /\ NoTariff \in Tables
<1>1. \A t \in Tariffs : t \in [until : 0..LastDay, price : Prints]
  BY DEF Tariffs, Prints
<1>2. \A t \in Tables : /\ t = [until |-> t.until, price |-> t.price]
                        /\ t.until \in 0..LastDay /\ t.price \in Prints
  BY DEF Tables
<1>3. NoTariff \in [until : 0..LastDay, price : Prints] /\ IsTable(NoTariff)
  BY PricingAssumption DEF NoTariff, Prints, IsTable
<1> QED
  BY <1>1, <1>2, <1>3 DEF Tariffs, Tables, Prints

LEMMA NoTaskIs == NoTask \in TaskRecords /\ NoTask.at = "idle" /\ NoTask.why = "none"
BY TablesAre, PricingAssumption DEF NoTask, TaskRecords, Places, Whys, Days

LEMMA AfterIs ==
    ASSUME Types, NEW t \in Tasks, NEW why \in Whys
    PROVE  /\ why = "reprice" => After(t, why) = [task[t] EXCEPT !.at = "missing"]
           /\ why = "catch up" => After(t, why) = [task[t] EXCEPT !.at = "next"]
           /\ why = "update" => After(t, why) = [NoTask EXCEPT !.at = "drain"]
           /\ why \in {"none", "history", "action"} => After(t, why) = NoTask
           /\ After(t, why) \in TaskRecords
<1>1. why = "reprice" => After(t, why) = [task[t] EXCEPT !.at = "missing"]
  BY DEF After
<1>2. why = "catch up" => After(t, why) = [task[t] EXCEPT !.at = "next"]
  BY DEF After
<1>3. why = "update" => After(t, why) = [NoTask EXCEPT !.at = "drain"]
  BY DEF After
<1>4. why \in {"none", "history", "action"} => After(t, why) = NoTask
  BY DEF After
<1>5. /\ [task[t] EXCEPT !.at = "missing"] \in TaskRecords
      /\ [task[t] EXCEPT !.at = "next"] \in TaskRecords
      /\ [NoTask EXCEPT !.at = "drain"] \in TaskRecords
  BY NoTaskIs DEF Types, TaskRecords, Places
<1> QED
  BY <1>1, <1>2, <1>3, <1>4, <1>5, NoTaskIs DEF Whys

\* A task goes on, and nothing is written.
Turn(t, fields) ==
    /\ t \in Tasks /\ fields \in TaskRecords /\ Goes(t, fields)
    /\ UNCHANGED <<today, tariff, on, recorder, fingerprints, checkedUntil, changes>>
    /\ repriceFailed' \in BOOLEAN /\ events' \in 0..MaxEvents

LEMMA TypesTurn ==
    ASSUME Types, NEW t, NEW fields, Turn(t, fields)
    PROVE  Types'
BY DEF Types, Turn, Goes, recorder, fingerprints, Stores, Zoned

LEMMA FetchingIs ==
    ASSUME NEW why \in Whys, NEW keys \in SUBSET Keys, NEW from \in Days, NEW to \in 0..LastDay
    PROVE  LET fields == Fetching(why, keys, from, to)
           IN  /\ fields \in TaskRecords /\ fields.at = "fetch" /\ fields.why = why
               /\ fields.keys = keys /\ fields.from = from /\ fields.to = to
BY NoTaskIs DEF Fetching, TaskRecords, Places

LEMMA ImportHistoryTurns ==
    ASSUME Types, ImportHistory
    PROVE  Turn("backfill", Fetching("history", Missing, 1, today - 1))
<1>1. Missing \in SUBSET Keys /\ 1 \in Days /\ today - 1 \in 0..LastDay
  BY PricingAssumption DEF Types, Missing, Days
<1>2. Fetching("history", Missing, 1, today - 1) \in TaskRecords
  BY <1>1, FetchingIs DEF Whys
<1> QED
  BY <1>2 DEF Types, ImportHistory, Turn, memory, Tasks

\* What the refresh is about to do about costs.
Costing ==
    [NoTask EXCEPT
        !.at = IF on \cap Costed = {} \/ tariff.until = 0 THEN "next"
               ELSE IF Reprices THEN "reprice" ELSE "missing",
        !.tariff = tariff, !.upTo = NewestDay, !.yesterday = today - 1]

LEMMA StartCostsTurns ==
    ASSUME Types, StartCosts
    PROVE  Turn("refresh", Costing)
<1>1. tariff \in Tables /\ NewestDay \in 0..LastDay /\ today - 1 \in 0..LastDay
  BY NewestDayIs, PricingAssumption DEF Types
<1>2. Costing \in TaskRecords
  BY <1>1, NoTaskIs DEF Costing, TaskRecords, Places
<1> QED
  BY <1>2 DEF Types, StartCosts, Costing, Turn, memory, Tasks

LEMMA CatchUpTurns ==
    ASSUME Types, CatchUp
    PROVE  \E fields :
            /\ Turn("refresh", fields)
            /\ \/ fields = [task["refresh"] EXCEPT !.at = "next"]
               \/ \E from, to \in Days :
                    /\ fields = [task["refresh"] EXCEPT !.at = "fetch", !.why = "catch up",
                                                        !.keys = on, !.from = from, !.to = to]
                    /\ NewestCost < from /\ from <= to /\ to <= task["refresh"].upTo
<1> DEFINE me == task["refresh"]
           first == Max({NewestCost, checkedUntil}) + 1
           last == Min({me.upTo, me.tariff.until})
<1>1. me \in TaskRecords
  BY DEF Types, Tasks
<1>2. me.upTo \in 0..LastDay /\ me.tariff.until \in 0..LastDay
  BY <1>1 DEF TaskRecords, Tables
<1>3. last <= me.upTo /\ last \in 0..LastDay
  BY <1>2, MinIs
<1>4. {NewestCost, checkedUntil} \in SUBSET (0..LastDay)
  BY NewestCostIs DEF Types
<1>5. NewestCost < first /\ first \in 1..LastDay + 1
  BY <1>4, MaxIs, PricingAssumption
<1>6. [me EXCEPT !.at = "next"] \in TaskRecords
  BY <1>1 DEF TaskRecords, Places
<1>7. UNCHANGED <<today, tariff, on, recorder, fingerprints, memory, changes, events>>
  BY DEF CatchUp
<1>8. CASE first > last
  <2>1. Goes("refresh", [me EXCEPT !.at = "next"])
    BY <1>8 DEF CatchUp
  <2> QED
    BY <1>6, <1>7, <2>1 DEF Turn, Types, memory, Tasks
<1>9. CASE first <= last
  <2> DEFINE fields == [me EXCEPT !.at = "fetch", !.why = "catch up", !.keys = on,
                                  !.from = first, !.to = last]
  <2>1. ~(first > last) /\ first \in Days /\ last \in Days
    BY <1>3, <1>5, <1>9, PricingAssumption DEF Days
  <2>2. Goes("refresh", fields)
    BY <2>1 DEF CatchUp
  <2>3. fields \in TaskRecords
    BY <1>1, <1>3, <2>1 DEF TaskRecords, Places, Whys, Types
  <2>4. Turn("refresh", fields)
    BY <1>7, <2>2, <2>3 DEF Turn, Types, memory, Tasks
  <2> QED
    BY <1>3, <1>5, <1>9, <2>1, <2>4
<1> HIDE DEF first, last
<1>10. first > last \/ first <= last
  BY <1>3, <1>5
<1> QED
  BY <1>8, <1>9, <1>10

LEMMA UpdateTurns ==
    ASSUME Types, Update
    PROVE  LET me == task["refresh"]
           IN  \/ Turn("refresh", [NoTask EXCEPT !.at = "drain"])
               \/ /\ me.upTo < me.yesterday
                  /\ Turn("refresh", Fetching("update", on, me.upTo + 1, me.yesterday))
<1> DEFINE me == task["refresh"]
<1>1. me.upTo \in 0..LastDay /\ me.yesterday \in 0..LastDay
  BY DEF Types, Tasks, TaskRecords
<1>2. UNCHANGED <<today, tariff, on, recorder, fingerprints, memory, changes, events>>
  BY DEF Update
<1>3. CASE me.upTo >= me.yesterday
  <2>1. [NoTask EXCEPT !.at = "drain"] \in TaskRecords
    BY NoTaskIs DEF TaskRecords, Places
  <2> QED
    BY <1>2, <1>3, <2>1 DEF Update, Turn, Types, memory, Tasks
<1>4. CASE me.upTo < me.yesterday
  <2>1. me.upTo + 1 \in Days /\ ~(me.upTo >= me.yesterday)
    BY <1>1, <1>4, PricingAssumption DEF Days
  <2>2. Fetching("update", on, me.upTo + 1, me.yesterday) \in TaskRecords
    <3>1. on \in SUBSET Keys /\ "update" \in Whys
      BY DEF Types, Whys
    <3> QED
      BY <1>1, <2>1, <3>1, FetchingIs
  <2>3. Goes("refresh", Fetching("update", on, me.upTo + 1, me.yesterday))
    BY <2>1 DEF Update
  <2> QED
    BY <1>2, <1>4, <2>2, <2>3 DEF Turn, Types, memory, Tasks
<1> QED
  BY <1>1, <1>3, <1>4

\* Repricing has found changed prices, or there are none.
Repricing(fields) ==
    LET me == task["refresh"]
    IN  \/ fields = [me EXCEPT !.at = "missing"]
        \/ /\ NewestCost # 0
           /\ \E from \in 1..NewestCost :
                fields = [me EXCEPT !.at = "fetch", !.why = "reprice", !.keys = on,
                                    !.from = from, !.to = NewestCost]

LEMMA RepriceGoes ==
    ASSUME Types, Reprice
    PROVE  \E fields \in TaskRecords : Repricing(fields) /\ Goes("refresh", fields)
<1> DEFINE me == task["refresh"]
           changed == Changed(me.tariff)
<1>1. me \in TaskRecords /\ on \subseteq Keys
  BY DEF Types, Tasks
<1>2. CASE ~kept \/ changed = {}
  <2>1. [me EXCEPT !.at = "missing"] \in TaskRecords
    BY <1>1 DEF TaskRecords, Places
  <2>2. Goes("refresh", [me EXCEPT !.at = "missing"])
    BY <1>2 DEF Reprice
  <2> QED
    BY <2>1, <2>2 DEF Repricing
<1>3. CASE ~(~kept \/ changed = {})
  <2> DEFINE fields == [me EXCEPT !.at = "fetch", !.why = "reprice", !.keys = on,
                                  !.from = Min(changed), !.to = NewestCost]
  <2>1. NewestCost \in 0..LastDay /\ changed \in SUBSET (1..NewestCost) /\ changed # {}
    BY <1>3, NewestCostIs DEF Changed
  <2> HIDE DEF changed
  <2>2. Min(changed) \in 1..NewestCost
    <3>1. changed \in SUBSET Nat
      BY <2>1
    <3> QED
      BY <2>1, <3>1, MinIs
  <2>3. Min(changed) \in Days /\ NewestCost # 0
    BY <2>1, <2>2, PricingAssumption DEF Days
  <2>4. fields \in TaskRecords
    BY <1>1, <2>1, <2>3 DEF TaskRecords, Places, Whys
  <2>5. Goes("refresh", fields)
    BY <1>3 DEF Reprice, changed
  <2> QED
    BY <2>2, <2>3, <2>4, <2>5 DEF Repricing
<1> QED
  BY <1>2, <1>3

LEMMA DrainTurns ==
    ASSUME Types, Drain
    PROVE  Turn("refresh", NoTask)
BY NoTaskIs DEF Drain, Turn, Types, memory, Tasks

LEMMA ActionTurns ==
    ASSUME Types, NEW from \in Days, NEW to \in Days, Action(from, to)
    PROVE  Turn("action", Fetching("action", on, from, to))
<1>1. to \in 0..LastDay
  BY DEF Days
<1>2. Fetching("action", on, from, to) \in TaskRecords
  BY <1>1, FetchingIs DEF Types, Whys
<1>3. events' \in 0..MaxEvents
  BY PricingAssumption DEF Action, Event, Types
<1> QED
  BY <1>2, <1>3 DEF Action, Turn, Types, memory, Tasks

\* What becomes of a task that is answered.
Answered(t, failed) ==
    LET last == Min({task[t].to, today - 1})
    IN  IF last < task[t].from THEN After(t, task[t].why)
        ELSE [task[t] EXCEPT !.at = "insert", !.keys = @ \ failed, !.to = last]

LEMMA LastIs ==
    ASSUME Types, NEW t \in Tasks
    PROVE  LET last == Min({task[t].to, today - 1})
           IN  /\ last \in 0..LastDay /\ last <= task[t].to /\ last < today
               /\ task[t].to < today => last = task[t].to
<1> DEFINE both == {task[t].to, today - 1}
<1>1. task[t].to \in 0..LastDay /\ today \in 1..LastDay + 1 /\ LastDay \in Nat
  BY PricingAssumption DEF Types, TaskRecords
<1>2. both \in SUBSET Nat /\ both # {}
  BY <1>1
<1>3. Min(both) \in both /\ \A m \in both : Min(both) <= m
  BY <1>2, MinIs
<1>4. PICK last : last = Min(both)
  OBVIOUS
<1>5. /\ last = task[t].to \/ last = today - 1
      /\ last <= task[t].to /\ last <= today - 1
  BY <1>3, <1>4
<1>6. /\ last \in 0..LastDay /\ last <= task[t].to /\ last < today
      /\ task[t].to < today => last = task[t].to
  BY <1>1, <1>5
<1> QED
  BY <1>4, <1>6

LEMMA FetchTurns ==
    ASSUME Types, NEW t \in Tasks, NEW failed \in SUBSET task[t].keys, Fetch(t, failed)
    PROVE  Turn(t, Answered(t, failed))
<1> DEFINE last == Min({task[t].to, today - 1})
<1>1. task[t] \in TaskRecords /\ task[t].why \in Whys /\ last \in 0..LastDay
  BY LastIs DEF Types, TaskRecords
<1>2. After(t, task[t].why) \in TaskRecords
  BY <1>1, AfterIs
<1>3. Goes(t, Answered(t, failed))
  BY DEF Fetch, Answered
<1> HIDE DEF last
<1>4. [task[t] EXCEPT !.at = "insert", !.keys = @ \ failed, !.to = last] \in TaskRecords
  BY <1>1 DEF TaskRecords, Places
<1>5. Answered(t, failed) \in TaskRecords
  BY <1>2, <1>4 DEF Answered, last
<1>6. events' \in 0..MaxEvents
  BY PricingAssumption DEF Fetch, Event, Types
<1> QED
  BY <1>3, <1>5, <1>6 DEF Fetch, Turn, Types, memory

LEMMA FetchFailsTurns ==
    ASSUME Types, NEW t \in Tasks, FetchFails(t)
    PROVE  Turn(t, After(t, task[t].why))
<1>1. task[t].why \in Whys
  BY DEF Types, TaskRecords
<1>2. events' \in 0..MaxEvents
  BY PricingAssumption DEF FetchFails, Event, Types
<1>3. After(t, task[t].why) \in TaskRecords
  BY <1>1, AfterIs
<1>4. repriceFailed' \in BOOLEAN
  BY DEF FetchFails, Types
<1> QED
  BY <1>2, <1>3, <1>4 DEF FetchFails, Turn

LEMMA SignedIs ==
    ASSUME Types, NEW t \in Tables, NEW from, NEW to
    PROVE  Signed(t, from, to) \in Prints
BY DEF Types, Signed, Tables, Prints

LEMMA TariffOfIs ==
    ASSUME Types, NEW t \in Tasks
    PROVE  TariffOf(t) \in Tables
BY DEF Types, TariffOf, TaskRecords

\* What a task writes.
LEMMA CostIs ==
    ASSUME NEW t \in Tasks, NEW S, NEW k \in Costed, NEW z \in Zones, NEW d \in Days
    PROVE  LET price == TariffOf(t).price[d]
           IN  Costs(t, S)[k][z][d] =
                 IF z \notin S \/ ~Computes(t, k, d) THEN queued.cost[k][z][d]
                 ELSE IF InZone(price, z) THEN price
                 ELSE IF Rewrites(task[t].why) /\ db.cost[k][z][d] # "none"
                      THEN "zero" ELSE queued.cost[k][z][d]
BY DEF Costs

LEMMA EnergyIs ==
    ASSUME Types, NEW t \in Tasks, NEW k \in Keys
    PROVE  /\ Energies(t)[k] \in 0..LastDay /\ queued.energy[k] <= Energies(t)[k]
           /\ (k \notin task[t].keys \/ task[t].why \in {"reprice", "catch up"})
                => Energies(t)[k] = queued.energy[k]
           /\ k \in task[t].keys /\ task[t].why \notin {"reprice", "catch up"}
                => /\ task[t].to <= Energies(t)[k]
                   /\ Energies(t)[k] \in {queued.energy[k], task[t].to}
<1> DEFINE both == {queued.energy[k], task[t].to}
<1>1. both \in SUBSET (0..LastDay) /\ both # {}
  BY DEF Types, Stores, TaskRecords
<1>2. Max(both) \in both /\ queued.energy[k] <= Max(both) /\ task[t].to <= Max(both)
  BY <1>1, MaxIs
<1>3. Energies(t)[k] = IF k \in task[t].keys /\ task[t].why \notin {"reprice", "catch up"}
                       THEN Max(both) ELSE queued.energy[k]
  BY DEF Energies
<1>4. queued.energy[k] \in 0..LastDay
  BY DEF Types, Stores
<1>5. Max(both) \in 0..LastDay
  BY <1>1, <1>2
<1>6. PICK m : m = Max(both)
  OBVIOUS
<1>7. m \in 0..LastDay /\ m \in {queued.energy[k], task[t].to} /\ queued.energy[k] <= m /\ task[t].to <= m
  BY <1>2, <1>5, <1>6
<1>8. Energies(t)[k] = IF k \in task[t].keys /\ task[t].why \notin {"reprice", "catch up"}
                       THEN m ELSE queued.energy[k]
  BY <1>3, <1>6
<1> HIDE DEF both
<1>9. CASE k \in task[t].keys /\ task[t].why \notin {"reprice", "catch up"}
  <2>1. Energies(t)[k] = m
    BY <1>8, <1>9
  <2> QED
    BY <1>7, <1>9, <2>1
<1>10. CASE ~(k \in task[t].keys /\ task[t].why \notin {"reprice", "catch up"})
  <2>1. Energies(t)[k] = queued.energy[k]
    BY <1>8, <1>10
  <2>2. queued.energy[k] <= Energies(t)[k] /\ Energies(t)[k] \in 0..LastDay
    BY <1>4, <2>1
  <2> QED
    BY <1>10, <2>1, <2>2
<1> QED
  BY <1>9, <1>10

LEMMA WrittenTypes ==
    ASSUME Types, NEW t \in Tasks, NEW S,
           NEW data, data = [energy |-> Energies(t), cost |-> Costs(t, S)]
    PROVE  data \in Stores /\ Zoned(data)
<1>1. Energies(t) \in [Keys -> 0..LastDay]
  <2>1. \A k \in Keys : Energies(t)[k] \in 0..LastDay
    BY EnergyIs
  <2>2. Energies(t) = [k \in Keys |-> Energies(t)[k]]
    BY DEF Energies
  <2> QED
    BY <2>1, <2>2
<1>2. ASSUME NEW k \in Costed, NEW z \in Zones, NEW d \in Days
      PROVE  /\ Costs(t, S)[k][z][d] \in Marks
             /\ Costs(t, S)[k][z][d] \in Prices => Zone[Costs(t, S)[k][z][d]] = z
  <2>1. queued.cost[k][z][d] \in Marks
    BY DEF Types, Stores
  <2>2. queued.cost[k][z][d] \in Prices => Zone[queued.cost[k][z][d]] = z
    BY DEF Types, Zoned
  <2>3. \/ Costs(t, S)[k][z][d] = queued.cost[k][z][d]
        \/ Costs(t, S)[k][z][d] = "zero"
        \/ InZone(TariffOf(t).price[d], z) /\ Costs(t, S)[k][z][d] = TariffOf(t).price[d]
    <3> DEFINE price == TariffOf(t).price[d]
               untouched == z \notin S \/ ~Computes(t, k, d)
               left == Rewrites(task[t].why) /\ db.cost[k][z][d] # "none"
    <3>1. Costs(t, S)[k][z][d] =
             IF untouched THEN queued.cost[k][z][d] ELSE IF InZone(price, z) THEN price
             ELSE IF left THEN "zero" ELSE queued.cost[k][z][d]
      BY CostIs
    <3> HIDE DEF untouched, left, price
    <3>2. \/ Costs(t, S)[k][z][d] = queued.cost[k][z][d]
          \/ Costs(t, S)[k][z][d] = "zero"
          \/ InZone(price, z) /\ Costs(t, S)[k][z][d] = price
      BY <3>1
    <3> QED
      BY <3>2 DEF price
  <2>4. "zero" \notin Prices
    BY PricingAssumption
  <2> QED
    BY <2>1, <2>2, <2>3, <2>4 DEF Marks, InZone
<1>3. Costs(t, S) \in [Costed -> [Zones -> [Days -> Marks]]]
  <2>1. Costs(t, S) = [k \in Costed |-> [z \in Zones |-> [d \in Days |-> Costs(t, S)[k][z][d]]]]
    BY DEF Costs
  <2> QED
    BY <1>2, <2>1
<1> QED
  BY <1>1, <1>2, <1>3 DEF Stores, Zoned

\* A new coordinator starts from scratch.
LEMMA TypesAnew ==
    ASSUME Types, NEW S, Anew(S)
    PROVE  /\ task' \in [Tasks -> TaskRecords]
           /\ checkedUntil' \in 0..LastDay /\ repriceFailed' \in BOOLEAN
<1> DEFINE of(t) == IF t \in S THEN NoTask ELSE task[t]
<1>1. \A t \in Tasks : of(t) \in TaskRecords
  BY NoTaskIs DEF Types
<1>2. task' = [t \in Tasks |-> of(t)]
  BY DEF Anew
<1> HIDE DEF of
<1>3. task' \in [Tasks -> TaskRecords]
  BY <1>1, <1>2
<1>4. checkedUntil' = 0 /\ repriceFailed' = FALSE /\ 0 \in 0..LastDay
  BY PricingAssumption DEF Anew
<1> QED
  BY <1>3, <1>4

LEMMA InitTypes == Init => Types
<1> SUFFICES ASSUME Init PROVE Types
  OBVIOUS
<1>1. tariff \in Tables /\ prices \in Prints
  BY TablesAre DEF Init, Prints
<1>2. db \in Stores /\ Zoned(db) /\ queued = db
  <2>1. db = [energy |-> [k \in Keys |-> 0],
              cost |-> [k \in Costed |-> [z \in Zones |-> [d \in Days |-> "none"]]]]
    BY DEF Init
  <2>2. "none" \notin Prices /\ 0 \in 0..LastDay
    BY PricingAssumption
  <2> QED
    BY <2>1, <2>2 DEF Init, Stores, Zoned, Marks
<1>3. task \in [Tasks -> TaskRecords]
  BY NoTaskIs DEF Init
<1>4. on \subseteq Keys
  BY PricingAssumption DEF Init
<1>5. /\ today = 1 /\ checkedUntil = 0 /\ changes = 0 /\ events = 0
      /\ 1 \in 1..LastDay + 1 /\ 0 \in 0..LastDay /\ 0 \in 0..MaxChanges /\ 0 \in 0..MaxEvents
  BY PricingAssumption DEF Init
<1>6. kept \in BOOLEAN /\ repriceFailed \in BOOLEAN
  BY DEF Init
<1>7. queued \in Stores /\ Zoned(queued)
  BY <1>2
<1> QED
  BY <1>1, <1>2, <1>3, <1>4, <1>5, <1>6, <1>7 DEF Types

LEMMA NextTypes == Types /\ [Next]_vars => Types'
<1> SUFFICES ASSUME Types, [Next]_vars PROVE Types'
  OBVIOUS
<1>1. CASE Midnight
  <2>1. today' \in 1..LastDay + 1
    BY <1>1, PricingAssumption DEF Midnight, Types
  <2> QED
    BY <1>1, <2>1 DEF Midnight, Types, recorder, fingerprints, memory, Zoned
<1>2. CASE Commit
  BY <1>2 DEF Commit, Types, fingerprints, memory, Zoned
<1>3. CASE Stop
  <2>1. db' \in {queued, db} /\ queued' = db'
    BY <1>3 DEF Stop
  <2>2. events' \in 0..MaxEvents
    BY <1>3, PricingAssumption DEF Stop, Event, Types
  <2>3. task' \in [Tasks -> TaskRecords] /\ checkedUntil' \in 0..LastDay /\ repriceFailed' \in BOOLEAN
    BY <1>3, TypesAnew DEF Stop
  <2> QED
    BY <1>3, <2>1, <2>2, <2>3 DEF Stop, Types, fingerprints, Zoned
<1>4. CASE \E t \in Tariffs : ChangePrices(t)
  <2>1. tariff' \in Tables /\ changes' \in 0..MaxChanges
    BY <1>4, TablesAre, PricingAssumption DEF ChangePrices, Types
  <2> QED
    BY <1>4, <2>1 DEF ChangePrices, Types, recorder, fingerprints, memory, Zoned
<1>5. CASE \E k \in Keys : Enable(k)
  <2>1. task' \in [Tasks -> TaskRecords] /\ checkedUntil' \in 0..LastDay /\ repriceFailed' \in BOOLEAN
    BY <1>5, TypesAnew DEF Enable
  <2> QED
    BY <1>5, <2>1 DEF Enable, Types, recorder, fingerprints, Zoned
<1>6. CASE RefreshStep
  <2>1. CASE Reprice
    <3>1. task' \in [Tasks -> TaskRecords]
      BY <2>1, RepriceGoes DEF Types, Goes
    <3>2. task["refresh"].tariff \in Tables
      BY DEF Types, Tasks, TaskRecords
    <3>3. prices' \in Prints /\ kept' \in BOOLEAN
      BY <2>1, <3>2, SignedIs DEF Reprice, fingerprints, Types
    <3> QED
      BY <2>1, <3>1, <3>3 DEF Reprice, Types, recorder, memory, Zoned
  <2>2. CASE ~Reprice
    BY <1>6, <2>2, TypesTurn, ImportHistoryTurns, StartCostsTurns, CatchUpTurns, UpdateTurns,
       DrainTurns
    DEF RefreshStep
  <2> QED
    BY <2>1, <2>2
<1>7. CASE \E from, to \in Days : Action(from, to)
  BY <1>7, TypesTurn, ActionTurns
<1>8. ASSUME NEW t \in Tasks, TaskStep(t) \/ FetchFails(t) PROVE Types'
  <2>1. CASE \E failed \in SUBSET task[t].keys : Fetch(t, failed)
    BY <2>1, TypesTurn, FetchTurns
  <2>2. CASE FetchFails(t)
    BY <2>2, TypesTurn, FetchFailsTurns
  <2>3. CASE Insert(t)
    <3>1. queued' \in Stores /\ Zoned(queued)'
      BY <2>3, WrittenTypes DEF Insert, Zoned
    <3>2. task[t] \in TaskRecords /\ TariffOf(t) \in Tables
      BY TariffOfIs DEF Types
    <3>3. [task[t] EXCEPT !.at = "save", !.tariff = TariffOf(t)] \in TaskRecords
      BY <3>2 DEF TaskRecords, Places
    <3>4. task' \in [Tasks -> TaskRecords]
      BY <2>3, <3>3 DEF Insert, Goes, Types
    <3> QED
      BY <2>3, <3>1, <3>4 DEF Insert, Types, fingerprints, memory, Zoned
  <2>4. CASE Save(t)
    <3>1. task[t].tariff \in Tables /\ task[t].why \in Whys
      BY DEF Types, TaskRecords
    <3>2. prices' \in Prints /\ kept' \in BOOLEAN
      BY <2>4, <3>1, SignedIs DEF Save, SavedTariff, fingerprints, Types
    <3>3. task' \in [Tasks -> TaskRecords]
      BY <2>4, <3>1, AfterIs DEF Save, Goes, Types
    <3>4. checkedUntil' \in 0..LastDay
      BY <2>4 DEF Save, Types, TaskRecords
    <3> QED
      BY <2>4, <3>2, <3>3, <3>4 DEF Save, Types, recorder, Zoned
  <2> QED
    BY <1>8, <2>1, <2>2, <2>3, <2>4 DEF TaskStep
<1>9. ASSUME NEW t \in Tasks, NEW S, InsertCut(t, S) PROVE Types'
  <2>1. queued' \in Stores /\ Zoned(queued)'
    BY <1>9, WrittenTypes DEF InsertCut, Zoned
  <2>2. task' \in [Tasks -> TaskRecords] /\ checkedUntil' \in 0..LastDay /\ repriceFailed' \in BOOLEAN
    BY <1>9, TypesAnew DEF InsertCut
  <2>3. events' \in 0..MaxEvents
    BY <1>9, PricingAssumption DEF InsertCut, Event, Types
  <2> QED
    BY <1>9, <2>1, <2>2, <2>3 DEF InsertCut, Types, fingerprints, Zoned
<1>10. CASE UNCHANGED vars
  BY <1>10 DEF vars, Types, recorder, fingerprints, memory, Zoned
<1> QED
  BY <1>1, <1>2, <1>3, <1>4, <1>5, <1>6, <1>7, <1>8, <1>9, <1>10 DEF Next

\* The troubles that have come are remembered.
LEMMA MetIs ==
    ASSUME met \subseteq Troubles, [Next]_vars
    PROVE  met' \subseteq Troubles /\ met \subseteq met'
<1>1. ASSUME NEW kinds, Meets(kinds) PROVE met' \subseteq Troubles /\ met \subseteq met'
  BY <1>1 DEF Meets
<1>2. CASE UNCHANGED met
  BY <1>2
<1>3. CASE Midnight \/ Stop
  BY <1>1, <1>3 DEF Midnight, Stop
<1>4. CASE (\E t \in Tariffs : ChangePrices(t)) \/ (\E k \in Keys : Enable(k))
  BY <1>1, <1>4 DEF ChangePrices, Enable
<1>5. CASE \E from, to \in Days : Action(from, to)
  BY <1>1, <1>5 DEF Action
<1>6. CASE ImportHistory \/ StartCosts
  BY <1>1, <1>6 DEF ImportHistory, StartCosts, CanRefresh
<1>7. CASE Commit \/ Reprice \/ CatchUp \/ Update \/ Drain
  BY <1>2, <1>7 DEF Commit, Reprice, CatchUp, Update, Drain
<1>8. ASSUME NEW t \in Tasks, NEW failed, Fetch(t, failed)
      PROVE  met' \subseteq Troubles /\ met \subseteq met'
  BY <1>1, <1>8 DEF Fetch
<1>9. ASSUME NEW t \in Tasks, Insert(t) \/ Save(t) \/ FetchFails(t)
      PROVE  met' \subseteq Troubles /\ met \subseteq met'
  BY <1>2, <1>9 DEF Insert, Save, FetchFails
<1>10. ASSUME NEW t \in Tasks, NEW S, InsertCut(t, S)
       PROVE  met' \subseteq Troubles /\ met \subseteq met'
  BY <1>1, <1>10 DEF InsertCut
<1>11. CASE UNCHANGED vars
  BY <1>2, <1>11 DEF vars
<1> QED
  BY <1>3, <1>4, <1>5, <1>6, <1>7, <1>8, <1>9, <1>10, <1>11 DEF Next, RefreshStep, TaskStep

\* Every variable holds a value of its kind (TypeOK), whatever the surroundings.
THEOREM PricesTyped == Spec => []TypeOK
<1> DEFINE Inv == Types /\ met \subseteq Troubles
<1>1. Init => Inv
  BY InitTypes DEF Init
<1>2. Inv /\ [Next]_vars => Inv'
  BY NextTypes, MetIs
<1>3. Inv => TypeOK
  <2> SUFFICES ASSUME Types, met \subseteq Troubles PROVE TypeOK
    OBVIOUS
  <2>1. ASSUME NEW data \in Stores, Zoned(data)
        PROVE  /\ data.energy \in [Keys -> 0..LastDay]
               /\ \A k \in Costed, z \in Zones, d \in Days :
                    \/ data.cost[k][z][d] \in {"none", "zero"}
                    \/ data.cost[k][z][d] \in Prices /\ Zone[data.cost[k][z][d]] = z
    BY <2>1 DEF Stores, Marks, Zoned
  <2>2. \A data \in {db, queued} :
            /\ data.energy \in [Keys -> 0..LastDay]
            /\ \A k \in Costed, z \in Zones, d \in Days :
                 \/ data.cost[k][z][d] \in {"none", "zero"}
                 \/ data.cost[k][z][d] \in Prices /\ Zone[data.cost[k][z][d]] = z
    BY <2>1 DEF Types
  <2>3. ASSUME NEW t \in Tasks
        PROVE  /\ task[t].at \in Places /\ task[t].keys \subseteq Keys
               /\ task[t].tariff \in Tariffs
               /\ {task[t].upTo, task[t].yesterday} \subseteq 0..LastDay
               /\ task[t].from \in Days /\ task[t].to \in 0..LastDay
    <3>1. task[t] \in TaskRecords
      BY DEF Types
    <3> QED
      BY <3>1, TablesAre DEF TaskRecords
  <2> QED
    BY <2>2, <2>3, TablesAre DEF Types, TypeOK, Prints
<1> QED
  BY <1>1, <1>2, <1>3, PTL DEF Spec

-----------------------------------------------------------------------------
(***************************************************************************)
(* What holds until the first trouble comes, of which Truthful is a         *)
(* consequence: at most one task runs, and what it has read is still so     *)
(* when it writes.                                                          *)
(***************************************************************************)

\* Nothing is stored of a statistic that is off, nor costs after its energy, and
\* what is stored reaches one and the same day, before today.
Sane(data) ==
    /\ \A k \in Keys \ on : data.energy[k] = 0
    /\ \A k \in Costed, z \in Zones, d \in Days :
        data.cost[k][z][d] # "none" => d <= data.energy[k]
    /\ \A j, k \in Keys :
        data.energy[j] # 0 /\ data.energy[k] # 0 => data.energy[j] = data.energy[k]
    /\ \A k \in Keys : data.energy[k] < today

\* Something is queued only once every statistic has a history.
Levels ==
    /\ Sane(db) /\ Sane(queued)
    /\ \A k \in Keys : db.energy[k] <= queued.energy[k]
    /\ (\E k \in on : queued.energy[k] = 0) => queued = db

\* Day d of statistic k is charged once at the price, or not at all without one.
ChargedAt(k, d, price) == Charged(k, d) = {price} \ {NoPrice}

\* Statistic k reaches yesterday, and its costs are settled.
Ready(k) ==
    /\ db.energy[k] = today - 1
    /\ k \in Costed => \A d \in Days :
        /\ \A z \in Zones : db.cost[k][z][d] = queued.cost[k][z][d]
        /\ tariff.until # 0 /\ d <= db.energy[k] => ChargedAt(k, d, tariff.price[d])

\* The others wait for a measurement that has been enabled.
Awaited == Enabling => \A k \in on \ Missing : Ready(k)

\* The days that have fingerprints are stored.
Known ==
    /\ on # {}
    /\ \A d \in Days : prices[d] # NoPrice => \E k \in on : d <= queued.energy[k]

\* The costs of day d have just been written, and their fingerprints have not.
Saving(t, d) ==
    task[t].at = "save" /\ task[t].tariff.until # 0 /\ d \in task[t].from..task[t].to

Unsaved(d) == \E t \in Tasks : Saving(t, d)

\* A fingerprint of the present prices tells the truth.
Signs ==
    \A k \in on \cap Costed, d \in Days :
        queued.energy[k] # 0 =>
            Agree(k, d) \/ prices[d] # tariff.price[d] \/ Unsaved(d)

\* Without fingerprints there are no costs either.
Unsigned ==
    ~kept =>
        /\ \A d \in Days : prices[d] = NoPrice
        /\ \A data \in {db, queued} : \A k \in Costed, z \in Zones, d \in Days :
            /\ data.cost[k][z][d] # "zero"
            /\ data.cost[k][z][d] # "none" => Unsaved(d)

Alone == \A t, u \in Tasks : Running(t) /\ Running(u) => t = u

Importing == {"fetch", "insert", "save"}

Placed(t, r) ==
    \/ r = NoTask
    \/ t = "backfill" /\ r.why = "history" /\ r.at \in Importing
    \/ t = "action" /\ r.why = "action" /\ r.at \in Importing
    \/ t = "refresh" /\ r.why \in {"reprice", "catch up", "update"} /\ r.at \in Importing
    \/ t = "refresh" /\ r.why # "update" /\ r.at \in {"reprice", "missing", "next", "drain"}

\* What a task needs the recorder to have committed.
Waits(r) ==
    (\/ r.at \in {"reprice", "missing", "insert"}
     \/ r.at = "fetch" /\ r.why \in {"history", "reprice", "catch up"}) => queued = db

\* All the statistics reach day n.
Level(n) == n \in 1..(today - 1) /\ \A k \in on : db.energy[k] = n /\ queued.energy[k] = n

HistorySound(r) ==
    r.at \in {"fetch", "insert"} =>
        /\ r.keys = Missing /\ Missing # {} /\ r.from = 1
        /\ Enabling => r.to = today - 1
        /\ \A d \in Days : prices[d] # NoPrice => d <= r.to

ActionSound(r) ==
    r.at \in {"fetch", "insert"} =>
        /\ r.keys = on
        /\ \A j, k \in on :
            queued.energy[j] = queued.energy[k] /\ r.from <= queued.energy[k] + 1

\* There are no costs of these days.
Uncosted(from, to) ==
    \A k \in on \cap Costed, z \in Zones, d \in from..to : queued.cost[k][z][d] = "none"

\* The days are within the energy there is, and catching up finds none with costs.
CostsSound(r) ==
    /\ r.yesterday < today /\ Level(r.upTo)
    /\ r.at \in Importing => r.keys = on /\ r.to <= r.upTo
    /\ r.at \in {"fetch", "insert"} /\ r.why = "catch up" => Uncosted(r.from, r.to)

UpdateSound(r) == r.keys = on /\ (r.at # "save" => Level(r.from - 1))

\* The days are costed, and their fingerprints are about to be stored.
SaveSound(r) ==
    r.at = "save" =>
        /\ \A k \in on : queued.energy[k] # 0
        /\ \E k \in on : r.to <= queued.energy[k]
        /\ r.tariff.until # 0 =>
            \A k \in on \cap Costed, d \in r.from..r.to : ChargedAt(k, d, r.tariff.price[d])

Sound(t, r) ==
    /\ Placed(t, r) /\ Waits(r) /\ SaveSound(r)
    /\ r.at \in Importing =>
        r.from <= r.to /\ (r.to < today \/ (r.why = "action" /\ r.at = "fetch"))
    /\ t = "backfill" => HistorySound(r)
    /\ t = "action" => ActionSound(r)
    /\ t = "refresh" /\ r.at \notin {"idle", "drain"} =>
        IF r.why = "update" THEN UpdateSound(r) ELSE CostsSound(r)

Steady ==
    /\ Levels /\ Awaited /\ Known /\ Signs /\ Unsigned /\ Alone
    /\ \A t \in Tasks : Sound(t, task[t])

LEMMA PastIs ==
    ASSUME Types, Steady, NEW d \in Days, prices[d] # NoPrice
    PROVE  d < today
<1>1. PICK k \in on : d <= queued.energy[k]
  BY DEF Steady, Known
<1>2. queued.energy[k] < today /\ queued.energy[k] \in Int /\ today \in Int
  BY DEF Steady, Levels, Sane, Types, Stores
<1> QED
  BY <1>1, <1>2 DEF Days

LEMMA EnablingIs ==
    ASSUME Types
    PROVE  Enabling <=> (\E k \in on : db.energy[k] # 0) /\ (\E k \in on : db.energy[k] = 0)
<1>1. \A k \in on : db.energy[k] \in 0..LastDay
  BY DEF Types, Stores
<1>2. NewestDay # 0 <=> \E k \in on : db.energy[k] # 0
  BY <1>1, NewestDayIs
<1>3. Missing # {} <=> \E k \in on : db.energy[k] = 0
  BY DEF Missing
<1> QED
  BY <1>2, <1>3 DEF Enabling

LEMMA EnablingStays ==
    ASSUME UNCHANGED <<on, db>>
    PROVE  Enabling' = Enabling /\ Missing' = Missing
<1>1. on' = on /\ db' = db
  OBVIOUS
<1>2. Missing' = Missing
  BY <1>1 DEF Missing
<1>3. NewestDay' = NewestDay
  BY <1>1 DEF NewestDay
<1> QED
  BY <1>2, <1>3 DEF Enabling

\* A task that does nothing needs nothing.
LEMMA IdleSound == \A t \in Tasks : Sound(t, NoTask)
BY NoTaskIs DEF Sound, Placed, Waits, SaveSound, HistorySound, ActionSound, Importing

LEMMA OthersIdle ==
    ASSUME Steady, NEW t \in Tasks, task[t].at # "idle"
    PROVE  \A u \in Tasks : u # t => task[u] = NoTask
<1> SUFFICES ASSUME NEW u \in Tasks, u # t PROVE task[u] = NoTask
  OBVIOUS
<1>1. task[u].at = "idle"
  BY DEF Steady, Alone, Running
<1>2. Placed(u, task[u])
  BY DEF Steady, Sound
<1> QED
  BY <1>1, <1>2 DEF Placed, Importing

LEMMA ChargedStays ==
    ASSUME queued' = queued
    PROVE  \A k, d : Charged(k, d)' = Charged(k, d)
BY DEF Charged

\* What a task relies on does not change.
LEMMA SoundStays ==
    ASSUME NEW t \in Tasks, NEW r, Sound(t, r), UNCHANGED <<today, on, db, queued>>,
           prices' = prices \/ t # "backfill" \/ r = NoTask
    PROVE  Sound(t, r)'
<1>1. Enabling' = Enabling /\ Missing' = Missing
  BY EnablingStays
<1>2. Waits(r)' /\ Placed(t, r)'
  BY DEF Sound, Waits, Placed
<1>3. SaveSound(r)'
  BY ChargedStays DEF Sound, SaveSound, ChargedAt
<1>4. t = "backfill" /\ HistorySound(r) => HistorySound(r)'
  BY <1>1, NoTaskIs DEF HistorySound
<1>5. ActionSound(r) => ActionSound(r)'
  BY DEF ActionSound
<1>6. UpdateSound(r) => UpdateSound(r)'
  BY DEF UpdateSound, Level
<1>7. CostsSound(r) => CostsSound(r)'
  BY DEF CostsSound, Level, Uncosted
<1> QED
  BY <1>2, <1>3, <1>4, <1>5, <1>6, <1>7 DEF Sound

\* The parts that depend neither on the tasks nor on what they write.
LEMMA StoresStay ==
    ASSUME Levels, Awaited, UNCHANGED <<today, tariff, on, db, queued>>
    PROVE  Levels' /\ Awaited'
<1>1. Levels'
  BY DEF Levels, Sane
<1>2. Awaited'
  <2>1. Enabling' = Enabling /\ Missing' = Missing
    BY EnablingStays
  <2>2. \A k, d, price : ChargedAt(k, d, price)' <=> ChargedAt(k, d, price)
    BY ChargedStays DEF ChargedAt
  <2>3. \A k : Ready(k) => Ready(k)'
    BY <2>2 DEF Ready
  <2> QED
    BY <2>1, <2>3 DEF Awaited
<1> QED
  BY <1>1, <1>2

\* A task that neither comes from writing costs nor has written some goes on.
LEMMA SteadyTurn ==
    ASSUME Types, Steady, NEW t, NEW fields, Turn(t, fields),
           task[t].at # "save", fields.at # "save", Sound(t, fields),
           \A u \in Tasks : u # t => task[u] = NoTask
    PROVE  Steady'
<1>1. /\ t \in Tasks /\ task' = [task EXCEPT ![t] = fields] /\ task \in [Tasks -> TaskRecords]
      /\ UNCHANGED <<today, tariff, on, db, queued, prices, kept>>
  BY DEF Turn, Goes, Types, recorder, fingerprints
<1>2. Levels' /\ Awaited' /\ Known'
  BY <1>1, StoresStay DEF Steady, Known
<1>3. task'[t] = fields /\ \A u \in Tasks : u # t => task'[u] = NoTask
  BY <1>1
<1>4. Alone'
  BY <1>3, NoTaskIs DEF Alone, Running
<1>5. \A u \in Tasks : Sound(u, task[u])'
  <2>1. ASSUME NEW u \in Tasks PROVE Sound(u, task'[u])
    BY <1>3, IdleSound
  <2>2. ASSUME NEW u \in Tasks, NEW r, Sound(u, r) PROVE Sound(u, r)'
    BY <1>1, <2>2, SoundStays
  <2>3. ASSUME NEW u \in Tasks PROVE Sound(u, task[u])'
    <3>1. PICK r : r = task'[u]
      OBVIOUS
    <3>2. Sound(u, r)'
      BY <2>1, <2>2, <3>1
    <3> QED
      BY <3>1, <3>2
  <2> QED
    BY <2>3
<1>6. \A d : ~Unsaved(d) /\ ~Unsaved(d)'
  BY <1>3, NoTaskIs DEF Unsaved, Saving
<1>7. Signs'
  <2>1. \A k, d : Agree(k, d)' = Agree(k, d)
    BY <1>1, ChargedStays DEF Agree
  <2> QED
    BY <1>1, <1>6, <2>1 DEF Signs, Steady
<1>8. Unsigned'
  BY <1>1, <1>6 DEF Unsigned, Steady
<1> QED
  BY <1>2, <1>4, <1>5, <1>7, <1>8 DEF Steady

LEMMA NoneRuns ==
    ASSUME Steady, \A u \in Tasks : ~Running(u)
    PROVE  \A u \in Tasks : task[u] = NoTask
BY DEF Steady, Sound, Placed, Importing, Running

\* A refresh begins when nothing else runs.
LEMMA CanRefreshIs ==
    ASSUME Steady, met' = {}, CanRefresh
    PROVE  queued = db /\ \A u \in Tasks : task[u] = NoTask
<1>1. queued = db /\ \A u \in Tasks : ~Running(u)
  BY DEF CanRefresh, Meets, Late, If, Tasks
<1> QED
  BY <1>1, NoneRuns

LEMMA NewestDayLevel ==
    ASSUME Types, Levels, Missing = {}
    PROVE  \A k \in on : db.energy[k] # 0 /\ db.energy[k] = NewestDay /\ NewestDay < today
<1>1. \A k \in on : db.energy[k] # 0
  BY DEF Missing
<1>2. \A j, k \in on : db.energy[j] = db.energy[k]
  BY <1>1 DEF Levels, Sane, Types
<1>3. \A k \in on : db.energy[k] < today
  BY DEF Levels, Sane, Types
<1>4. \A k \in on : db.energy[k] \in 0..LastDay
  BY DEF Types, Stores
<1> SUFFICES ASSUME NEW k \in on
             PROVE  db.energy[k] # 0 /\ db.energy[k] = NewestDay /\ NewestDay < today
  OBVIOUS
<1>5. NewestDay # 0
  BY <1>1, <1>4, NewestDayIs
<1>6. PICK j \in on : NewestDay = db.energy[j]
  BY <1>5, NewestDayIs
<1> QED
  BY <1>1, <1>2, <1>3, <1>6

LEMMA SteadyImportHistory ==
    ASSUME Types, Steady, met' = {}, ImportHistory
    PROVE  Steady'
<1> DEFINE fields == Fetching("history", Missing, 1, today - 1)
<1>1. Turn("backfill", fields)
  BY ImportHistoryTurns
<1>2. queued = db /\ (\A u \in Tasks : task[u] = NoTask) /\ Missing # {} /\ today - 1 \in 1..LastDay
  BY CanRefreshIs, PricingAssumption DEF ImportHistory, Types
<1>3. /\ fields.at = "fetch" /\ fields.why = "history" /\ fields.keys = Missing
      /\ fields.from = 1 /\ fields.to = today - 1
  BY DEF Fetching, NoTask
<1> HIDE DEF fields
<1>4. HistorySound(fields)
  <2>1. \A d \in Days : prices[d] # NoPrice => d <= today - 1
    BY PastIs DEF Types, Days
  <2> QED
    BY <1>2, <1>3, <2>1 DEF HistorySound
<1>5. Sound("backfill", fields)
  BY <1>2, <1>3, <1>4 DEF Sound, Placed, Waits, SaveSound, Importing, Types
<1> QED
  BY <1>1, <1>2, <1>3, <1>5, NoTaskIs, SteadyTurn DEF Tasks

LEMMA SteadyStartCosts ==
    ASSUME Types, Steady, met' = {}, StartCosts
    PROVE  Steady'
<1>1. Turn("refresh", Costing)
  BY StartCostsTurns
<1>2. queued = db /\ (\A u \in Tasks : task[u] = NoTask) /\ Missing = {} /\ NewestDay # 0
  BY CanRefreshIs DEF StartCosts
<1>3. /\ Costing.at \in {"next", "reprice", "missing"} /\ Costing.why = "none"
      /\ Costing.upTo = NewestDay /\ Costing.yesterday = today - 1
  BY NoTaskIs DEF Costing, NoTask
<1>4. Level(NewestDay)
  <2>1. \A k \in on : db.energy[k] = NewestDay /\ NewestDay < today
    BY <1>2, NewestDayLevel DEF Steady
  <2>2. \E k \in on : NewestDay = db.energy[k]
    BY <1>2, NewestDayIs
  <2>3. NewestDay \in 0..LastDay /\ NewestDay < today
    BY <2>1, <2>2, NewestDayIs
  <2> QED
    BY <1>2, <2>1, <2>3 DEF Level, Types
<1> HIDE DEF Costing
<1>5. CostsSound(Costing)
  BY <1>3, <1>4 DEF CostsSound, Importing, Types
<1>6. Sound("refresh", Costing)
  BY <1>2, <1>3, <1>5 DEF Sound, Placed, Waits, SaveSound, Importing
<1> QED
  BY <1>1, <1>2, <1>3, <1>6, NoTaskIs, SteadyTurn DEF Tasks

\* What a refresh that is about to do something about the costs relies on.
LEMMA CostsAre ==
    ASSUME Types, Steady, task["refresh"].at \in {"reprice", "missing", "next"}
    PROVE  /\ CostsSound(task["refresh"]) /\ task["refresh"].why # "update"
           /\ \A u \in Tasks : u # "refresh" => task[u] = NoTask
           /\ task["refresh"] \in TaskRecords
<1> DEFINE me == task["refresh"]
<1>1. Sound("refresh", me) /\ me \in TaskRecords
  BY DEF Steady, Types, Tasks
<1>2. me.why # "update"
  BY <1>1, NoTaskIs DEF Sound, Placed, Importing
<1>3. CostsSound(me)
  BY <1>1, <1>2 DEF Sound
<1>4. me.at # "idle" /\ "refresh" \in Tasks
  BY DEF Tasks
<1> QED
  BY <1>1, <1>2, <1>3, <1>4, OthersIdle

LEMMA SteadyCatchUp ==
    ASSUME Types, Steady, CatchUp
    PROVE  Steady'
<1> DEFINE me == task["refresh"]
<1>1. me.at = "missing" /\ queued = db
  BY DEF CatchUp, Steady, Sound, Waits, Tasks
<1>2. /\ CostsSound(me) /\ me.why # "update" /\ me \in TaskRecords
      /\ \A u \in Tasks : u # "refresh" => task[u] = NoTask
  BY <1>1, CostsAre
<1>3. ASSUME Turn("refresh", [me EXCEPT !.at = "next"]) PROVE Steady'
  <2> DEFINE fields == [me EXCEPT !.at = "next"]
  <2>1. /\ fields.at = "next" /\ fields.why = me.why /\ fields.upTo = me.upTo
        /\ fields.yesterday = me.yesterday
    BY <1>2 DEF TaskRecords
  <2> HIDE DEF fields
  <2>2. CostsSound(fields)
    BY <1>2, <2>1 DEF CostsSound, Importing
  <2>3. Sound("refresh", fields)
    BY <1>2, <2>1, <2>2 DEF Sound, Placed, Waits, SaveSound, Importing
  <2> QED
    BY <1>1, <1>2, <1>3, <2>1, <2>3, SteadyTurn DEF fields
<1>4. ASSUME NEW from \in Days, NEW to \in Days, NewestCost < from, from <= to, to <= me.upTo,
             Turn("refresh", [me EXCEPT !.at = "fetch", !.why = "catch up", !.keys = on,
                                        !.from = from, !.to = to])
      PROVE  Steady'
  <2> DEFINE fields == [me EXCEPT !.at = "fetch", !.why = "catch up", !.keys = on,
                                  !.from = from, !.to = to]
  <2>1. /\ fields.at = "fetch" /\ fields.why = "catch up" /\ fields.keys = on
        /\ fields.from = from /\ fields.to = to /\ fields.upTo = me.upTo
        /\ fields.yesterday = me.yesterday
    BY <1>2 DEF TaskRecords
  <2> HIDE DEF fields
  <2>2. Uncosted(from, to)
    <3> SUFFICES ASSUME NEW k \in on \cap Costed, NEW z \in Zones, NEW d \in from..to
                 PROVE  queued.cost[k][z][d] = "none"
      BY DEF Uncosted
    <3>1. d \in Days /\ ~(d <= NewestCost)
      BY <1>4, NewestCostIs, PricingAssumption DEF Days
    <3>2. ~HasCost(k, d)
      BY <3>1, NewestCostIs
    <3> QED
      BY <1>1, <3>2 DEF HasCost
  <2>3. CostsSound(fields)
    BY <1>2, <1>4, <2>1, <2>2 DEF CostsSound, Importing
  <2>4. to < today
    <3>1. me.upTo \in 1..(today - 1) /\ today \in Int /\ to \in Int /\ to <= me.upTo
      <4>1. Level(me.upTo)
        BY <1>2 DEF CostsSound
      <4>2. today \in Int
        BY DEF Types
      <4> QED
        BY <1>4, <4>1, <4>2 DEF Level, Days
    <3> QED
      BY <3>1
  <2>5. Sound("refresh", fields)
    BY <1>1, <1>2, <1>4, <2>1, <2>3, <2>4 DEF Sound, Placed, Waits, SaveSound, Importing
  <2> QED
    BY <1>1, <1>2, <1>4, <2>1, <2>5, SteadyTurn DEF fields
<1> QED
  BY <1>3, <1>4, CatchUpTurns

LEMMA SteadyUpdate ==
    ASSUME Types, Steady, Update
    PROVE  Steady'
<1> DEFINE me == task["refresh"]
<1>1. me.at = "next"
  BY DEF Update
<1>2. /\ CostsSound(me) /\ me.why # "update" /\ me \in TaskRecords
      /\ \A u \in Tasks : u # "refresh" => task[u] = NoTask
  BY <1>1, CostsAre
<1>3. ASSUME Turn("refresh", [NoTask EXCEPT !.at = "drain"]) PROVE Steady'
  <2> DEFINE fields == [NoTask EXCEPT !.at = "drain"]
  <2>1. fields.at = "drain" /\ fields.why = "none"
    BY NoTaskIs DEF NoTask
  <2> HIDE DEF fields
  <2>2. Sound("refresh", fields)
    BY <2>1 DEF Sound, Placed, Waits, SaveSound, Importing
  <2> QED
    BY <1>1, <1>2, <1>3, <2>1, <2>2, SteadyTurn DEF fields
<1>4. ASSUME me.upTo < me.yesterday,
             Turn("refresh", Fetching("update", on, me.upTo + 1, me.yesterday))
      PROVE  Steady'
  <2> DEFINE fields == Fetching("update", on, me.upTo + 1, me.yesterday)
  <2>1. /\ on \in SUBSET Keys /\ me.upTo \in 0..LastDay /\ me.yesterday \in 0..LastDay
        /\ me.upTo + 1 \in Days
    BY <1>2, <1>4, PricingAssumption DEF Types, TaskRecords, Days
  <2>2. /\ fields.at = "fetch" /\ fields.why = "update" /\ fields.keys = on
        /\ fields.from = me.upTo + 1 /\ fields.to = me.yesterday
    BY DEF Fetching, NoTask
  <2>3. fields.from <= fields.to /\ fields.to < today /\ fields.from - 1 = me.upTo
    <3>1. me.yesterday < today
      BY <1>2 DEF CostsSound
    <3> QED
      BY <1>4, <2>1, <2>2, <3>1
  <2> HIDE DEF fields
  <2>4. UpdateSound(fields)
    BY <1>2, <2>2, <2>3 DEF UpdateSound, CostsSound
  <2>5. Sound("refresh", fields)
    BY <2>2, <2>3, <2>4 DEF Sound, Placed, Waits, SaveSound, Importing
  <2> QED
    BY <1>1, <1>2, <1>4, <2>2, <2>5, SteadyTurn DEF fields
<1> QED
  BY <1>3, <1>4, UpdateTurns

LEMMA SteadyDrain ==
    ASSUME Types, Steady, Drain
    PROVE  Steady'
<1>1. task["refresh"].at = "drain" /\ "refresh" \in Tasks
  BY DEF Drain, Tasks
<1>2. Turn("refresh", NoTask) /\ Sound("refresh", NoTask)
  BY <1>1, DrainTurns, IdleSound
<1>3. \A u \in Tasks : u # "refresh" => task[u] = NoTask
  BY <1>1, OthersIdle
<1> QED
  BY <1>1, <1>2, <1>3, NoTaskIs, SteadyTurn

LEMMA SteadyAction ==
    ASSUME Types, Steady, met' = {}, NEW from \in Days, NEW to \in Days, Action(from, to)
    PROVE  Steady'
<1> DEFINE fields == Fetching("action", on, from, to)
<1>1. Turn("action", fields)
  BY ActionTurns
<1>2. \A u \in Tasks : task[u] = NoTask
  <2>1. \A u \in Tasks : ~Running(u)
    BY DEF Action, Meets, If, Tasks
  <2> QED
    BY <2>1, NoneRuns
<1>3. /\ fields.at = "fetch" /\ fields.why = "action" /\ fields.keys = on
      /\ fields.from = from /\ fields.to = to
  BY DEF Fetching, NoTask
<1>4. from <= to /\ from <= NewestDay + 1 /\ ~Enabling
  <2>1. ~(from > NewestDay + 1) /\ ~Enabling
    BY DEF Action, Meets, If
  <2> QED
    BY <2>1, NewestDayIs DEF Action, Days
<1> HIDE DEF fields
<1>5. \A k \in Keys : /\ db.energy[k] <= queued.energy[k]
                      /\ db.energy[k] \in 0..LastDay /\ queued.energy[k] \in 0..LastDay
  BY DEF Steady, Levels, Types, Stores
<1>6. on \subseteq Keys
  BY DEF Types
<1>7. ASSUME NEW k \in on PROVE from <= queued.energy[k] + 1
  <2>1. CASE NewestDay = 0
    BY <1>4, <1>5, <1>6, <2>1 DEF Days
  <2>2. CASE NewestDay # 0
    <3>1. db.energy[k] = NewestDay
      BY <1>4, <2>2, NewestDayLevel DEF Enabling, Steady
    <3> QED
      BY <1>4, <1>5, <1>6, <3>1 DEF Days
  <2> QED
    BY <2>1, <2>2
<1>8. ASSUME NEW j \in on, NEW k \in on PROVE queued.energy[j] = queued.energy[k]
  <2>1. CASE queued.energy[j] # 0 /\ queued.energy[k] # 0
    BY <1>6, <2>1 DEF Steady, Levels, Sane
  <2>2. CASE queued.energy[j] = 0 \/ queued.energy[k] = 0
    <3>1. queued = db
      BY <2>2 DEF Steady, Levels
    <3>2. ~((\E i \in on : db.energy[i] # 0) /\ (\E i \in on : db.energy[i] = 0))
      BY <1>4, EnablingIs
    <3> QED
      BY <2>2, <3>1, <3>2
  <2> QED
    BY <2>1, <2>2
<1>9. Sound("action", fields)
  BY <1>3, <1>4, <1>7, <1>8 DEF Sound, Placed, Waits, SaveSound, ActionSound, Importing
<1> QED
  BY <1>1, <1>2, <1>3, <1>9, NoTaskIs, SteadyTurn DEF Tasks

\* The first fingerprints are those of costs, and there are none yet.
LEMMA RepriceSignsNothing ==
    ASSUME Types, Steady, Reprice
    PROVE  UNCHANGED fingerprints
<1>1. task["refresh"].at = "reprice" /\ "refresh" \in Tasks
  BY DEF Reprice, Tasks
<1>2. \A u \in Tasks : u # "refresh" => task[u] = NoTask
  BY <1>1, OthersIdle
<1>3. \A d : ~Unsaved(d)
  BY <1>1, <1>2, NoTaskIs DEF Unsaved, Saving
<1>4. ASSUME ~kept PROVE NewestCost = 0
  <2> SUFFICES ASSUME NewestCost # 0 PROVE FALSE
    OBVIOUS
  <2>1. PICK k \in on \cap Costed : HasCost(k, NewestCost)
    BY NewestCostIs
  <2>2. NewestCost \in Days
    BY NewestCostIs, PricingAssumption DEF Days
  <2>3. \A z \in Zones : db.cost[k][z][NewestCost] = "none"
    BY <1>3, <1>4, <2>2 DEF Steady, Unsigned
  <2> QED
    BY <2>1, <2>3 DEF HasCost
<1> QED
  BY <1>4 DEF Reprice

LEMMA SteadyReprice ==
    ASSUME Types, Steady, Reprice
    PROVE  Steady'
<1> DEFINE me == task["refresh"]
<1>1. me.at = "reprice" /\ queued = db
  BY DEF Reprice, Steady, Sound, Waits, Tasks
<1>2. /\ CostsSound(me) /\ me.why # "update" /\ me \in TaskRecords
      /\ \A u \in Tasks : u # "refresh" => task[u] = NoTask
  BY <1>1, CostsAre
<1>3. PICK fields \in TaskRecords : Repricing(fields) /\ Goes("refresh", fields)
  BY RepriceGoes
<1>4. Turn("refresh", fields)
  BY <1>3, RepriceSignsNothing DEF Reprice, Turn, Types, Tasks, memory
<1>5. CASE fields = [me EXCEPT !.at = "missing"]
  <2>1. /\ fields.at = "missing" /\ fields.why = me.why /\ fields.upTo = me.upTo
        /\ fields.yesterday = me.yesterday
    BY <1>2, <1>5 DEF TaskRecords
  <2>2. CostsSound(fields)
    BY <1>2, <2>1 DEF CostsSound, Importing
  <2>3. Sound("refresh", fields)
    BY <1>1, <1>2, <2>1, <2>2 DEF Sound, Placed, Waits, SaveSound, Importing
  <2> QED
    BY <1>1, <1>2, <1>4, <2>1, <2>3, SteadyTurn
<1>6. ASSUME NewestCost # 0, NEW from \in 1..NewestCost,
             fields = [me EXCEPT !.at = "fetch", !.why = "reprice", !.keys = on,
                                 !.from = from, !.to = NewestCost]
      PROVE  Steady'
  <2>1. /\ fields.at = "fetch" /\ fields.why = "reprice" /\ fields.keys = on
        /\ fields.from = from /\ fields.to = NewestCost /\ fields.upTo = me.upTo
        /\ fields.yesterday = me.yesterday
    BY <1>2, <1>6 DEF TaskRecords
  <2>2. NewestCost <= me.upTo
    <3>1. PICK k \in on \cap Costed : HasCost(k, NewestCost)
      BY <1>6, NewestCostIs
    <3>2. NewestCost \in Days
      BY <1>6, NewestCostIs, PricingAssumption DEF Days
    <3>3. NewestCost <= db.energy[k]
      BY <3>1, <3>2 DEF HasCost, Steady, Levels, Sane
    <3> QED
      BY <1>2, <3>3 DEF CostsSound, Level
  <2>3. from <= NewestCost /\ NewestCost < today
    <3>1. Level(me.upTo) /\ NewestCost \in 0..LastDay
      BY <1>2, NewestCostIs DEF CostsSound
    <3>2. me.upTo \in 1..(today - 1)
      BY <3>1 DEF Level
    <3>3. today \in Int
      BY DEF Types
    <3> QED
      BY <1>6, <2>2, <3>1, <3>2, <3>3
  <2>4. CostsSound(fields)
    BY <1>2, <2>1, <2>2 DEF CostsSound, Importing
  <2>5. Sound("refresh", fields)
    BY <1>1, <2>1, <2>3, <2>4 DEF Sound, Placed, Waits, SaveSound, Importing
  <2> QED
    BY <1>1, <1>2, <1>4, <2>1, <2>5, SteadyTurn
<1> QED
  BY <1>3, <1>5, <1>6 DEF Repricing

\* Where a task goes on after a failure, or after saving.
LEMMA AfterSound ==
    ASSUME Types, Steady, NEW t \in Tasks, task[t].at \in {"fetch", "save"},
           task[t].why = "reprice" => queued = db
    PROVE  Sound(t, After(t, task[t].why)) /\ After(t, task[t].why).at # "save"
<1> DEFINE me == task[t]
           next == After(t, me.why)
<1>1. Sound(t, me) /\ me \in TaskRecords /\ me.why \in Whys
  BY DEF Steady, Types, TaskRecords
<1>2. \/ me.why \in {"none", "history", "action"}
      \/ t = "refresh" /\ me.why \in {"reprice", "catch up", "update"}
  BY <1>1, NoTaskIs DEF Sound, Placed
<1>3. CASE me.why \in {"none", "history", "action"}
  <2>1. next = NoTask
    BY <1>1, <1>3, AfterIs
  <2> QED
    BY <2>1, IdleSound, NoTaskIs
<1>4. CASE me.why = "update" /\ t = "refresh"
  <2>1. next = [NoTask EXCEPT !.at = "drain"]
    BY <1>1, <1>4, AfterIs
  <2>2. next.at = "drain" /\ next.why = "none"
    BY <2>1, NoTaskIs DEF NoTask
  <2> HIDE DEF next
  <2>3. Sound(t, next) /\ next.at # "save"
    BY <1>4, <2>2 DEF Sound, Placed, Waits, SaveSound, Importing
  <2> QED
    BY <2>3 DEF next
<1>5. CASE me.why \in {"reprice", "catch up"} /\ t = "refresh"
  <2>1. \/ me.why = "reprice" /\ next = [me EXCEPT !.at = "missing"]
        \/ me.why = "catch up" /\ next = [me EXCEPT !.at = "next"]
    BY <1>1, <1>5, AfterIs
  <2>2. /\ next.why = me.why /\ next.upTo = me.upTo /\ next.yesterday = me.yesterday
        /\ next.at = IF me.why = "reprice" THEN "missing" ELSE "next"
    BY <1>1, <2>1 DEF TaskRecords
  <2> HIDE DEF next
  <2>3. CostsSound(me)
    BY <1>1, <1>5 DEF Sound
  <2>4. CostsSound(next)
    BY <1>5, <2>2, <2>3 DEF CostsSound, Importing
  <2>5. Sound(t, next) /\ next.at # "save"
    BY <1>5, <2>2, <2>4 DEF Sound, Placed, Waits, SaveSound, Importing
  <2> QED
    BY <2>5 DEF next
<1> QED
  BY <1>2, <1>3, <1>4, <1>5

LEMMA SteadyFetch ==
    ASSUME Types, Steady, met' = {}, NEW t \in Tasks, NEW failed \in SUBSET task[t].keys,
           Fetch(t, failed)
    PROVE  Steady'
<1> DEFINE me == task[t]
           last == Min({me.to, today - 1})
           fields == [me EXCEPT !.at = "insert", !.keys = @ \ failed, !.to = last]
<1>1. Turn(t, Answered(t, failed))
  BY FetchTurns
<1>2. /\ me.at = "fetch" /\ queued = db /\ failed = {} /\ Sound(t, me)
      /\ me \in TaskRecords /\ today \in Int
  <2>1. Late = {} /\ If(failed # {}, "partial") = {}
    BY DEF Fetch, Meets
  <2>2. queued = db /\ failed = {}
    BY <2>1 DEF Late, If
  <2> QED
    BY <2>2 DEF Fetch, Steady, Types
<1>3. \A u \in Tasks : u # t => task[u] = NoTask
  BY <1>2, OthersIdle
<1>4. /\ last \in Int /\ me.from \in Int /\ last < today
      /\ me.why # "action" => last = me.to
  <2>1. /\ last \in 0..LastDay /\ last < today
        /\ me.to < today => last = me.to
    BY LastIs
  <2>2. /\ me.from \in 1..LastDay
        /\ me.why # "action" => me.to < today
    BY <1>2 DEF Sound, Importing, TaskRecords, Days
  <2> QED
    BY <2>1, <2>2
<1>5. Answered(t, failed) = IF last < me.from THEN After(t, me.why) ELSE fields
  BY DEF Answered
<1> HIDE DEF last
<1>6. CASE last < me.from
  <2>1. task[t].why = "reprice" => queued = db
    BY <1>2
  <2>2. Sound(t, After(t, task[t].why)) /\ After(t, task[t].why).at # "save"
    BY <1>2, <2>1, AfterSound
  <2> QED
    BY <1>1, <1>2, <1>3, <1>5, <1>6, <2>2, SteadyTurn
<1>7. CASE ~(last < me.from)
  <2>1. /\ fields.at = "insert" /\ fields.why = me.why /\ fields.keys = me.keys
        /\ fields.from = me.from /\ fields.to = last /\ fields.upTo = me.upTo
        /\ fields.yesterday = me.yesterday
    <3>1. me.keys \ failed = me.keys
      BY <1>2
    <3> QED
      BY <1>2, <3>1 DEF TaskRecords
  <2> HIDE DEF fields
  <2>2. fields.from <= fields.to /\ fields.to < today
    BY <1>4, <1>7, <2>1 DEF Days
  <2>3. me.why # "action" => fields.to = me.to
    BY <1>4, <2>1
  <2>4. Placed(t, fields)
    BY <1>2, <2>1, NoTaskIs DEF Sound, Placed, Importing
  <2>5. t # "action" => me.why # "action"
    BY <1>2, NoTaskIs DEF Sound, Placed
  <2>6. Waits(fields) /\ SaveSound(fields)
    BY <1>2, <2>1 DEF Waits, SaveSound
  <2>7. t = "backfill" /\ HistorySound(me) => HistorySound(fields)
    BY <1>2, <2>1, <2>3, <2>5 DEF HistorySound
  <2>8. ActionSound(me) => ActionSound(fields)
    BY <1>2, <2>1 DEF ActionSound
  <2>9. UpdateSound(me) => UpdateSound(fields)
    BY <1>2, <2>1 DEF UpdateSound
  <2>10. t = "refresh" /\ CostsSound(me) => CostsSound(fields)
    BY <1>2, <2>1, <2>3, <2>5 DEF CostsSound, Importing
  <2>11. Sound(t, fields)
    BY <1>2, <2>1, <2>2, <2>4, <2>6, <2>7, <2>8, <2>9, <2>10 DEF Sound, Importing
  <2> QED
    BY <1>1, <1>2, <1>3, <1>5, <1>7, <2>1, <2>11, SteadyTurn
<1> QED
  BY <1>6, <1>7

LEMMA SteadyFetchFails ==
    ASSUME Types, Steady, NEW t \in Tasks, FetchFails(t)
    PROVE  Steady'
<1>1. task[t].at = "fetch" /\ Turn(t, After(t, task[t].why))
  BY FetchFailsTurns DEF FetchFails
<1>2. task[t].why = "reprice" => queued = db
  BY <1>1 DEF Steady, Sound, Waits
<1>3. Sound(t, After(t, task[t].why)) /\ After(t, task[t].why).at # "save"
  BY <1>1, <1>2, AfterSound
<1>4. \A u \in Tasks : u # t => task[u] = NoTask
  BY <1>1, OthersIdle
<1> QED
  BY <1>1, <1>3, <1>4, SteadyTurn

LEMMA SteadySave ==
    ASSUME Types, Steady, NEW t \in Tasks, Save(t)
    PROVE  Steady'
<1> DEFINE me == task[t]
           next == After(t, me.why)
<1>1. /\ me.at = "save" /\ Sound(t, me) /\ me \in TaskRecords /\ me.why \in Whys
      /\ task' = [task EXCEPT ![t] = next] /\ task \in [Tasks -> TaskRecords]
      /\ UNCHANGED <<today, tariff, on, db, queued>>
  BY DEF Save, Steady, Types, TaskRecords, Goes, recorder
<1>2. Sound(t, next) /\ next.at # "save"
  BY <1>1, AfterSound DEF Save
<1>3. t = "backfill" => next = NoTask
  BY <1>1, NoTaskIs, AfterIs DEF Sound, Placed
<1> HIDE DEF next
<1>4. \A u \in Tasks : u # t => task[u] = NoTask
  BY <1>1, OthersIdle
<1>5. task'[t] = next /\ \A u \in Tasks : u # t => task'[u] = NoTask
  BY <1>1, <1>4
<1>6. Levels' /\ Awaited'
  BY <1>1, StoresStay DEF Steady
<1>7. Alone'
  BY <1>5, NoTaskIs DEF Alone, Running
<1>8. \A u \in Tasks : Sound(u, task[u])'
  <2>1. ASSUME NEW u \in Tasks, NEW r, Sound(u, r), u = "backfill" => r = NoTask
        PROVE  Sound(u, r)'
    BY <1>1, <2>1, SoundStays
  <2>2. ASSUME NEW u \in Tasks PROVE Sound(u, task[u])'
    <3>1. PICK r : r = task'[u]
      OBVIOUS
    <3>2. Sound(u, r) /\ (u = "backfill" => r = NoTask)
      BY <1>2, <1>3, <1>5, <3>1, IdleSound
    <3>3. Sound(u, r)'
      BY <2>1, <3>2
    <3> QED
      BY <3>1, <3>3
  <2> QED
    BY <2>2
<1>9. \A d : Unsaved(d) <=> me.tariff.until # 0 /\ d \in me.from..me.to
  BY <1>1, <1>4, NoTaskIs DEF Unsaved, Saving
<1>10. \A d : ~Unsaved(d)'
  BY <1>2, <1>5, NoTaskIs DEF Unsaved, Saving
<1>11. \A d \in Days :
         \/ prices'[d] = prices[d] /\ ~Unsaved(d)
         \/ /\ d \in me.from..me.to /\ me.tariff.until # 0 /\ prices'[d] = me.tariff.price[d]
  <2>1. CASE me.tariff.until = 0
    BY <1>9, <2>1 DEF Save, fingerprints
  <2>2. CASE me.tariff.until # 0
    <3>1. prices' = Signed(me.tariff, me.from, me.to)
      BY <2>2 DEF Save, SavedTariff
    <3> QED
      BY <1>9, <2>2, <3>1 DEF Signed
  <2> QED
    BY <2>1, <2>2
<1>12. Known'
  <2> SUFFICES ASSUME NEW d \in Days, prices'[d] # NoPrice
               PROVE  \E k \in on : d <= queued.energy[k]
    BY <1>1 DEF Steady, Known
  <2>1. CASE prices'[d] = prices[d]
    BY <2>1 DEF Steady, Known
  <2>2. CASE d \in me.from..me.to
    <3>1. PICK k \in on : me.to <= queued.energy[k]
      BY <1>1 DEF Sound, SaveSound
    <3>2. me.to \in Int /\ queued.energy[k] \in Int
      BY <1>1 DEF TaskRecords, Types, Stores
    <3> QED
      BY <2>2, <3>1, <3>2
  <2> QED
    BY <1>11, <2>1, <2>2
<1>13. Signs'
  <2> SUFFICES ASSUME NEW k \in on \cap Costed, NEW d \in Days, queued.energy[k] # 0
               PROVE  Agree(k, d)' \/ prices'[d] # tariff.price[d]
    BY <1>1 DEF Signs
  <2>1. CASE prices'[d] = prices[d] /\ ~Unsaved(d)
    BY <1>1, <2>1, ChargedStays DEF Steady, Signs, Agree
  <2>2. CASE d \in me.from..me.to /\ me.tariff.until # 0 /\ prices'[d] = me.tariff.price[d]
    <3>1. ChargedAt(k, d, me.tariff.price[d])
      BY <1>1, <2>2 DEF Sound, SaveSound
    <3> QED
      BY <1>1, <2>2, <3>1, ChargedStays DEF ChargedAt, Agree
  <2> QED
    BY <1>11, <2>1, <2>2
<1>14. Unsigned'
  <2>1. CASE me.tariff.until = 0
    <3>1. UNCHANGED <<prices, kept>>
      BY <2>1 DEF Save, fingerprints
    <3>2. \A d : ~Unsaved(d)
      BY <1>9, <2>1
    <3> QED
      BY <1>1, <1>10, <3>1, <3>2 DEF Steady, Unsigned
  <2>2. CASE me.tariff.until # 0
    BY <2>2 DEF Save, Unsigned
  <2> QED
    BY <2>1, <2>2
<1> QED
  BY <1>6, <1>7, <1>8, <1>12, <1>13, <1>14 DEF Steady

-----------------------------------------------------------------------------
(* The steps of the surroundings. *)

LEMMA SteadyMidnight ==
    ASSUME Types, Steady, met' = {}, Midnight
    PROVE  Steady'
<1>1. /\ today' = today + 1 /\ today \in Int /\ ~Enabling
      /\ UNCHANGED <<tariff, on, db, queued, prices, kept, task>>
  BY DEF Midnight, Meets, If, Types, recorder, fingerprints
<1>2. Enabling' = Enabling /\ Missing' = Missing /\ \A k, d : Charged(k, d)' = Charged(k, d)
  BY <1>1, EnablingStays, ChargedStays
<1>3. Awaited'
  BY <1>1, <1>2 DEF Awaited
<1>4. Levels'
  <2>1. ASSUME NEW data \in Stores, Sane(data) PROVE Sane(data)'
    <3>1. \A k \in Keys : data.energy[k] < today'
      BY <1>1, <2>1 DEF Sane, Stores
    <3> QED
      BY <1>1, <2>1, <3>1 DEF Sane
  <2> QED
    BY <1>1, <2>1 DEF Steady, Levels, Types
<1>5. Known'
  BY <1>1 DEF Steady, Known
<1>6. (\A d : Unsaved(d)' <=> Unsaved(d)) /\ Alone'
  BY <1>1 DEF Unsaved, Saving, Steady, Alone, Running
<1>7. Signs' /\ Unsigned'
  BY <1>1, <1>2, <1>6 DEF Steady, Signs, Agree, Unsigned
<1>8. ASSUME NEW t \in Tasks PROVE Sound(t, task[t])'
  <2> DEFINE r == task[t]
  <2>1. Sound(t, r) /\ r \in TaskRecords /\ task'[t] = r
    BY <1>1 DEF Steady, Types
  <2>2. \A n : Level(n) => Level(n)'
    <3> SUFFICES ASSUME NEW n, Level(n) PROVE Level(n)'
      OBVIOUS
    <3>1. n \in 1..(today' - 1)
      BY <1>1 DEF Level
    <3> QED
      BY <1>1, <3>1 DEF Level
  <2>3. \A n \in 0..LastDay : n < today => n < today'
    BY <1>1
  <2> HIDE DEF r
  <2>4. ASSUME NEW s, s = r PROVE Sound(t, s)'
    <3>1. Sound(t, s) /\ s \in TaskRecords
      BY <2>1, <2>4
    <3>2. Placed(t, s)' /\ Waits(s)' /\ SaveSound(s)'
      BY <1>1, <1>2, <3>1 DEF Sound, Placed, Waits, SaveSound, ChargedAt
    <3>3. s.at \in Importing =>
            s.from <= s.to /\ (s.to < today' \/ (s.why = "action" /\ s.at = "fetch"))
      BY <2>3, <3>1 DEF Sound, TaskRecords
    <3>4. HistorySound(s) => HistorySound(s)'
      BY <1>1, <1>2 DEF HistorySound
    <3>5. ActionSound(s) => ActionSound(s)'
      BY <1>1 DEF ActionSound
    <3>6. UpdateSound(s) => UpdateSound(s)'
      BY <1>1, <2>2 DEF UpdateSound
    <3>7. CostsSound(s) => CostsSound(s)'
      <4>1. \A from, to : Uncosted(from, to)' <=> Uncosted(from, to)
        BY <1>1 DEF Uncosted
      <4>2. s.yesterday < today => s.yesterday < today'
        BY <2>3, <3>1 DEF TaskRecords
      <4> QED
        BY <1>1, <2>2, <4>1, <4>2 DEF CostsSound
    <3> QED
      BY <3>1, <3>2, <3>3, <3>4, <3>5, <3>6, <3>7 DEF Sound
  <2>5. PICK s : s = r
    OBVIOUS
  <2>6. Sound(t, s)'
    BY <2>4, <2>5
  <2> QED
    BY <2>1, <2>5, <2>6
<1> QED
  BY <1>3, <1>4, <1>5, <1>6, <1>7, <1>8 DEF Steady

LEMMA SteadyChangePrices ==
    ASSUME Types, Steady, met' = {}, NEW new, ChangePrices(new)
    PROVE  Steady'
<1>1. UNCHANGED <<today, on, db, queued, prices, kept, task>> /\ InStep /\ ~Enabling
  BY DEF ChangePrices, Meets, If, recorder, fingerprints
<1>2. Enabling' = Enabling /\ Missing' = Missing /\ \A k, d : Charged(k, d)' = Charged(k, d)
  BY <1>1, EnablingStays, ChargedStays
<1>3. Awaited' /\ Levels' /\ Known' /\ Alone'
  BY <1>1, <1>2 DEF Steady, Awaited, Levels, Sane, Known, Alone, Running
<1>4. Signs'
  BY <1>1, <1>2 DEF InStep, Signs, Agree
<1>5. \A d : Unsaved(d)' <=> Unsaved(d)
  BY <1>1 DEF Unsaved, Saving
<1>6. Unsigned'
  BY <1>1, <1>5 DEF Steady, Unsigned
<1>7. \A t \in Tasks : Sound(t, task[t])'
  <2>1. ASSUME NEW t \in Tasks, NEW r, Sound(t, r) PROVE Sound(t, r)'
    BY <1>1, <2>1, SoundStays
  <2>2. ASSUME NEW t \in Tasks PROVE Sound(t, task[t])'
    <3>1. PICK r : r = task[t]
      OBVIOUS
    <3>2. Sound(t, r)'
      BY <2>1, <3>1 DEF Steady
    <3> QED
      BY <1>1, <3>1, <3>2
  <2> QED
    BY <2>2
<1> QED
  BY <1>3, <1>4, <1>6, <1>7 DEF Steady

LEMMA IdleSoundNext == \A t \in Tasks : Sound(t, NoTask)'
BY NoTaskIs DEF Sound, Placed, Waits, SaveSound, HistorySound, ActionSound, Importing

\* No task runs any more.
LEMMA StartsOver ==
    ASSUME \A u \in Tasks : task'[u] = NoTask
    PROVE  Alone' /\ (\A u \in Tasks : Sound(u, task[u])') /\ \A d : ~Unsaved(d)'
<1>1. ASSUME NEW u \in Tasks PROVE Sound(u, task[u])'
  BY IdleSoundNext
<1>2. Alone' /\ \A d : ~Unsaved(d)'
  BY NoTaskIs DEF Alone, Running, Unsaved, Saving
<1> QED
  BY <1>1, <1>2

LEMMA ChargedSame ==
    ASSUME NEW k, NEW d, \A z \in Zones : queued'.cost[k][z][d] = queued.cost[k][z][d]
    PROVE  Charged(k, d)' = Charged(k, d)
BY DEF Charged

LEMMA SteadyCommit ==
    ASSUME Types, Steady, Commit
    PROVE  Steady'
<1>1. /\ queued # db /\ db' = queued
      /\ UNCHANGED <<today, tariff, on, queued, prices, kept, task>>
  BY DEF Commit, fingerprints
<1>2. \A k, d : Charged(k, d)' = Charged(k, d)
  BY <1>1, ChargedStays
<1>3. Levels'
  BY <1>1 DEF Steady, Levels, Sane, Types, Stores
<1>4. Awaited'
  <2>1. \A k \in on : queued.energy[k] # 0
    BY <1>1 DEF Steady, Levels
  <2>2. Missing' = {}
    BY <1>1, <2>1 DEF Missing
  <2> QED
    BY <2>2 DEF Awaited, Enabling
<1>5. Known' /\ Alone'
  BY <1>1 DEF Steady, Known, Alone, Running
<1>6. \A d : Unsaved(d)' <=> Unsaved(d)
  BY <1>1 DEF Unsaved, Saving
<1>7. Signs' /\ Unsigned'
  BY <1>1, <1>2, <1>6 DEF Steady, Signs, Agree, Unsigned
<1>8. ASSUME NEW t \in Tasks, NEW r, Sound(t, r) PROVE Sound(t, r)'
  <2>1. Placed(t, r)' /\ Waits(r)' /\ SaveSound(r)'
    BY <1>1, <1>2, <1>8 DEF Sound, Placed, Waits, SaveSound, ChargedAt
  <2>2. r.at \in Importing =>
          r.from <= r.to /\ (r.to < today' \/ (r.why = "action" /\ r.at = "fetch"))
    BY <1>1, <1>8 DEF Sound
  <2>3. t = "backfill" => r.at \notin {"fetch", "insert"}
    BY <1>1, <1>8, NoTaskIs DEF Sound, Placed, Waits
  <2>4. ActionSound(r) => ActionSound(r)'
    BY <1>1 DEF ActionSound
  <2>5. \A n : Level(n) => Level(n)'
    BY <1>1 DEF Level
  <2>6. UpdateSound(r) => UpdateSound(r)'
    BY <1>1, <2>5 DEF UpdateSound
  <2>7. CostsSound(r) => CostsSound(r)'
    BY <1>1, <2>5 DEF CostsSound, Uncosted
  <2>8. t = "backfill" => HistorySound(r)'
    BY <2>3 DEF HistorySound
  <2> QED
    BY <1>8, <2>1, <2>2, <2>4, <2>6, <2>7, <2>8 DEF Sound
<1>9. \A t \in Tasks : Sound(t, task[t])'
  <2>1. ASSUME NEW t \in Tasks PROVE Sound(t, task[t])'
    <3>1. PICK r : r = task[t]
      OBVIOUS
    <3>2. Sound(t, r)'
      BY <1>8, <3>1 DEF Steady
    <3> QED
      BY <1>1, <3>1, <3>2
  <2> QED
    BY <2>1
<1> QED
  BY <1>3, <1>4, <1>5, <1>7, <1>9 DEF Steady

LEMMA SteadyEnable ==
    ASSUME Types, Steady, met' = {}, NEW k \in Keys, Enable(k)
    PROVE  Steady'
<1>1. /\ k \notin on /\ on' = on \cup {k} /\ queued = db /\ InStep
      /\ UNCHANGED <<today, tariff, db, queued, prices, kept>>
      /\ \A i \in on \ Missing : db.energy[i] = today - 1
      /\ \A i \in on \cap Costed : Settled(i) = 1..db.energy[i]
  BY DEF Enable, Meets, If, UpToDate, recorder, fingerprints
<1>2. db.energy[k] = 0
  BY <1>1 DEF Steady, Levels, Sane
<1>3. Missing' = Missing \cup {k}
  BY <1>1, <1>2 DEF Missing
<1>4. \A u \in Tasks : task'[u] = NoTask
  <2>1. task["action"] = NoTask
    BY DEF Enable, Running, Steady, Sound, Placed, Importing, Tasks
  <2> QED
    BY <2>1 DEF Enable, Anew, Tasks
<1>5. Alone' /\ (\A u \in Tasks : Sound(u, task[u])') /\ \A d : ~Unsaved(d)'
  BY <1>4, StartsOver
<1>6. \A i, d : Charged(i, d)' = Charged(i, d)
  BY <1>1, ChargedStays
<1>7. Levels'
  BY <1>1 DEF Steady, Levels, Sane
<1>8. Known'
  BY <1>1 DEF Steady, Known
<1>9. Awaited'
  <2>1. ASSUME NEW i \in on, i \notin Missing PROVE Ready(i)'
    <3>1. db.energy[i] = today - 1
      BY <1>1, <2>1
    <3>2. ASSUME i \in Costed, NEW d \in Days, tariff.until # 0, d <= db.energy[i]
          PROVE  ChargedAt(i, d, tariff.price[d])
      <4>1. d \in 1..db.energy[i]
        BY <3>2 DEF Days, Types, Stores
      <4>2. d \in Settled(i)
        BY <1>1, <3>2, <4>1
      <4> QED
        BY <3>2, <4>2 DEF Settled, ChargedAt
    <3> QED
      BY <1>1, <1>6, <3>1, <3>2 DEF Ready, ChargedAt
  <2>2. on' \ Missing' \subseteq on \ Missing
    BY <1>1, <1>3
  <2> QED
    BY <2>1, <2>2 DEF Awaited
<1>10. Signs'
  <2> SUFFICES ASSUME NEW i \in on' \cap Costed, NEW d \in Days, queued.energy[i] # 0
               PROVE  Agree(i, d)'
    BY <1>1 DEF Signs
  <2>1. i \in on
    BY <1>1, <1>2
  <2>2. Agree(i, d)
    BY <1>1, <2>1 DEF InStep
  <2> QED
    BY <1>1, <1>6, <2>2 DEF Agree
<1>11. Unsigned'
  <2> SUFFICES ASSUME ~kept
               PROVE  /\ \A d \in Days : prices[d] = NoPrice
                      /\ \A i \in Costed, z \in Zones, d \in Days : queued.cost[i][z][d] = "none"
    BY <1>1 DEF Unsigned
  <2>1. \A d \in Days : prices[d] = NoPrice
    BY DEF Steady, Unsigned
  <2>2. ASSUME NEW i \in Costed, NEW z \in Zones, NEW d \in Days
        PROVE  queued.cost[i][z][d] = "none"
    <3>1. queued.cost[i][z][d] \in Marks /\ queued.cost[i][z][d] # "zero"
      BY DEF Types, Stores, Steady, Unsigned
    <3>2. CASE i \in on
      <4>1. Agree(i, d)
        BY <1>1, <3>2 DEF InStep
      <4>2. Charged(i, d) = {}
        BY <2>1, <4>1 DEF Agree
      <4>3. queued.cost[i][z][d] \notin Prices
        BY <4>2 DEF Charged
      <4> QED
        BY <3>1, <4>3 DEF Marks
    <3>3. CASE i \notin on
      <4>1. i \in Keys /\ queued.energy[i] = 0
        BY <3>3, PricingAssumption DEF Steady, Levels, Sane
      <4>2. ~(d <= 0)
        BY DEF Days
      <4> QED
        BY <4>1, <4>2 DEF Steady, Levels, Sane
    <3> QED
      BY <3>2, <3>3
  <2> QED
    BY <2>1, <2>2
<1> QED
  BY <1>5, <1>7, <1>8, <1>9, <1>10, <1>11 DEF Steady

\* A restart finds the fingerprints true: what is written without them is at the
\* prices of the moment.
LEMMA Settling ==
    ASSUME Types, Steady, ~WritingOld
    PROVE  \A k \in on \cap Costed, d \in Days :
            queued.energy[k] # 0 => Agree(k, d) \/ prices[d] # tariff.price[d]
<1> SUFFICES ASSUME NEW k \in on \cap Costed, NEW d \in Days, queued.energy[k] # 0,
                    prices[d] = tariff.price[d]
             PROVE  Agree(k, d)
  OBVIOUS
<1>1. CASE ~Unsaved(d)
  BY <1>1 DEF Steady, Signs
<1>2. CASE Unsaved(d)
  <2>1. PICK t \in Tasks : Saving(t, d)
    BY <1>2 DEF Unsaved
  <2>2. task[t].tariff = tariff
    BY <2>1 DEF Saving, WritingOld, TariffOf
  <2>3. ChargedAt(k, d, tariff.price[d])
    BY <2>1, <2>2 DEF Saving, Steady, Sound, SaveSound
  <2> QED
    BY <2>3 DEF ChargedAt, Agree
<1> QED
  BY <1>1, <1>2

LEMMA SteadyStop ==
    ASSUME Types, Steady, met' = {}, Stop
    PROVE  Steady'
<1>1. /\ ~WritingFirst /\ ~WritingOld /\ queued' = db'
      /\ UNCHANGED <<today, tariff, on, prices, kept>>
      /\ \A u \in Tasks : task'[u] = NoTask
  BY DEF Stop, Meets, Cut, If, Anew, fingerprints
<1>2. db' = queued \/ (~LosesSigned /\ db' = db)
  BY DEF Stop, Meets, If
<1>3. Alone' /\ (\A u \in Tasks : Sound(u, task[u])') /\ \A d : ~Unsaved(d)'
  BY <1>1, StartsOver
<1>4. Known'
  <2>1. CASE db' = queued
    BY <1>1, <2>1 DEF Steady, Known
  <2>2. CASE ~LosesSigned /\ db' = db
    <3> SUFFICES ASSUME NEW d \in Days, prices[d] # NoPrice
                 PROVE  \E k \in on : d <= db.energy[k]
      BY <1>1, <2>2 DEF Steady, Known
    <3>1. PICK k \in on : d <= queued.energy[k]
      BY DEF Steady, Known
    <3>2. k \in Keys /\ db.energy[k] \in Int /\ queued.energy[k] \in Int /\ d \in Int
      BY DEF Types, Stores, Days
    <3>3. d \notin (db.energy[k] + 1)..queued.energy[k]
      BY <2>2, <3>2 DEF LosesSigned
    <3> QED
      BY <3>1, <3>2, <3>3
  <2> QED
    BY <2>1, <2>2, <1>2
<1>5. Levels'
  <2>1. Sane(db') /\ Sane(queued')
    BY <1>1 DEF Stop, Steady, Levels
  <2>2. \A k \in Keys : db'.energy[k] \in 0..LastDay
    BY DEF Stop, Types, Stores
  <2> QED
    BY <1>1, <2>1, <2>2 DEF Levels, Sane
<1>6. \A k \in on \cap Costed, d \in Days :
        queued.energy[k] # 0 => Agree(k, d) \/ prices[d] # tariff.price[d]
  BY <1>1, Settling
<1>7. Unsigned'
  <2>1. ~kept => \A d : ~Unsaved(d)
    BY <1>1 DEF WritingFirst, Unsaved, Saving
  <2>2. db' \in {db, queued} /\ queued' \in {db, queued}
    BY <1>1 DEF Stop
  <2> QED
    BY <1>1, <1>3, <2>1, <2>2 DEF Steady, Unsigned
<1>8. CASE db' = queued
  <2>1. \A k, d : Charged(k, d)' = Charged(k, d)
    BY <1>1, <1>8, ChargedStays
  <2>2. Signs'
    BY <1>1, <1>6, <1>8, <2>1 DEF Signs, Agree
  <2>3. Awaited'
    <3>1. CASE queued = db
      <4>1. Enabling' = Enabling /\ Missing' = Missing
        BY <1>1, <1>8, <3>1, EnablingStays
      <4>2. \A k : Ready(k) => Ready(k)'
        BY <1>1, <1>8, <2>1, <3>1 DEF Ready, ChargedAt
      <4> QED
        BY <1>1, <4>1, <4>2 DEF Steady, Awaited
    <3>2. CASE queued # db
      <4>1. \A k \in on : queued.energy[k] # 0
        BY <3>2 DEF Steady, Levels
      <4>2. Missing' = {}
        BY <1>1, <1>8, <4>1 DEF Missing
      <4> QED
        BY <4>2 DEF Awaited, Enabling
    <3> QED
      BY <3>1, <3>2
  <2> QED
    BY <1>3, <1>4, <1>5, <1>7, <2>2, <2>3 DEF Steady
<1>9. CASE ~LosesSigned /\ db' = db
  <2>1. Enabling' = Enabling /\ Missing' = Missing
    BY <1>1, <1>9, EnablingStays
  <2>2. Signs'
    <3> SUFFICES ASSUME NEW k \in on \cap Costed, NEW d \in Days, db.energy[k] # 0,
                        prices[d] = tariff.price[d]
                 PROVE  Agree(k, d)'
      BY <1>1, <1>9 DEF Signs
    <3>1. queued.energy[k] # 0
      <4>1. db.energy[k] <= queued.energy[k] /\ db.energy[k] \in 0..LastDay
        BY PricingAssumption DEF Steady, Levels, Types, Stores
      <4> QED
        BY <4>1
    <3>2. Agree(k, d)
      BY <1>6, <3>1
    <3>3. \A z \in Zones : queued'.cost[k][z][d] = queued.cost[k][z][d]
      BY <1>1, <1>9, <3>2 DEF LosesSigned
    <3>4. Charged(k, d)' = Charged(k, d)
      BY <3>3, ChargedSame
    <3> QED
      BY <1>1, <3>2, <3>4 DEF Agree
  <2>3. Awaited'
    <3>1. ASSUME NEW k \in on, Ready(k) PROVE Ready(k)'
      <4>1. ASSUME k \in Costed, NEW d \in Days PROVE Charged(k, d)' = Charged(k, d)
        <5>1. \A z \in Zones : queued'.cost[k][z][d] = queued.cost[k][z][d]
          BY <1>1, <1>9, <3>1, <4>1 DEF Ready
        <5> QED
          BY <5>1, ChargedSame
      <4> QED
        BY <1>1, <1>9, <3>1, <4>1 DEF Ready, ChargedAt
    <3> QED
      BY <1>1, <2>1, <3>1 DEF Steady, Awaited
  <2> QED
    BY <1>3, <1>4, <1>5, <1>7, <2>2, <2>3 DEF Steady
<1> QED
  BY <1>8, <1>9, <1>2

-----------------------------------------------------------------------------
(* What a task writes. *)

\* What a task that is about to write relies on.
HistoryWrites(t) ==
    /\ t = "backfill" /\ task[t].why = "history" /\ task[t].keys = Missing /\ Missing # {}
    /\ task[t].from = 1 /\ (Enabling => task[t].to = today - 1)
    /\ \A d \in Days : prices[d] # NoPrice => d <= task[t].to

ActionWrites(t) ==
    /\ t = "action" /\ task[t].why = "action" /\ task[t].keys = on
    /\ \A j, k \in on :
        /\ queued.energy[j] = queued.energy[k]
        /\ task[t].from <= queued.energy[k] + 1

CostsWrites(t) ==
    /\ t = "refresh" /\ task[t].why \in {"reprice", "catch up"} /\ task[t].keys = on
    /\ Level(task[t].upTo) /\ task[t].to <= task[t].upTo
    /\ task[t].why = "catch up" => Uncosted(task[t].from, task[t].to)

UpdateWrites(t) ==
    /\ t = "refresh" /\ task[t].why = "update" /\ task[t].keys = on
    /\ Level(task[t].from - 1)

LEMMA Inserting ==
    ASSUME Types, Steady, NEW t \in Tasks, task[t].at = "insert"
    PROVE  /\ queued = db
           /\ task[t].from \in Int /\ task[t].to \in Int /\ today \in Int
           /\ 1 <= task[t].from /\ task[t].from <= task[t].to /\ task[t].to < today
           /\ HistoryWrites(t) \/ ActionWrites(t) \/ CostsWrites(t) \/ UpdateWrites(t)
<1> DEFINE me == task[t]
<1>1. Sound(t, me) /\ me \in TaskRecords /\ me.at = "insert" /\ me.at \in Importing
  BY DEF Steady, Types, Importing
<1>2. queued = db /\ me.from <= me.to /\ me.to < today
  BY <1>1 DEF Sound, Waits
<1>3. me.from \in Int /\ me.to \in Int /\ today \in Int /\ 1 <= me.from
  BY <1>1 DEF Types, TaskRecords, Days
<1>4. \/ t = "backfill" /\ me.why = "history"
      \/ t = "action" /\ me.why = "action"
      \/ t = "refresh" /\ me.why \in {"reprice", "catch up", "update"}
  BY <1>1, NoTaskIs DEF Sound, Placed
<1>5. t = "backfill" /\ me.why = "history" => HistoryWrites(t)
  BY <1>1 DEF Sound, HistorySound, HistoryWrites
<1>6. t = "action" /\ me.why = "action" => ActionWrites(t)
  BY <1>1 DEF Sound, ActionSound, ActionWrites
<1>7. t = "refresh" /\ me.why \in {"reprice", "catch up"} => CostsWrites(t)
  BY <1>1 DEF Sound, CostsSound, CostsWrites
<1>8. t = "refresh" /\ me.why = "update" => UpdateWrites(t)
  BY <1>1 DEF Sound, UpdateSound, UpdateWrites
<1> QED
  BY <1>2, <1>3, <1>4, <1>5, <1>6, <1>7, <1>8

LEMMA SomeMissing ==
    ASSUME Types, Steady, NEW t \in Tasks, task[t].at = "insert", Enabling
    PROVE  HistoryWrites(t)
<1>1. PICK k \in on : db.energy[k] = 0 /\ queued.energy[k] = 0
  BY Inserting, EnablingIs
<1>2. ~ActionWrites(t)
  <2>1. PICK j \in on : db.energy[j] # 0
    BY EnablingIs
  <2>2. queued.energy[j] # queued.energy[k]
    BY <1>1, <2>1, Inserting
  <2> QED
    BY <2>2 DEF ActionWrites
<1>3. \A n : ~Level(n)
  BY <1>1 DEF Level
<1> QED
  BY <1>2, <1>3, Inserting DEF CostsWrites, UpdateWrites

\* All the statistics that are on get to the same day.
LEMMA InsertLevels ==
    ASSUME Types, Steady, NEW t \in Tasks, task[t].at = "insert"
    PROVE  /\ \E n \in 1..(today - 1) : \A k \in on : Energies(t)[k] = n
           /\ \A k \in Keys \ on : Energies(t)[k] = 0
           /\ task[t].keys \subseteq on /\ task[t].keys # {}
           /\ \A k \in task[t].keys : task[t].to <= Energies(t)[k]
<1> DEFINE me == task[t]
<1>1. /\ me.from \in Int /\ me.to \in Int /\ today \in Int /\ queued = db
      /\ 1 <= me.from /\ me.from <= me.to /\ me.to < today
      /\ HistoryWrites(t) \/ ActionWrites(t) \/ CostsWrites(t) \/ UpdateWrites(t)
  BY Inserting
<1>2. on \subseteq Keys /\ \A k \in Keys : queued.energy[k] \in 0..LastDay
  BY DEF Types, Stores
<1>3. me.keys \subseteq on /\ me.keys # {}
  BY <1>1 DEF HistoryWrites, ActionWrites, CostsWrites, UpdateWrites, Missing, Steady, Known
<1>4. \A k \in Keys \ on : Energies(t)[k] = 0
  <2>1. \A k \in Keys \ on : k \notin me.keys /\ queued.energy[k] = 0
    BY <1>3 DEF Steady, Levels, Sane
  <2> QED
    BY <2>1, EnergyIs
<1>5. CASE HistoryWrites(t)
  <2>1. \A k \in Missing : queued.energy[k] = 0
    BY <1>1 DEF Missing
  <2>2. \A k \in Missing : Energies(t)[k] = me.to
    <3> SUFFICES ASSUME NEW k \in Missing PROVE Energies(t)[k] = me.to
      OBVIOUS
    <3>1. k \in Keys /\ k \in me.keys /\ me.why \notin {"reprice", "catch up"}
      BY <1>2, <1>5 DEF HistoryWrites, Missing
    <3>2. me.to <= Energies(t)[k] /\ Energies(t)[k] \in {queued.energy[k], me.to}
      BY <3>1, EnergyIs
    <3> QED
      BY <1>1, <2>1, <3>2
  <2>3. \A k \in on \ Missing : Energies(t)[k] = queued.energy[k]
    BY <1>2, <1>5, EnergyIs DEF HistoryWrites
  <2>4. \A k \in on \ Missing : queued.energy[k] = me.to
    <3> SUFFICES ASSUME NEW k \in on, k \notin Missing PROVE queued.energy[k] = me.to
      OBVIOUS
    <3>1. db.energy[k] # 0 /\ \E j \in on : db.energy[j] = 0
      BY <1>5 DEF Missing, HistoryWrites
    <3>2. Enabling
      BY <3>1, EnablingIs
    <3> QED
      BY <1>1, <1>5, <3>2 DEF HistoryWrites, Steady, Awaited, Ready
  <2>5. \A k \in on : Energies(t)[k] = me.to
    BY <2>2, <2>3, <2>4
  <2>6. me.to \in 1..(today - 1)
    BY <1>1
  <2>7. \A k \in me.keys : me.to <= Energies(t)[k]
    BY <1>1, <1>3, <2>5
  <2> QED
    BY <1>3, <1>4, <2>5, <2>6, <2>7
<1>6. CASE ActionWrites(t)
  <2>1. ASSUME NEW k \in on
        PROVE  Energies(t)[k] \in {queued.energy[k], me.to} /\ me.to <= Energies(t)[k]
               /\ queued.energy[k] <= Energies(t)[k]
    BY <1>2, <1>6, EnergyIs DEF ActionWrites
  <2>2. CASE on = {}
    <3>1. 1 \in 1..(today - 1)
      BY <1>1
    <3> QED
      BY <1>3, <1>4, <2>2, <3>1
  <2>3. ASSUME NEW j \in on PROVE \E n \in 1..(today - 1) : \A k \in on : Energies(t)[k] = n
    <3>1. \A k \in on : queued.energy[k] = queued.energy[j]
      BY <1>2, <1>6 DEF ActionWrites, Steady, Levels, Sane
    <3>2. queued.energy[j] < today /\ queued.energy[j] \in Int
      BY <1>2 DEF Steady, Levels, Sane
    <3>3. \A k \in on : Energies(t)[k] = Energies(t)[j]
      BY <1>1, <2>1, <3>1, <3>2
    <3>4. Energies(t)[j] \in 1..(today - 1)
      BY <1>1, <2>1, <3>2
    <3> QED
      BY <3>3, <3>4
  <2> QED
    BY <1>3, <1>4, <2>1, <2>2, <2>3
<1>7. CASE CostsWrites(t)
  <2>1. me.upTo \in 1..(today - 1) /\ \A k \in on : queued.energy[k] = me.upTo
    BY <1>7 DEF CostsWrites, Level
  <2>2. \A k \in on : Energies(t)[k] = me.upTo
    BY <1>2, <1>7, <2>1, EnergyIs DEF CostsWrites
  <2>3. \A k \in me.keys : me.to <= Energies(t)[k]
    BY <1>3, <1>7, <2>2 DEF CostsWrites
  <2> QED
    BY <1>3, <1>4, <2>1, <2>2, <2>3
<1>8. CASE UpdateWrites(t)
  <2>1. \A k \in on : queued.energy[k] = me.from - 1
    BY <1>8 DEF UpdateWrites, Level
  <2>2. \A k \in on : Energies(t)[k] = me.to
    <3> SUFFICES ASSUME NEW k \in on PROVE Energies(t)[k] = me.to
      OBVIOUS
    <3>1. Energies(t)[k] \in {queued.energy[k], me.to} /\ me.to <= Energies(t)[k]
      BY <1>2, <1>8, EnergyIs DEF UpdateWrites
    <3> QED
      BY <1>1, <2>1, <3>1
  <2>3. me.to \in 1..(today - 1) /\ \A k \in me.keys : me.to <= Energies(t)[k]
    BY <1>1, <1>3, <2>2
  <2> QED
    BY <1>3, <1>4, <2>2, <2>3
<1> QED
  BY <1>1, <1>5, <1>6, <1>7, <1>8

\* Task t writes the costs of zones S.
Writes(t, S) ==
    /\ queued' = [energy |-> Energies(t), cost |-> Costs(t, S)]
    /\ UNCHANGED <<today, tariff, on, db, prices, kept>>

LEMMA Untouched ==
    ASSUME NEW t \in Tasks, NEW S, Writes(t, S), NEW k \in Costed, NEW d \in Days,
           ~Computes(t, k, d)
    PROVE  /\ \A z \in Zones : queued'.cost[k][z][d] = queued.cost[k][z][d]
           /\ Charged(k, d)' = Charged(k, d)
<1>1. \A z \in Zones : queued'.cost[k][z][d] = queued.cost[k][z][d]
  BY CostIs DEF Writes
<1> QED
  BY <1>1, ChargedSame

LEMMA LevelsWritten ==
    ASSUME Types, Steady, NEW t \in Tasks, task[t].at = "insert", NEW S, Writes(t, S)
    PROVE  Levels'
<1> DEFINE me == task[t]
<1>1. PICK n \in 1..(today - 1) : \A k \in on : Energies(t)[k] = n
  BY InsertLevels
<1>2. /\ \A k \in Keys \ on : Energies(t)[k] = 0
      /\ me.keys \subseteq on /\ \A k \in me.keys : me.to <= Energies(t)[k]
      /\ queued = db /\ today \in Int /\ me.to \in Int
  BY InsertLevels, Inserting
<1>3. \A k \in Keys : queued.energy[k] <= Energies(t)[k] /\ Energies(t)[k] \in 0..LastDay
                        /\ queued.energy[k] \in 0..LastDay
  BY EnergyIs DEF Types, Stores
<1>4. /\ queued'.energy = Energies(t) /\ queued'.cost = Costs(t, S)
      /\ today' = today /\ on' = on /\ db' = db
  BY DEF Writes
<1>5. Sane(queued)'
  <2>1. ASSUME NEW k \in Costed, NEW z \in Zones, NEW d \in Days, Costs(t, S)[k][z][d] # "none"
        PROVE  d <= Energies(t)[k]
    <3>1. k \in Keys /\ d \in Int
      BY PricingAssumption DEF Days
    <3>2. CASE Computes(t, k, d)
      <4>1. k \in me.keys /\ d <= me.to
        BY <1>2, <3>1, <3>2 DEF Computes
      <4> QED
        BY <1>2, <1>3, <3>1, <4>1
    <3>3. CASE ~Computes(t, k, d)
      <4>1. queued.cost[k][z][d] # "none"
        BY <1>4, <2>1, <3>3, Untouched
      <4>2. d <= queued.energy[k]
        BY <4>1 DEF Steady, Levels, Sane
      <4> QED
        BY <1>3, <3>1, <4>2
    <3> QED
      BY <3>2, <3>3
  <2>2. \A k \in Keys : Energies(t)[k] < today
    BY <1>1, <1>2
  <2>3. \A j, k \in Keys :
            Energies(t)[j] # 0 /\ Energies(t)[k] # 0 => Energies(t)[j] = Energies(t)[k]
    BY <1>1, <1>2
  <2> QED
    BY <1>2, <1>4, <2>1, <2>2, <2>3 DEF Sane
<1>6. Sane(db)'
  BY <1>4 DEF Steady, Levels, Sane
<1>7. \A k \in on : Energies(t)[k] # 0
  BY <1>1
<1> QED
  BY <1>2, <1>3, <1>4, <1>5, <1>6, <1>7 DEF Levels

LEMMA AwaitedWritten ==
    ASSUME Types, Steady, NEW t \in Tasks, task[t].at = "insert", NEW S, Writes(t, S)
    PROVE  Awaited'
<1>1. Enabling' = Enabling /\ Missing' = Missing
  BY EnablingStays DEF Writes
<1>2. ASSUME Enabling, NEW k \in on \ Missing PROVE Ready(k)'
  <2>1. Ready(k) /\ k \notin task[t].keys
    BY <1>2, SomeMissing DEF Steady, Awaited, HistoryWrites
  <2>2. \A d \in Days : ~Computes(t, k, d)
    BY <2>1 DEF Computes
  <2>3. db'.energy[k] = today' - 1
    BY <2>1 DEF Ready, Writes
  <2>4. ASSUME k \in Costed, NEW d \in Days
        PROVE  /\ \A z \in Zones : db'.cost[k][z][d] = queued'.cost[k][z][d]
               /\ tariff'.until # 0 /\ d <= db'.energy[k] => ChargedAt(k, d, tariff.price[d])'
    <3>1. /\ \A z \in Zones : queued'.cost[k][z][d] = queued.cost[k][z][d]
          /\ Charged(k, d)' = Charged(k, d)
      BY <2>2, <2>4, Untouched
    <3>2. /\ \A z \in Zones : db.cost[k][z][d] = queued.cost[k][z][d]
          /\ tariff.until # 0 /\ d <= db.energy[k] => ChargedAt(k, d, tariff.price[d])
      BY <2>1, <2>4 DEF Ready
    <3> QED
      BY <3>1, <3>2 DEF ChargedAt, Writes
  <2> QED
    BY <2>3, <2>4 DEF Ready
<1> QED
  BY <1>1, <1>2 DEF Awaited, Writes

\* What is left of the costs of a day once it is written is at no price.
LEMMA LeftOver ==
    ASSUME Types, Steady, NEW t \in Tasks, task[t].at = "insert",
           NEW k \in Costed, NEW z \in Zones, NEW d \in Days, Computes(t, k, d)
    PROVE  Rewrites(task[t].why) \/ queued.cost[k][z][d] = "none"
<1> DEFINE me == task[t]
<1>1. /\ k \in me.keys /\ d \in me.from..me.to /\ k \in Keys /\ d \in Int /\ 1 <= d
      /\ k \in on
  BY InsertLevels, PricingAssumption DEF Computes, Days
<1>2. ASSUME ~(d <= queued.energy[k]) PROVE queued.cost[k][z][d] = "none"
  BY <1>2 DEF Steady, Levels, Sane
<1>3. CASE HistoryWrites(t)
  <2>1. queued.energy[k] = 0
    BY <1>1, <1>3, Inserting DEF HistoryWrites, Missing
  <2> QED
    BY <1>1, <1>2, <2>1
<1>4. CASE ActionWrites(t)
  BY <1>4 DEF ActionWrites, Rewrites
<1>5. CASE CostsWrites(t)
  BY <1>1, <1>5 DEF CostsWrites, Rewrites, Uncosted
<1>6. CASE UpdateWrites(t)
  <2>1. queued.energy[k] = me.from - 1
    BY <1>1, <1>6 DEF UpdateWrites, Level
  <2> QED
    BY <1>1, <1>2, <2>1, Inserting
<1> QED
  BY <1>3, <1>4, <1>5, <1>6, Inserting

\* Each day that is computed is charged once, in the zone of its price.
LEMMA Recosted ==
    ASSUME Types, Steady, NEW t \in Tasks, task[t].at = "insert", Writes(t, Zones),
           NEW k \in Costed, NEW d \in Days, Computes(t, k, d)
    PROVE  Charged(k, d)' = {TariffOf(t).price[d]} \ {NoPrice}
<1> DEFINE price == TariffOf(t).price[d]
           new(z) == queued'.cost[k][z][d]
<1>1. price \in Prices \cup {NoPrice} /\ NoPrice \notin Prices
  BY TariffOfIs, PricingAssumption DEF Tables, Prints
<1>2. ASSUME NEW z \in Zones
      PROVE  (InZone(price, z) /\ new(z) = price) \/ (~InZone(price, z) /\ new(z) \notin Prices)
  <2>1. /\ InZone(price, z) => new(z) = price
        /\ ~InZone(price, z) /\ Rewrites(task[t].why) /\ db.cost[k][z][d] # "none" => new(z) = "zero"
        /\ ~InZone(price, z) /\ ~(Rewrites(task[t].why) /\ db.cost[k][z][d] # "none")
             => new(z) = queued.cost[k][z][d]
    BY CostIs DEF Writes
  <2>2. "zero" \notin Prices /\ "none" \notin Prices
    BY PricingAssumption
  <2>3. queued.cost[k][z][d] = "none" \/ Rewrites(task[t].why)
    BY LeftOver
  <2>4. queued = db
    BY Inserting
  <2>5. CASE InZone(price, z)
    BY <2>1, <2>5
  <2>6. CASE ~InZone(price, z)
    BY <2>1, <2>2, <2>3, <2>4, <2>6
  <2> QED
    BY <2>5, <2>6
<1>3. Charged(k, d)' = {new(z) : z \in Zones} \cap Prices
  BY DEF Charged
<1> HIDE DEF price, new
<1>4. CASE price \in Prices
  <2>1. Zone[price] \in Zones /\ InZone(price, Zone[price])
    BY <1>4, PricingAssumption DEF InZone
  <2>2. new(Zone[price]) = price
    BY <1>2, <2>1
  <2>3. \A z \in Zones : new(z) \in Prices => new(z) = price
    BY <1>2
  <2>4. {new(z) : z \in Zones} \cap Prices = {price}
    BY <1>4, <2>1, <2>2, <2>3
  <2> QED
    BY <1>1, <1>3, <1>4, <2>4 DEF price
<1>5. CASE price = NoPrice
  <2>1. \A z \in Zones : new(z) \notin Prices
    BY <1>1, <1>2, <1>5 DEF InZone
  <2>2. {new(z) : z \in Zones} \cap Prices = {}
    BY <2>1
  <2> QED
    BY <1>3, <1>5, <2>2 DEF price
<1> QED
  BY <1>1, <1>4, <1>5

\* The fingerprints of what is not computed stay true.
LEMMA UntouchedAgree ==
    ASSUME Types, Steady, NEW t \in Tasks, task[t].at = "insert", NEW S, Writes(t, S),
           NEW k \in on \cap Costed, NEW d \in Days, ~Computes(t, k, d),
           queued.energy[k] # 0 \/ TariffOf(t).until = 0 \/ d \notin task[t].from..task[t].to
    PROVE  Agree(k, d)' \/ prices[d] # tariff.price[d]
<1>1. Charged(k, d)' = Charged(k, d) /\ prices' = prices
  BY Untouched DEF Writes
<1>2. SUFFICES Agree(k, d) \/ prices[d] # tariff.price[d]
  BY <1>1 DEF Agree
<1>3. ~Unsaved(d)
  BY OthersIdle, NoTaskIs DEF Unsaved, Saving
<1>4. CASE queued.energy[k] # 0
  BY <1>3, <1>4 DEF Steady, Signs
<1>5. CASE queued.energy[k] = 0
  <2>1. CASE prices[d] = NoPrice
    <3>1. \A z \in Zones : queued.cost[k][z][d] = "none"
      <4>1. ~(d <= queued.energy[k]) /\ k \in Costed
        BY <1>5 DEF Days
      <4> QED
        BY <4>1 DEF Steady, Levels, Sane
    <3>2. Charged(k, d) = {}
      BY <3>1, PricingAssumption DEF Charged
    <3> QED
      BY <2>1, <3>2 DEF Agree
  <2>2. CASE prices[d] # NoPrice
    <3>1. HistoryWrites(t)
      <4>1. PICK j \in on : d <= queued.energy[j]
        BY <2>2 DEF Steady, Known
      <4>2. queued.energy[j] # queued.energy[k]
        BY <1>5, <4>1 DEF Days
      <4>3. ~ActionWrites(t)
        BY <4>2 DEF ActionWrites
      <4>4. \A n : ~Level(n)
        BY <1>5 DEF Level
      <4> QED
        BY <4>3, <4>4, Inserting DEF CostsWrites, UpdateWrites
    <3>2. TariffOf(t) = tariff
      BY <3>1 DEF TariffOf, HistoryWrites
    <3>3. d <= task[t].to /\ task[t].from = 1
      BY <2>2, <3>1 DEF HistoryWrites
    <3>4. d \in task[t].from..task[t].to
      BY <3>3, Inserting DEF Days
    <3>5. tariff.until = 0
      BY <1>5, <3>2, <3>4
    <3>6. tariff.price[d] = NoPrice
      BY <3>5 DEF Types, Tables, IsTable, Days
    <3> QED
      BY <2>2, <3>6
  <2> QED
    BY <2>1, <2>2
<1> QED
  BY <1>4, <1>5

LEMMA KnownWritten ==
    ASSUME Types, Steady, NEW t \in Tasks, NEW S, Writes(t, S)
    PROVE  Known'
<1>1. /\ on' = on /\ prices' = prices /\ queued'.energy = Energies(t) /\ on \subseteq Keys
      /\ \A k \in Keys : /\ queued.energy[k] <= Energies(t)[k]
                         /\ queued.energy[k] \in Int /\ Energies(t)[k] \in Int
  <2>1. on' = on /\ prices' = prices /\ queued'.energy = Energies(t)
    BY DEF Writes
  <2>2. ASSUME NEW k \in Keys
        PROVE  /\ queued.energy[k] <= Energies(t)[k]
               /\ queued.energy[k] \in Int /\ Energies(t)[k] \in Int
    <3>1. queued.energy[k] \in 0..LastDay
      BY DEF Types, Stores
    <3>2. Energies(t)[k] \in 0..LastDay /\ queued.energy[k] <= Energies(t)[k]
      BY EnergyIs
    <3> QED
      BY <3>1, <3>2
  <2> QED
    BY <2>1, <2>2 DEF Types
<1>2. ASSUME NEW d \in Days, prices[d] # NoPrice PROVE \E k \in on : d <= Energies(t)[k]
  <2>1. PICK k \in on : d <= queued.energy[k]
    BY <1>2 DEF Steady, Known
  <2>2. d <= Energies(t)[k]
    BY <1>1, <2>1 DEF Days
  <2> QED
    BY <2>2
<1> QED
  BY <1>1, <1>2 DEF Steady, Known

LEMMA SteadyInsert ==
    ASSUME Types, Steady, NEW t \in Tasks, Insert(t)
    PROVE  Steady'
<1> DEFINE me == task[t]
           next == [me EXCEPT !.at = "save", !.tariff = TariffOf(t)]
<1>1. /\ me.at = "insert" /\ me \in TaskRecords /\ Sound(t, me) /\ Writes(t, Zones)
      /\ task' = [task EXCEPT ![t] = next] /\ task \in [Tasks -> TaskRecords]
  BY DEF Insert, Types, Steady, Goes, Writes, fingerprints
<1>2. /\ next.at = "save" /\ next.tariff = TariffOf(t) /\ next.why = me.why
      /\ next.keys = me.keys /\ next.from = me.from /\ next.to = me.to
      /\ next.upTo = me.upTo /\ next.yesterday = me.yesterday
  BY <1>1 DEF TaskRecords
<1> HIDE DEF next
<1>3. \A u \in Tasks : u # t => task[u] = NoTask
  BY <1>1, OthersIdle
<1>4. task'[t] = next /\ \A u \in Tasks : u # t => task'[u] = NoTask
  BY <1>1, <1>3
<1>5. Levels' /\ Awaited'
  BY <1>1, LevelsWritten, AwaitedWritten
<1>6. Known' /\ Alone'
  BY <1>1, <1>4, KnownWritten, NoTaskIs DEF Alone, Running
<1>7. \A d : /\ ~Unsaved(d)
             /\ Unsaved(d)' <=> TariffOf(t).until # 0 /\ d \in me.from..me.to
  BY <1>1, <1>2, <1>3, <1>4, NoTaskIs DEF Unsaved, Saving
<1>8. Signs'
  <2> SUFFICES ASSUME NEW k \in on \cap Costed, NEW d \in Days, ~Unsaved(d)'
               PROVE  Agree(k, d)' \/ prices[d] # tariff.price[d]
    BY <1>1 DEF Signs, Writes
  <2>1. TariffOf(t).until = 0 \/ d \notin me.from..me.to
    BY <1>7
  <2>2. ~Computes(t, k, d)
    BY <2>1 DEF Computes
  <2> QED
    BY <1>1, <2>1, <2>2, UntouchedAgree
<1>9. Unsigned'
  <2> SUFFICES ASSUME ~kept PROVE Unsigned'
    BY <1>1 DEF Unsigned, Writes
  <2>1. /\ \A d \in Days : prices[d] = NoPrice
        /\ \A k \in Costed, z \in Zones, d \in Days :
            db.cost[k][z][d] = "none" /\ queued.cost[k][z][d] = "none"
    BY <1>7 DEF Steady, Unsigned
  <2>2. ASSUME NEW k \in Costed, NEW z \in Zones, NEW d \in Days
        PROVE  /\ queued'.cost[k][z][d] # "zero"
               /\ queued'.cost[k][z][d] # "none" => Unsaved(d)'
    <3>1. CASE ~Computes(t, k, d)
      BY <1>1, <2>1, <3>1, Untouched
    <3>2. CASE Computes(t, k, d)
      <4>1. Unsaved(d)'
        BY <1>7, <3>2 DEF Computes
      <4>2. \/ queued'.cost[k][z][d] = queued.cost[k][z][d]
            \/ queued'.cost[k][z][d] \in Prices
        BY <1>1, <2>1, CostIs DEF Writes, InZone
      <4>3. queued'.cost[k][z][d] # "zero"
        BY <2>1, <4>2, PricingAssumption
      <4> QED
        BY <4>1, <4>3
    <3> QED
      BY <3>1, <3>2
  <2>3. /\ db' = db /\ prices' = prices
    BY <1>1 DEF Writes
  <2> QED
    BY <2>1, <2>2, <2>3 DEF Unsigned
<1>10. ASSUME NEW s, s = next PROVE SaveSound(s)'
  <2>1. \A k \in on : queued'.energy[k] # 0
    <3>1. PICK n \in 1..(today - 1) : \A k \in on : Energies(t)[k] = n
      BY <1>1, InsertLevels
    <3> QED
      BY <1>1, <3>1 DEF Writes
  <2>2. ASSUME TariffOf(t).until # 0, NEW k \in on \cap Costed, NEW d \in me.from..me.to
        PROVE  Charged(k, d)' = {TariffOf(t).price[d]} \ {NoPrice}
    <3>1. d \in Days
      <4>1. me.from \in 1..LastDay /\ me.to \in 0..LastDay
        BY <1>1 DEF TaskRecords, Days
      <4> QED
        BY <4>1, PricingAssumption DEF Days
    <3>2. CASE k \in me.keys
      BY <1>1, <2>2, <3>1, <3>2, Recosted DEF Computes
    <3>3. CASE k \notin me.keys
      <4>1. HistoryWrites(t) /\ queued = db
        BY <1>1, <3>3, Inserting DEF ActionWrites, CostsWrites, UpdateWrites
      <4>2. k \notin Missing /\ Missing # {}
        BY <3>3, <4>1 DEF HistoryWrites
      <4>3. Enabling
        <5>1. db.energy[k] # 0 /\ \E j \in on : db.energy[j] = 0
          BY <4>2 DEF Missing
        <5> QED
          BY <5>1, EnablingIs
      <4>4. Ready(k) /\ me.to = today - 1
        BY <4>1, <4>2, <4>3 DEF Steady, Awaited, HistoryWrites
      <4>5. TariffOf(t) = tariff
        BY <1>1, <4>1 DEF HistoryWrites, TariffOf
      <4>6. d <= db.energy[k]
        BY <4>4 DEF Ready
      <4>7. Charged(k, d) = {tariff.price[d]} \ {NoPrice}
        BY <2>2, <3>1, <4>4, <4>5, <4>6 DEF Ready, ChargedAt
      <4>8. Charged(k, d)' = Charged(k, d)
        BY <1>1, <3>1, <3>3, Untouched DEF Computes
      <4> QED
        BY <4>5, <4>7, <4>8
    <3> QED
      BY <3>2, <3>3
  <2>3. on' = on
    BY <1>1 DEF Writes
  <2>4. \E k \in on : me.to <= queued'.energy[k]
    BY <1>1, InsertLevels DEF Writes
  <2> QED
    BY <1>2, <1>10, <2>1, <2>2, <2>3, <2>4 DEF SaveSound, ChargedAt
<1>11. ASSUME NEW s, s = next PROVE Sound(t, s)'
  <2>1. SaveSound(s)'
    BY <1>10, <1>11
  <2>2. Placed(t, s)' /\ Waits(s)'
    BY <1>1, <1>2, <1>11, NoTaskIs DEF Sound, Placed, Waits, Importing
  <2>3. s.from <= s.to /\ s.to < today'
    BY <1>1, <1>2, <1>11, Inserting DEF Writes
  <2>4. HistorySound(s)' /\ ActionSound(s)'
    BY <1>2, <1>11 DEF HistorySound, ActionSound
  <2>5. t = "refresh" /\ me.why = "update" => UpdateSound(s)'
    BY <1>1, <1>2, <1>11 DEF Sound, UpdateSound, Writes
  <2>6. t = "refresh" /\ me.why # "update" => CostsSound(s)'
    <3> SUFFICES ASSUME t = "refresh", me.why # "update" PROVE CostsSound(s)'
      OBVIOUS
    <3>1. CostsSound(me) /\ me.why \in {"reprice", "catch up"}
      BY <1>1, NoTaskIs DEF Sound, Placed
    <3>2. \A k \in on : Energies(t)[k] = queued.energy[k]
      BY <3>1, EnergyIs DEF Types
    <3>3. ASSUME NEW n, n = me.upTo PROVE Level(n)'
      BY <1>1, <3>1, <3>2, <3>3 DEF CostsSound, Level, Writes
    <3> QED
      BY <1>1, <1>2, <1>11, <3>1, <3>3 DEF CostsSound, Importing, Writes
  <2> QED
    BY <1>2, <1>11, <2>1, <2>2, <2>3, <2>4, <2>5, <2>6 DEF Sound
<1>12. \A u \in Tasks : Sound(u, task[u])'
  <2>1. ASSUME NEW u \in Tasks PROVE Sound(u, task[u])'
    <3>1. CASE u = t
      <4>1. PICK s : s = next
        OBVIOUS
      <4>2. Sound(t, s)'
        BY <1>11, <4>1
      <4> QED
        BY <1>4, <3>1, <4>1, <4>2
    <3>2. CASE u # t
      BY <1>4, <3>2, IdleSoundNext
    <3> QED
      BY <3>1, <3>2
  <2> QED
    BY <2>1
<1> QED
  BY <1>5, <1>6, <1>8, <1>9, <1>12 DEF Steady

\* Cutting a rewrite at the prices of the fingerprint short loses nothing.
LEMMA CutKeeps ==
    ASSUME Types, NEW t \in Tasks, NEW S, Writes(t, S), NEW k \in Costed, NEW d \in Days,
           Agree(k, d), prices[d] = TariffOf(t).price[d]
    PROVE  Agree(k, d)'
<1> DEFINE price == TariffOf(t).price[d]
           old(z) == queued.cost[k][z][d]
           new(z) == queued'.cost[k][z][d]
<1>1. {old(z) : z \in Zones} \cap Prices = {price} \ {NoPrice}
  BY DEF Agree, Charged
<1>2. \A z \in Zones : old(z) \in Prices => old(z) = price /\ Zone[price] = z
  BY <1>1 DEF Types, Zoned
<1>3. "zero" \notin Prices /\ NoPrice \notin Prices
  BY PricingAssumption
<1>4. ASSUME NEW z \in Zones
      PROVE  /\ new(z) \in Prices <=> old(z) \in Prices
             /\ new(z) \in Prices => new(z) = old(z)
  <2>1. new(z) = old(z) \/ new(z) = "zero" \/ (InZone(price, z) /\ new(z) = price)
    BY CostIs DEF Writes
  <2>2. CASE InZone(price, z)
    <3>1. price \in Prices /\ Zone[price] = z
      BY <2>2 DEF InZone
    <3>2. PICK y \in Zones : old(y) = price
      BY <1>1, <1>3, <3>1
    <3>3. old(z) = price
      BY <1>2, <3>1, <3>2
    <3>4. new(z) # "zero"
      <4>1. new(z) = old(z) \/ new(z) = price
        BY <2>2, CostIs DEF Writes
      <4> QED
        BY <1>3, <3>1, <3>3, <4>1
    <3> QED
      BY <2>1, <3>3, <3>4
  <2>3. CASE ~InZone(price, z)
    <3>1. old(z) \notin Prices
      BY <1>2, <2>3 DEF InZone
    <3> QED
      BY <1>3, <2>1, <2>3, <3>1
  <2> QED
    BY <2>2, <2>3
<1> HIDE DEF price, old, new
<1>5. {new(z) : z \in Zones} \cap Prices = {old(z) : z \in Zones} \cap Prices
  BY <1>4
<1>6. Charged(k, d)' = {new(z) : z \in Zones} \cap Prices
  BY DEF Charged, new
<1> QED
  BY <1>1, <1>5, <1>6 DEF Agree, Writes, price

LEMMA SteadyInsertCut ==
    ASSUME Types, Steady, met' = {}, NEW t \in Tasks, NEW S, InsertCut(t, S)
    PROVE  Steady'
<1> DEFINE me == task[t]
<1>1. /\ me.at = "insert" /\ t # "action" /\ Writes(t, S) /\ ~WritingFirst /\ ~WritingOld
  BY DEF InsertCut, Meets, Cut, If, Writes, fingerprints
<1>2. kept /\ (me.why = "history" => me.keys \cap Costed = {}) /\ TariffOf(t) = tariff
  BY <1>1 DEF WritingFirst, WritingOld
<1>3. \A u \in Tasks : u # t => task[u] = NoTask
  BY <1>1, OthersIdle
<1>4. \A u \in Tasks : task'[u] = NoTask
  BY <1>1, <1>3 DEF InsertCut, Anew, Tasks
<1>5. Alone' /\ (\A u \in Tasks : Sound(u, task[u])') /\ \A d : ~Unsaved(d)'
  BY <1>4, StartsOver
<1>6. Levels' /\ Awaited'
  BY <1>1, LevelsWritten, AwaitedWritten
<1>7. Known' /\ Unsigned'
  BY <1>1, <1>2, KnownWritten DEF Unsigned, Writes
<1>8. Signs'
  <2> SUFFICES ASSUME NEW k \in on \cap Costed, NEW d \in Days
               PROVE  Agree(k, d)' \/ prices[d] # tariff.price[d]
    BY <1>1 DEF Signs, Writes
  <2>1. CASE queued.energy[k] # 0
    <3>1. ~Unsaved(d)
      BY <1>1, <1>3, NoTaskIs DEF Unsaved, Saving
    <3>2. Agree(k, d) \/ prices[d] # tariff.price[d]
      BY <2>1, <3>1 DEF Steady, Signs
    <3> QED
      BY <1>1, <1>2, <3>2, CutKeeps
  <2>2. CASE queued.energy[k] = 0
    <3>1. HistoryWrites(t) /\ k \in me.keys
      <4>1. ~ActionWrites(t)
        BY <1>1 DEF ActionWrites
      <4>2. \A n : ~Level(n)
        BY <2>2 DEF Level
      <4>3. HistoryWrites(t)
        BY <1>1, <4>1, <4>2, Inserting DEF CostsWrites, UpdateWrites
      <4> QED
        BY <1>1, <2>2, <4>3, Inserting DEF HistoryWrites, Missing
    <3> QED
      BY <1>2, <3>1 DEF HistoryWrites
  <2> QED
    BY <2>1, <2>2
<1> QED
  BY <1>5, <1>6, <1>7, <1>8 DEF Steady

-----------------------------------------------------------------------------
(* What the fingerprints promise. *)

LEMMA InitSteady == Init => Steady
<1> SUFFICES ASSUME Init PROVE Steady
  OBVIOUS
<1>1. /\ today = 1 /\ kept = FALSE /\ queued = db
      /\ \A k \in Keys : db.energy[k] = 0
      /\ \A k \in Costed, z \in Zones, d \in Days : db.cost[k][z][d] = "none"
      /\ \A d \in Days : prices[d] = NoPrice
      /\ \A t \in Tasks : task[t] = NoTask
      /\ on \subseteq Keys
  BY PricingAssumption DEF Init
<1>2. Types
  BY InitTypes
<1>3. Levels /\ Known
  <2>1. on # {}
    BY PricingAssumption DEF Init
  <2> QED
    BY <1>1, <2>1 DEF Levels, Sane, Known
<1>4. ~Enabling
  BY <1>1, <1>2, EnablingIs
<1>5. Signs
  BY <1>1 DEF Signs, Types
<1>6. Unsigned
  BY <1>1 DEF Unsigned
<1>7. Alone /\ \A t \in Tasks : Sound(t, task[t])
  BY <1>1, NoTaskIs, IdleSound DEF Alone, Running
<1> QED
  BY <1>3, <1>4, <1>5, <1>6, <1>7 DEF Steady, Awaited

LEMMA NextSteady == Types /\ Steady /\ met' = {} /\ [Next]_vars => Steady'
<1> SUFFICES ASSUME Types, Steady, met' = {}, [Next]_vars PROVE Steady'
  OBVIOUS
<1>1. CASE Midnight \/ Commit \/ Stop
  BY <1>1, SteadyMidnight, SteadyCommit, SteadyStop
<1>2. CASE \E t \in Tariffs : ChangePrices(t)
  BY <1>2, SteadyChangePrices
<1>3. CASE \E k \in Keys : Enable(k)
  BY <1>3, SteadyEnable
<1>4. CASE \E from, to \in Days : Action(from, to)
  BY <1>4, SteadyAction
<1>5. CASE RefreshStep
  BY <1>5, SteadyImportHistory, SteadyStartCosts, SteadyReprice, SteadyCatchUp, SteadyUpdate,
     SteadyDrain DEF RefreshStep
<1>6. ASSUME NEW t \in Tasks, TaskStep(t) \/ FetchFails(t) PROVE Steady'
  BY <1>6, SteadyFetch, SteadyInsert, SteadySave, SteadyFetchFails DEF TaskStep
<1>7. ASSUME NEW t \in Tasks, NEW S \in SUBSET Zones, InsertCut(t, S) PROVE Steady'
  BY <1>7, SteadyInsertCut
<1>8. CASE UNCHANGED vars
  <2>1. UNCHANGED <<today, tariff, on, db, queued, prices, kept, task>>
    BY <1>8 DEF vars, recorder, fingerprints
  <2>2. Levels' /\ Awaited'
    BY <2>1, StoresStay DEF Steady
  <2>3. (\A d : Unsaved(d)' <=> Unsaved(d)) /\ \A k, d : Charged(k, d)' = Charged(k, d)
    BY <2>1, ChargedStays DEF Unsaved, Saving
  <2>4. Known' /\ Signs' /\ Unsigned' /\ Alone'
    BY <2>1, <2>3 DEF Steady, Known, Signs, Agree, Unsigned, Alone, Running
  <2>5. ASSUME NEW t \in Tasks PROVE Sound(t, task[t])'
    <3>1. PICK r : r = task[t]
      OBVIOUS
    <3>2. Sound(t, r)'
      BY <2>1, <3>1, SoundStays DEF Steady
    <3> QED
      BY <2>1, <3>1, <3>2
  <2> QED
    BY <2>2, <2>4, <2>5 DEF Steady
<1> QED
  BY <1>1, <1>2, <1>3, <1>4, <1>5, <1>6, <1>7, <1>8 DEF Next

\* A day whose fingerprint is that of the present prices is charged exactly once
\* and at these prices, between the imports (Truthful), until the first of the
\* troubles of Kinds comes, each of which has its step in CostPricing: a request
\* that fails beside others that do not, enea.backfill beside a refresh or past
\* the stored days, a late recorder, a restart that loses what has fingerprints,
\* a first write or one at outdated prices that is cut short, prices that change
\* while costs and fingerprints differ, and a statistic enabled while there is
\* something left to do.  So it is for any statistics, zones and prices, however
\* often these change, whether fetches fail and wherever else a write is cut
\* short or Home Assistant stops.
THEOREM FingerprintsTellTheTruth == Spec => []Truthful
<1> DEFINE Inv == Types /\ met \subseteq Troubles /\ (met = {} => Steady)
<1>1. Init => Inv
  BY InitTypes, InitSteady DEF Init
<1>2. Inv /\ [Next]_vars => Inv'
  <2> SUFFICES ASSUME Types, met \subseteq Troubles, met = {} => Steady, [Next]_vars
               PROVE  Inv'
    OBVIOUS
  <2>1. Types' /\ met' \subseteq Troubles /\ met \subseteq met'
    BY NextTypes, MetIs
  <2>2. met' = {} => Steady'
    BY <2>1, NextSteady
  <2> QED
    BY <2>1, <2>2
<1>3. Inv => Truthful
  <2> SUFFICES ASSUME Types, Steady, Quiet, NEW k \in on \cap Costed,
                      NEW d \in 1..Min({db.energy[k], NewestCost}), prices[d] = tariff.price[d]
               PROVE  Agree(k, d)
    BY DEF Truthful
  <2>1. db.energy[k] \in 0..LastDay /\ NewestCost \in 0..LastDay
    BY NewestCostIs, PricingAssumption DEF Types, Stores
  <2>2. {db.energy[k], NewestCost} \in SUBSET Nat
    BY <2>1
  <2>3. PICK n \in Nat : n = Min({db.energy[k], NewestCost})
    BY <2>2, MinIs
  <2>4. n <= db.energy[k]
    BY <2>2, <2>3, MinIs
  <2>5. d \in Days /\ db.energy[k] # 0
    <3>1. d \in 1..n
      BY <2>3
    <3> QED
      BY <2>1, <2>4, <3>1, PricingAssumption DEF Days
  <2>6. ~Unsaved(d)
    BY DEF Quiet, Running, Unsaved, Saving
  <2> QED
    BY <2>5, <2>6 DEF Quiet, Steady, Signs
<1> QED
  BY <1>1, <1>2, <1>3, PTL DEF Spec
=============================================================================
