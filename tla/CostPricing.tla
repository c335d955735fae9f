----------------------------- MODULE CostPricing -----------------------------
(***************************************************************************)
(* The costs of a meter's hours (costs.py, coordinator.py).  Every import   *)
(* of energy also writes its costs at the prices of the enea_prices         *)
(* integration, each hour in the series of its zone, and remembers a        *)
(* fingerprint of the prices of each day.  A refresh first computes anew    *)
(* the days whose fingerprint is not that of the prices any more, then the  *)
(* days without costs, then adds the new days.                              *)
(*                                                                         *)
(* A day has one hour, with consumption, and a price stands for its own     *)
(* fingerprint.  The tables reach back to the first day and go on knowing   *)
(* every zone.  The portal has the data of every day that is over; which    *)
(* days are imported is the subject of StatisticsImport, and the running    *)
(* totals of a series that of CumulativeSeries.                             *)
(***************************************************************************)
EXTENDS Integers, FiniteSetsExt

CONSTANTS
    Keys,           \* the statistics a meter may have
    Costed,         \* those of energy, which have costs
    AtStart,        \* the sets of statistics that may be on at first
    Prices,         \* the prices of an hour
    NoPrice,        \* the table has none for the day
    Zones,          \* the tariff zones
    Zone,           \* the zone of an hour that has a price
    LastDay,        \* bound: the last day there is data for
    Troubles,       \* what may happen that breaks Truthful, of Kinds
    MaxChanges,     \* bound: how often the prices change
    MaxEvents       \* bound: calls of enea.backfill, failures and restarts

Kinds == {
    "again",    \* prices change around an interrupted write
    "early",    \* the first costs of a measurement are cut short
    "gap",      \* enea.backfill starts past the stored days
    "enabled",  \* one is enabled while others lag behind or repricing is due
    "lost",     \* days or costs are lost after their fingerprints were saved
    "overlap",  \* enea.backfill runs beside a refresh
    "partial",  \* some of the requests sent together fail
    "slow"}     \* the recorder takes longer than the portal

ASSUME PricingAssumption ==
    /\ Costed \subseteq Keys /\ AtStart \subseteq (SUBSET Keys) \ {{}}
    /\ {NoPrice, "none", "zero"} \cap Prices = {} /\ Zone \in [Prices -> Zones]
    /\ LastDay \in Nat \ {0} /\ Troubles \subseteq Kinds
    /\ MaxChanges \in Nat /\ MaxEvents \in Nat

VARIABLES
    today,          \* the local date
    tariff,         \* the tables of enea_prices
    on,             \* the statistics switched on in the options
    db,             \* what the recorder has committed
    queued,         \* what it will have once its queue is committed
    prices,         \* _cost_prices, in memory and on disk
    kept,           \* whether fingerprints have ever been stored
    checkedUntil,   \* _cost_checked_until
    repriceFailed,  \* _cost_reprice_failed
    task,           \* the refresh, the backfill and the action
    met,            \* history: the troubles there have been
    changes, events \* how often the prices changed, and events came

recorder == <<db, queued>>
fingerprints == <<prices, kept>>
memory == <<checkedUntil, repriceFailed>>
vars == <<today, tariff, on, recorder, fingerprints, memory, task, met, changes,
          events>>

Days == 1..LastDay
Tasks == {"refresh", "backfill", "action"}

\* Prices up to a day, though some days before may have none.
Tariffs ==
    {[until |-> n, price |-> f] :
        n \in 0..LastDay, f \in [Days -> Prices \cup {NoPrice}]}

IsTable(t) == \A d \in Days : d > t.until => t.price[d] = NoPrice

NoTariff == [until |-> 0, price |-> [d \in Days |-> NoPrice]]

NoTask == [at |-> "idle", why |-> "none", keys |-> {}, tariff |-> NoTariff,
           upTo |-> 0, yesterday |-> 0, from |-> 1, to |-> 0]

Places == {"idle", "reprice", "missing", "fetch", "insert", "save", "next",
           "drain"}

Init ==
    /\ today = 1
    /\ tariff \in Tariffs /\ IsTable(tariff)
    /\ on \in AtStart
    /\ db = [energy |-> [k \in Keys |-> 0],
             cost |-> [k \in Costed |-> [z \in Zones |-> [d \in Days |-> "none"]]]]
    /\ queued = db
    /\ prices = [d \in Days |-> NoPrice] /\ kept = FALSE
    /\ checkedUntil = 0 /\ repriceFailed = FALSE
    /\ task = [t \in Tasks |-> NoTask]
    /\ met = {} /\ changes = 0 /\ events = 0

-----------------------------------------------------------------------------
(* What the tasks look at. *)

Running(t) == task[t].at # "idle"

\* _async_latest_statistics_date of the energy: the newest day, or 0.
NewestDay == Max({0} \cup {db.energy[k] : k \in on})

\* The statistics switched on that have no history yet.
Missing == {k \in on : db.energy[k] = 0}

\* async_get_cost_latest_date.
NewestCost ==
    Max({0} \cup {d \in Days :
        \E k \in on \cap Costed, z \in Zones : db.cost[k][z][d] # "none"})

\* The prices day d of statistic k is charged at once the queue is committed.
Charged(k, d) == {queued.cost[k][z][d] : z \in Zones} \cap Prices

\* Costs and fingerprints agree.
Agree(k, d) == Charged(k, d) = {prices[d]} \ {NoPrice}

InStep == \A k \in on \cap Costed, d \in Days : Agree(k, d)

\* A measurement has been enabled whose history has yet to be imported.
Enabling == NewestDay # 0 /\ Missing # {}

\* The days with energy that are charged exactly once and at the present prices,
\* and not at all if they have none for them.
Settled(k) ==
    {d \in 1..db.energy[k] :
        tariff.until # 0 => Charged(k, d) = {tariff.price[d]} \ {NoPrice}}

\* The days up to the newest cost whose prices have changed.
Changed(t) == {d \in 1..NewestCost : prices[d] # t.price[d]}

-----------------------------------------------------------------------------
(* The surroundings. *)

If(happens, kind) == IF happens THEN {kind} ELSE {}

\* A step with which these troubles come.
Meets(kinds) == kinds \subseteq Troubles /\ met' = met \cup kinds

Midnight ==
    /\ today <= LastDay
    /\ Meets(If(Enabling, "enabled"))
    /\ today' = today + 1
    /\ UNCHANGED <<tariff, on, recorder, fingerprints, memory, task, changes,
                   events>>

\* enea_prices is set up, gets new prices, or is removed.
ChangePrices(t) ==
    /\ t # tariff /\ IsTable(t) /\ changes < MaxChanges
    /\ Meets(If(~InStep, "again") \cup If(Enabling, "enabled"))
    /\ tariff' = t /\ changes' = changes + 1
    /\ UNCHANGED <<today, on, recorder, fingerprints, memory, task, events>>

\* A new coordinator starts without the tasks and the memory of the old one.
Anew(S) ==
    /\ task' = [t \in Tasks |-> IF t \in S THEN NoTask ELSE task[t]]
    /\ checkedUntil' = 0 /\ repriceFailed' = FALSE

\* Nothing is left to import or to reprice.
UpToDate ==
    /\ queued = db /\ InStep
    /\ \A i \in on \ Missing : db.energy[i] = today - 1
    /\ \A i \in on \cap Costed : Settled(i) = 1..db.energy[i]

\* A statistic is switched on, which reloads the entry.
Enable(k) ==
    /\ k \notin on /\ ~Running("action")
    /\ Meets(If(~UpToDate, "enabled"))
    /\ on' = on \cup {k}
    /\ Anew({"refresh", "backfill"})
    /\ UNCHANGED <<today, tariff, recorder, fingerprints, changes, events>>

Event == events < MaxEvents /\ events' = events + 1

\* The tables a task costs its days at: those it started with, or the present.
TariffOf(t) ==
    IF task[t].at = "save" \/ task[t].why \in {"reprice", "catch up"}
    THEN task[t].tariff ELSE tariff

\* The first costs of all or of some measurement are being written: there are no
\* fingerprints yet, or they pass for theirs.
WritingFirst ==
    \E t \in Tasks :
        \/ ~kept /\ task[t].at \in {"insert", "save"}
        \/ task[t].why = "history" /\ task[t].at = "insert"
             /\ task[t].keys \cap Costed # {}

\* A task writes costs at prices that have changed since it read them.
WritingOld ==
    \E t \in Tasks : task[t].at \in {"insert", "save"} /\ TariffOf(t) # tariff

\* A write is cut short.
Cut == If(WritingFirst, "early") \cup If(WritingOld, "again")

\* Of the days and the costs that are still queued some have fingerprints.
LosesSigned ==
    \E d \in Days :
        \/ /\ prices[d] # NoPrice
           /\ \E k \in Keys : d \in (db.energy[k] + 1)..queued.energy[k]
        \/ \E k \in Costed, z \in Zones :
            Agree(k, d) /\ db.cost[k][z][d] # queued.cost[k][z][d]

\* Home Assistant stops, with or without what is queued.
Stop ==
    /\ Event /\ Anew(Tasks)
    /\ \/ Meets(Cut) /\ db' = queued
       \/ Meets(Cut \cup If(LosesSigned, "lost")) /\ db' = db
    /\ queued' = db'
    /\ UNCHANGED <<today, tariff, on, fingerprints, changes>>

\* The recorder commits its queue.
Commit ==
    /\ queued # db /\ db' = queued
    /\ UNCHANGED <<today, tariff, on, queued, fingerprints, memory, task,
                   met, changes, events>>

-----------------------------------------------------------------------------
(* A refresh. *)

Goes(t, fields) == task' = [task EXCEPT ![t] = fields]

Fetching(why, keys, from, to) ==
    [NoTask EXCEPT !.at = "fetch", !.why = why, !.keys = keys, !.from = from,
                   !.to = to]

\* The recorder has yet to commit its queue when the portal has answered.
Late == If(queued # db, "slow")

\* A refresh has read the dashboard.
CanRefresh ==
    /\ ~Running("refresh") /\ ~Running("backfill")
    /\ Meets(Late \cup If(Running("action"), "overlap"))

\* The history of all the statistics, or of those without one, is imported.
ImportHistory ==
    /\ CanRefresh /\ today > 1 /\ Missing # {}
    /\ Goes("backfill", Fetching("history", Missing, 1, today - 1))
    /\ UNCHANGED <<today, tariff, on, recorder, fingerprints, memory, changes,
                   events>>

\* Mutant: the costs at old prices are left as they are.
NeverReprices == FALSE

Reprices == ~repriceFailed

\* _async_inject_missing_costs is called, up to the newest day with energy.
StartCosts ==
    /\ CanRefresh /\ NewestDay # 0 /\ Missing = {}
    /\ Goes("refresh", [NoTask EXCEPT
            !.at = IF on \cap Costed = {} \/ tariff.until = 0 THEN "next"
                   ELSE IF Reprices THEN "reprice" ELSE "missing",
            !.tariff = tariff, !.upTo = NewestDay, !.yesterday = today - 1])
    /\ UNCHANGED <<today, tariff, on, recorder, fingerprints, memory, changes,
                   events>>

\* The fingerprints once those of from..to are remembered.
Signed(t, from, to) ==
    [d \in Days |-> IF d \in from..to THEN t.price[d] ELSE prices[d]]

\* _async_reprice_costs decides.
Reprice ==
    LET me == task["refresh"]
        changed == Changed(me.tariff)
    IN  /\ me.at = "reprice"
        /\ IF NewestCost # 0 /\ ~kept
           THEN prices' = Signed(me.tariff, 1, NewestCost) /\ kept' = TRUE
           ELSE UNCHANGED fingerprints
        /\ Goes("refresh",
                IF ~kept \/ changed = {} THEN [me EXCEPT !.at = "missing"]
                ELSE [me EXCEPT !.at = "fetch", !.why = "reprice", !.keys = on,
                                !.from = Min(changed), !.to = NewestCost])
        /\ UNCHANGED <<today, tariff, on, recorder, memory, met, changes,
                       events>>

\* async_cost_days_missing: the days after the newest cost the table reaches.
CatchUp ==
    LET me == task["refresh"]
        first == Max({NewestCost, checkedUntil}) + 1
        last == Min({me.upTo, me.tariff.until})
    IN  /\ me.at = "missing"
        /\ Goes("refresh",
                IF first > last THEN [me EXCEPT !.at = "next"]
                ELSE [me EXCEPT !.at = "fetch", !.why = "catch up", !.keys = on,
                                !.from = first, !.to = last])
        /\ UNCHANGED <<today, tariff, on, recorder, fingerprints, memory,
                       met, changes, events>>

\* The new days are added, if there are any.
Update ==
    LET me == task["refresh"]
    IN  /\ me.at = "next"
        /\ Goes("refresh",
                IF me.upTo >= me.yesterday THEN [NoTask EXCEPT !.at = "drain"]
                ELSE Fetching("update", on, me.upTo + 1, me.yesterday))
        /\ UNCHANGED <<today, tariff, on, recorder, fingerprints, memory,
                       met, changes, events>>

\* The refresh ends once the recorder has committed.
Drain ==
    /\ task["refresh"].at = "drain" /\ queued = db
    /\ Goes("refresh", NoTask)
    /\ UNCHANGED <<today, tariff, on, recorder, fingerprints, memory, met,
                   changes, events>>

\* async_backfill is called for a range of days.
Action(from, to) ==
    /\ ~Running("action") /\ Event /\ from <= to
    /\ Meets(If(Running("refresh") \/ Running("backfill"), "overlap") \cup
             If(Enabling \/ from > NewestDay + 1, "gap"))
    /\ Goes("action", Fetching("action", on, from, to))
    /\ UNCHANGED <<today, tariff, on, recorder, fingerprints, memory, changes>>

-----------------------------------------------------------------------------
(* The pieces every task is made of. *)

\* Where a task goes on after a part of it.
After(t, why) ==
    CASE why = "reprice" -> [task[t] EXCEPT !.at = "missing"]
      [] why = "catch up" -> [task[t] EXCEPT !.at = "next"]
      [] why = "update" -> [NoTask EXCEPT !.at = "drain"]
      [] OTHER -> NoTask

\* The portal answers all the requests but those for failed, with the days of
\* the range that are over.
Fetch(t, failed) ==
    /\ task[t].at = "fetch" /\ failed # task[t].keys
    /\ IF failed = {} THEN UNCHANGED events ELSE Event
    /\ Meets(Late \cup If(failed # {}, "partial"))
    /\ LET last == Min({task[t].to, today - 1})
       IN  Goes(t, IF last < task[t].from THEN After(t, task[t].why)
                   ELSE [task[t] EXCEPT !.at = "insert", !.keys = @ \ failed,
                                        !.to = last])
    /\ UNCHANGED <<today, tariff, on, recorder, fingerprints, memory, changes>>

\* No request is answered.
FetchFails(t) ==
    /\ task[t].at = "fetch" /\ Event
    /\ repriceFailed' = (repriceFailed \/ task[t].why = "reprice")
    /\ Goes(t, After(t, task[t].why))
    /\ UNCHANGED <<today, tariff, on, recorder, fingerprints, checkedUntil,
                   met, changes>>

\* Mutant: repricing leaves the costs in the zones the hours have left.
OnlyAction(why) == why = "action"

\* The days may have been costed before.
Rewrites(why) == why \in {"reprice", "action"}

\* Mutant: an hour is charged in the series of every zone.
AnyZone(price, z) == price \in Prices

\* The hour is charged in the series of zone z.
InZone(price, z) == price \in Prices /\ Zone[price] = z

\* The costs of statistic k on day d are computed by task t.
Computes(t, k, d) ==
    /\ k \in task[t].keys /\ d \in task[t].from..task[t].to
    /\ TariffOf(t).until # 0

\* async_insert_cost_statistics for zones S: each hour in its own zone, and
\* nothing any more in the zones it has left.
Costs(t, S) ==
    [k \in Costed |-> [z \in Zones |-> [d \in Days |->
        LET price == TariffOf(t).price[d]
        IN  IF z \notin S \/ ~Computes(t, k, d) THEN queued.cost[k][z][d]
            ELSE IF InZone(price, z) THEN price
            ELSE IF Rewrites(task[t].why) /\ db.cost[k][z][d] # "none"
                 THEN "zero" ELSE queued.cost[k][z][d]]]]

\* async_insert_historical_statistics, except when only costs are computed.
Energies(t) ==
    [k \in Keys |->
        IF k \in task[t].keys /\ task[t].why \notin {"reprice", "catch up"}
        THEN Max({queued.energy[k], task[t].to}) ELSE queued.energy[k]]

\* Energy and costs are queued.
Insert(t) ==
    /\ task[t].at = "insert"
    /\ task[t].why = "update" => queued = db
    /\ queued' = [energy |-> Energies(t), cost |-> Costs(t, Zones)]
    /\ Goes(t, [task[t] EXCEPT !.at = "save", !.tariff = TariffOf(t)])
    /\ UNCHANGED <<today, tariff, on, db, fingerprints, memory, met, changes,
                   events>>

\* The entry reloads when only zones S have been written.
InsertCut(t, S) ==
    /\ t # "action" /\ task[t].at = "insert" /\ Meets(Cut) /\ Event
    /\ queued' = [energy |-> Energies(t), cost |-> Costs(t, S)]
    /\ Anew({"refresh", "backfill"})
    /\ UNCHANGED <<today, tariff, on, db, fingerprints, changes>>

\* Mutant: the fingerprints are those of the prices when they are saved.
PresentTariff(t) == tariff

\* The prices the costs have just been computed at.
SavedTariff(t) == task[t].tariff

\* _async_save_cost_prices, after a repricing once it is committed.
Save(t) ==
    /\ task[t].at = "save"
    /\ task[t].why = "reprice" => queued = db
    /\ IF task[t].tariff.until = 0 THEN UNCHANGED fingerprints
       ELSE /\ prices' = Signed(SavedTariff(t), task[t].from, task[t].to)
            /\ kept' = TRUE
    /\ checkedUntil' = IF task[t].why = "catch up" THEN task[t].to
                                                   ELSE checkedUntil
    /\ Goes(t, After(t, task[t].why))
    /\ UNCHANGED <<today, tariff, on, recorder, repriceFailed, met, changes,
                   events>>

TaskStep(t) ==
    \/ \E failed \in SUBSET task[t].keys : Fetch(t, failed)
    \/ Insert(t) \/ Save(t)

RefreshStep ==
    ImportHistory \/ StartCosts \/ Reprice \/ CatchUp \/ Update \/ Drain

Next ==
    \/ Midnight \/ Commit \/ Stop
    \/ \E t \in Tariffs : ChangePrices(t)
    \/ \E k \in Keys : Enable(k)
    \/ \E from, to \in Days : Action(from, to)
    \/ RefreshStep
    \/ \E t \in Tasks :
        \/ TaskStep(t) \/ FetchFails(t)
        \/ \E S \in SUBSET Zones : InsertCut(t, S)

Spec == Init /\ [][Next]_vars

\* Refreshes go on, requests are answered or time out, and the recorder works.
Fairness ==
    /\ WF_vars(RefreshStep) /\ WF_vars(Commit)
    /\ \A t \in Tasks : WF_vars(TaskStep(t))

LiveSpec == Spec /\ Fairness

-----------------------------------------------------------------------------
(* Properties. *)

\* Every variable holds a value of its kind, and no cost is in a zone that is
\* not its own.
TypeOK ==
    /\ today \in 1..(LastDay + 1) /\ tariff \in Tariffs /\ on \subseteq Keys
    /\ \A data \in {db, queued} :
        /\ data.energy \in [Keys -> 0..LastDay]
        /\ \A k \in Costed, z \in Zones, d \in Days :
            \/ data.cost[k][z][d] \in {"none", "zero"}
            \/ data.cost[k][z][d] \in Prices /\ Zone[data.cost[k][z][d]] = z
    /\ prices \in [Days -> Prices \cup {NoPrice}] /\ kept \in BOOLEAN
    /\ checkedUntil \in 0..LastDay /\ repriceFailed \in BOOLEAN
    /\ \A t \in Tasks :
        /\ task[t].at \in Places /\ task[t].keys \subseteq Keys
        /\ task[t].tariff \in Tariffs
        /\ {task[t].upTo, task[t].yesterday} \subseteq 0..LastDay
        /\ task[t].from \in Days /\ task[t].to \in 0..LastDay
    /\ met \subseteq Troubles
    /\ changes \in 0..MaxChanges /\ events \in 0..MaxEvents

Quiet == queued = db /\ \A t \in Tasks : ~Running(t)

(***************************************************************************)
(* "Remember the prices the costs ... have just been computed at"           *)
(* (_async_save_cost_prices): between the imports, a day with energy up to  *)
(* the newest cost whose fingerprint is that of the present prices, which   *)
(* is never computed again, is charged exactly once and at these prices,    *)
(* and not at all if they have none for it.  So it is until one of the      *)
(* troubles of Kinds comes: each of them can break it.                      *)
(***************************************************************************)
Truthful ==
    met = {} /\ Quiet /\ kept =>
        \A k \in on \cap Costed : \A d \in 1..Min({db.energy[k], NewestCost}) :
            prices[d] = tariff.price[d] => Agree(k, d)

(***************************************************************************)
(* Once the prices stay as they are, every day with energy is charged       *)
(* exactly once and at these prices in the end, whatever was interrupted,   *)
(* unless repricing has failed since the entry was loaded: "it is tried     *)
(* again once the entry is reloaded" (_async_inject_missing_costs).  A day  *)
(* after the newest cost the portal has been asked about for nothing is not *)
(* asked for again either, though it may have a price now.                  *)
(***************************************************************************)
Repriced ==
    <>[]~repriceFailed =>
        <>[](\A k \in on \cap Costed : \A d \in 1..db.energy[k] :
                d \in Settled(k) \/ d \in (NewestCost + 1)..checkedUntil)
=============================================================================
