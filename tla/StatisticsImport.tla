-------------------------- MODULE StatisticsImport --------------------------
(***************************************************************************)
(* Which days of a meter's history reach the statistics (coordinator.py).   *)
(* Three tasks import days: the refresh, which adds the days after the      *)
(* newest stored one; the background backfill a refresh starts for a whole  *)
(* history; and the enea.backfill action.  Each asks the portal for all its *)
(* measurements at once, assembles the answers into days (parsing.py) and   *)
(* writes them.  Day 1 is the first day the meter could have data for.      *)
(***************************************************************************)
EXTENDS Integers, FiniteSetsExt

CONSTANTS
    Keys,           \* the statistics a meter may have
    Energy,         \* those a prosumer gets balanced data for
    AtStart,        \* the sets of statistics that may be on at first
    AssemblyKnown,  \* whether the portal may tell the assembly date, or not
    Grace,          \* MISSING_DAY_GRACE_DAYS
    LastDay,        \* bound: the last day there is data for
    Troubles,       \* what may go wrong in the surroundings, of Kinds
    MaxEvents       \* bound: calls of enea.backfill, failures and restarts

Kinds == {
    "out of order", \* the portal publishes a day before an earlier one
    "lag",          \* balanced data comes later than the other, by days
    "balanced late",\* and after the grace period
    "behind",       \* a measurement's history is imported while others lag
    "midway",       \* a meter becomes a prosumer's while its history is imported
    "gap",          \* enea.backfill starts past the stored days
    "unfinished"}   \* the portal publishes a day before it is over

ASSUME ImportAssumption ==
    /\ Energy \subseteq Keys /\ Grace \in Nat \ {0} /\ LastDay \in Nat \ {0}
    /\ AtStart \subseteq (SUBSET Keys) \ {{}}
    /\ AssemblyKnown \subseteq BOOLEAN /\ Troubles \subseteq Kinds
    /\ MaxEvents \in Nat

VARIABLES
    today,          \* the local date
    published,      \* the days the portal has, by feed
    inTime,         \* history: those it had by the day after
    prosumer,       \* _prosumer, from the dashboard
    assembly,       \* whether the portal tells the assembly date
    active,         \* the statistics switched on in the options
    stored,         \* what the statistics hold for each key and day
    imported,       \* CONF_IMPORTED_STATISTICS of the entry
    fetched,        \* history: the keys some backfill has got an answer for
    refused,        \* history: those whose request failed beside others'
    balanced,       \* CONF_BALANCED_HISTORY of the entry
    task,           \* the three tasks
    events          \* how many events have come

portal == <<published, inTime, prosumer, assembly>>
entry == <<active, imported, fetched, refused, balanced>>
vars == <<today, portal, entry, stored, task, events>>

Days == 1..LastDay
Feeds == (Keys \X {"raw"}) \cup (Energy \X {"balanced"})
Tasks == {"refresh", "backfill", "action"}

\* Mutant: today is imported before it is over.
Today == today

Yesterday == today - 1

\* _data_source: the feed a key is read from.
Feed(k) == <<k, IF prosumer /\ k \in Energy THEN "balanced" ELSE "raw">>

Idle == [at |-> "idle", keys |-> {}, all |-> FALSE, from |-> 1, to |-> 0,
         fill |-> FALSE, skip |-> FALSE, got |-> [k \in {} |-> {}],
         kind |-> [k \in {} |-> "raw"], late |-> FALSE]

Init ==
    /\ today = 1
    /\ published = [f \in Feeds |-> {}] /\ inTime = published
    /\ prosumer \in BOOLEAN /\ assembly \in AssemblyKnown
    /\ active \in AtStart
    /\ stored = [k \in Keys |-> [d \in Days |-> "none"]]
    /\ imported = {} /\ fetched = {} /\ refused = {} /\ balanced = FALSE
    /\ task = [t \in Tasks |-> Idle]
    /\ events = 0

-----------------------------------------------------------------------------
(* What the tasks look at. *)

Held(k) == {d \in Days : stored[k][d] # "none"}

\* _async_latest_statistics_dates: the newest stored day of a key, or 0.
Latest(k) == Max({0} \cup Held(k))

BalancedKeys == IF prosumer THEN active \cap Energy ELSE {}

\* latest_date: balanced data comes later, so only it counts if there is any.
NewestDay ==
    Max({Latest(k) : k \in IF BalancedKeys = {} THEN active ELSE BalancedKeys})

\* Mutant: a statistic without any day is not looked for.
NoneMissing == {}

Missing == {k \in active : Latest(k) = 0 /\ k \notin imported}

Running(t) == task[t].at # "idle"

\* Mutant: there is no grace period.
StaleAtOnce(d) == today > d

\* A day that is still empty is taken to be missing for good.
Stale(d) == today - d >= Grace

\* The answered keys of task t that have data for a day.
WithData(t, d) == {k \in DOMAIN task[t].got : d \in task[t].got[k]}

\* With skip_leading_gaps, the history starts with the first day with data.
Started(t, d) ==
    task[t].skip => \E e \in task[t].from..d : WithData(t, e) # {}

\* assemble_days: the empty days that are imported as zeroes.
ZeroFilled(t) ==
    {d \in task[t].from..task[t].to :
        task[t].fill /\ WithData(t, d) = {} /\ Started(t, d) /\ Stale(d)}

-----------------------------------------------------------------------------
(* The portal, the user and Home Assistant around the tasks. *)

Kind(f) == f[2]

\* A measurement is being enabled: its history has yet to be imported.
Enabling ==
    \/ NewestDay # 0 /\ Missing # {}
    \/ \E t \in {"backfill", "action"} :
            task[t].at \in {"fetch", "inject"} /\ task[t].keys # active

\* The portal publishes day d in the feeds in S: in order and for all the
\* measurements together, though balanced data may lag behind.
Orderly(d, S) ==
    /\ \A f \in S : published[f] = 1..(d - 1)
    /\ \A f, g \in Feeds :
          Kind(f) = Kind(g) \/ "lag" \notin Troubles => (f \in S <=> g \in S)
    /\ \A k \in Keys : <<k, "raw">> \in S \/ d \in published[<<k, "raw">>]

\* No published day is without its balanced data once it is Grace days old.
BalancedFollows(now, days) ==
    \A k \in Energy :
        \A d \in days[<<k, "raw">>] \ days[<<k, "balanced">>] : now - d < Grace

Publish(d, S) ==
    /\ d <= today /\ ("unfinished" \notin Troubles => d < today)
    /\ S # {} /\ \A f \in S : d \notin published[f]
    /\ "out of order" \notin Troubles => Orderly(d, S)
    /\ "behind" \notin Troubles => ~Enabling
    /\ published' = [f \in Feeds |-> IF f \in S THEN published[f] \cup {d}
                                     ELSE published[f]]
    /\ inTime' = [f \in Feeds |-> IF f \in S /\ d >= today - 1
                                  THEN inTime[f] \cup {d} ELSE inTime[f]]
    /\ "balanced late" \notin Troubles => BalancedFollows(today + 1, published')
    /\ UNCHANGED <<today, prosumer, assembly, entry, stored, task, events>>

\* Midnight passes.  A fetch takes less than a day.
Midnight ==
    /\ today <= LastDay
    /\ "behind" \notin Troubles => ~Enabling
    /\ \A t \in Tasks : ~task[t].late
    /\ "balanced late" \notin Troubles => BalancedFollows(today + 1, published)
    /\ today' = today + 1
    /\ task' = [t \in Tasks |-> [task[t] EXCEPT !.late = Running(t)]]
    /\ UNCHANGED <<portal, entry, stored, events>>

\* A refresh reads in the dashboard that the meter has become a prosumer's.
BecomeProsumer ==
    /\ ~prosumer /\ ~Running("refresh")
    /\ "midway" \notin Troubles =>
            ~Running("backfill") /\ ~Running("action") /\ ~Enabling
    /\ prosumer' = TRUE
    /\ UNCHANGED <<today, published, inTime, assembly, entry, stored, task,
                   events>>

\* The tasks in S are cancelled.
Cancel(S) == task' = [t \in Tasks |-> IF t \in S THEN Idle ELSE task[t]]

\* A key has just what the portal has, and no day is left to give up.
UpToDate(k) ==
    /\ Held(k) = published[Feed(k)]
    /\ \A d \in 1..Yesterday : Stale(d) => d \in Held(k)

\* A measurement is switched on; the entry reloads.
Enable(k) ==
    /\ k \notin active
    /\ "behind" \notin Troubles =>
            /\ ~Running("action")
            /\ \A j \in active : UpToDate(j)
    /\ active' = active \cup {k}
    /\ Cancel({"refresh", "backfill"})
    /\ UNCHANGED <<today, portal, imported, fetched, refused, balanced, stored,
                   events>>

Event == events < MaxEvents /\ events' = events + 1

\* The entry reloads, or Home Assistant restarts.
Stop(S) ==
    /\ \E t \in S : Running(t)
    /\ Event /\ Cancel(S)
    /\ UNCHANGED <<today, portal, entry, stored>>

-----------------------------------------------------------------------------
(* _async_fetch_and_inject_stats: what a refresh decides to do. *)

Begin(t, fields) == task' = [task EXCEPT ![t] = fields]

History(keys) ==
    [Idle EXCEPT !.at = "fetch", !.keys = keys, !.all = (keys = active),
                 !.to = Yesterday, !.fill = assembly, !.skip = assembly]

CanRefresh == ~Running("refresh") /\ ~Running("backfill")

\* Mutant: the balanced data is never imported over the old history.
NoReimport == FALSE

Reimport == NewestDay # 0 /\ BalancedKeys # {} /\ ~balanced

\* The whole history is imported in the background.
ImportAll ==
    /\ CanRefresh /\ Yesterday > 0
    /\ NewestDay = 0 \/ Reimport
    /\ Begin("backfill", History(active))
    /\ UNCHANGED <<today, portal, entry, stored, events>>

\* The history of the measurements enabled since is.
ImportMissing ==
    /\ CanRefresh
    /\ NewestDay # 0 /\ ~Reimport /\ Missing # {}
    /\ Begin("backfill", [History(Missing) EXCEPT !.all = FALSE])
    /\ UNCHANGED <<today, portal, entry, stored, events>>

\* Mutant: only yesterday is looked for.
OnlyYesterday == Yesterday

FirstMissing == NewestDay + 1

\* The refresh itself adds the days that are missing at the end.
Update ==
    /\ CanRefresh
    /\ NewestDay # 0 /\ ~Reimport /\ Missing = {} /\ NewestDay < Yesterday
    /\ Begin("refresh",
             [Idle EXCEPT !.at = "fetch", !.keys = active,
                          !.from = FirstMissing, !.to = Yesterday,
                          !.fill = TRUE])
    /\ UNCHANGED <<today, portal, entry, stored, events>>

\* A range that leaves no stored key with a gap.
Adjoins(from, to) ==
    \A k, j \in active :
        from <= Latest(k) + 1 /\ (to <= Latest(k) \/ Latest(j) <= to)

\* async_backfill is called for a range of days, whether they are over or not.  Next
\* has ranges of one day and ranges up to the newest day there will be.
Action(from, to) ==
    /\ ~Running("action") /\ Event
    /\ from <= to
    /\ "gap" \notin Troubles => Adjoins(from, to)
    /\ Begin("action",
             [Idle EXCEPT !.at = "fetch", !.keys = active, !.from = from,
                          !.to = to, !.fill = TRUE])
    /\ UNCHANGED <<today, portal, entry, stored>>

-----------------------------------------------------------------------------
(* The steps of a task. *)

\* The portal answers the requests of a task, sent together; those for the
\* keys in failed fail.
Fetch(t, failed) ==
    /\ task[t].at = "fetch"
    /\ IF failed = {} THEN UNCHANGED events ELSE Event
    /\ LET answered == task[t].keys \ failed
       IN  /\ answered # {}
           /\ Begin(t, [task[t] EXCEPT
                !.at = "inject",
                !.got = [k \in answered |->
                            published[Feed(k)] \cap (task[t].from..task[t].to)],
                !.kind = [k \in answered |-> Kind(Feed(k))]])
           /\ fetched' = IF t = "backfill" THEN fetched \cup answered ELSE fetched
    /\ refused' = refused \cup failed
    /\ UNCHANGED <<today, portal, active, imported, balanced, stored>>

\* All the requests fail, or one raises something else: nothing is imported.
FetchFails(t) ==
    /\ task[t].at = "fetch" /\ Event
    /\ Begin(t, Idle)
    /\ UNCHANGED <<today, portal, entry, stored>>

\* assemble_days and _async_inject_days.
Inject(t) ==
    /\ task[t].at = "inject"
    /\ stored' = [k \in Keys |-> [d \in Days |->
            IF k \notin DOMAIN task[t].got THEN stored[k][d]
            ELSE IF d \in task[t].got[k] THEN task[t].kind[k]
            ELSE IF d \in ZeroFilled(t) THEN "zero"
            ELSE stored[k][d]]]
    /\ Begin(t, IF t # "backfill" THEN Idle
                ELSE [Idle EXCEPT !.at = "flag", !.keys = task[t].keys,
                                  !.all = task[t].all])
    /\ UNCHANGED <<today, portal, entry, events>>

\* Mutant: every statistic that is switched on counts as imported.
AllActive == active

\* done: the statistics the backfill was for.
Done == IF task["backfill"].all THEN active ELSE task["backfill"].keys

\* The backfill records in the entry what has been imported.
Flag ==
    /\ task["backfill"].at = "flag"
    /\ imported' = imported \cup Done
    /\ balanced' = (balanced \/ BalancedKeys # {})
    /\ Begin("backfill", Idle)
    /\ UNCHANGED <<today, portal, active, fetched, refused, stored, events>>

TaskStep(t) == Inject(t) \/ \E failed \in SUBSET task[t].keys : Fetch(t, failed)

Next ==
    \/ \E d \in Days, S \in SUBSET Feeds : Publish(d, S)
    \/ Midnight \/ BecomeProsumer
    \/ \E k \in Keys : Enable(k)
    \/ Stop({"refresh", "backfill"}) \/ Stop(Tasks)
    \/ ImportAll \/ ImportMissing \/ Update
    \/ \E from \in Days : \E to \in {from, LastDay} : Action(from, to)
    \/ \E t \in Tasks : TaskStep(t) \/ FetchFails(t)
    \/ Flag

Spec == Init /\ [][Next]_vars

\* Refreshes go on for ever, and the requests of a task are answered in the end.
\* A refresh and the backfill it starts come one after the other, so at most one
\* of these steps is enabled; enea.backfill owes nothing.
Fairness ==
    WF_vars(\/ ImportAll \/ ImportMissing \/ Update \/ Flag
            \/ \E t \in {"refresh", "backfill"} : Fetch(t, {}) \/ Inject(t))

LiveSpec == Spec /\ Fairness

-----------------------------------------------------------------------------
(* Properties. *)

\* Every variable holds a value of its kind, and a refresh or a backfill asks
\* only for days that are over.
TypeOK ==
    /\ today \in 1..(LastDay + 1)
    /\ published \in [Feeds -> SUBSET Days] /\ inTime \in [Feeds -> SUBSET Days]
    /\ prosumer \in BOOLEAN /\ assembly \in BOOLEAN /\ balanced \in BOOLEAN
    /\ active \subseteq Keys /\ imported \subseteq Keys
    /\ fetched \subseteq Keys /\ refused \subseteq Keys
    /\ stored \in [Keys -> [Days -> {"none", "raw", "balanced", "zero"}]]
    /\ \A t \in Tasks :
        /\ task[t].at \in {"idle", "fetch", "inject", "flag"}
        /\ task[t].keys \subseteq Keys
        /\ task[t].from \in Days /\ task[t].to \in 0..LastDay
        /\ t # "action" => task[t].to < today
        /\ DOMAIN task[t].got \subseteq task[t].keys
    /\ events \in 0..MaxEvents

(***************************************************************************)
(* "Integracja ... pobiera brakujące dni" and, for a day the portal does    *)
(* not publish, writes zero consumption (README.md): between the first and  *)
(* the newest day of a statistic none is left out, until a request fails    *)
(* beside others that are answered (_fetch_range goes on without it).  A    *)
(* refresh only looks past the newest day, so a day left out is never       *)
(* fetched again.                                                           *)
(***************************************************************************)
NoHoles ==
    refused = {} =>
        \A k \in active : \A d \in Held(k) : \A e \in Days :
            d < e /\ e < Latest(k) => e \in Held(k)

(***************************************************************************)
(* "Days still within the grace period may simply not be published yet"     *)
(* (assemble_days): whatever tasks overlap, requests fail and whichever     *)
(* fetch crosses midnight, a day published in time is never stored as zero  *)
(* consumption.                                                             *)
(***************************************************************************)
NoFalseZero ==
    \A k \in active : \A d \in inTime[Feed(k)] : stored[k][d] # "zero"

(***************************************************************************)
(* _async_do_initial_backfill "records in the config entry which statistics *)
(* have had their history imported": no statistic is recorded that no       *)
(* backfill got an answer for, but those whose request has failed beside    *)
(* others'.  Such a statistic is recorded all the same, and then nothing    *)
(* asks for its history again (coordinator.py:546, 870).                    *)
(***************************************************************************)
RecordedIsFetched == imported \subseteq fetched \cup refused

\* What the docstring says, without the exception: Fetch and Flag break it.
RecordedIsImported == imported \subseteq fetched

(***************************************************************************)
(* Refreshes catch up whatever failures, reloads and overlaps came before:  *)
(* in the end no day the portal has published is left out of a statistic    *)
(* that is switched on, unless a request has failed beside others'.         *)
(***************************************************************************)
CatchesUp ==
    <>[](refused = {} => \A k \in active : published[Feed(k)] \subseteq Held(k))

(***************************************************************************)
(* "Re-imported over the old history, every day agrees with the invoice"    *)
(* (_async_fetch_and_inject_stats): of a meter that has become a            *)
(* prosumer's no energy from before balancing is left, in the end, for a    *)
(* day the portal has the balanced data of, unless a request has failed     *)
(* beside others'.                                                          *)
(***************************************************************************)
Rebalanced ==
    <>[](refused = {} =>
            \A k \in BalancedKeys : \A d \in published[Feed(k)] :
                stored[k][d] # "raw")
=============================================================================
