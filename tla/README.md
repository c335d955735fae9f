# Verification of the Enea Licznik integration

TLA+ models of `custom_components/enea`, a Home Assistant integration that reads
energy meters from the Portal Odbiorcy Enea. TLC checks the models on small
instances; TLAPS proves the main safety properties for every instance. Paths
below are relative to `src/custom_components/enea/` unless they say otherwise.

Contents: [the system](#the-system), [components](#components-and-what-makes-each-correct),
[modules](#modules-and-how-they-correspond-to-the-code),
[runs](#runs), [where code and docs disagree](#where-the-code-and-its-docs-disagree),
[fairness](#fairness), [proofs](#proofs), [limits](#what-is-not-modelled),
[plan](#plan).

## The system

One asyncio event loop runs everything but the recorder's thread. A task gives
way only at an `await`; that is where the models let the others in.

```
 user ── options, dismissals, actions ──┐
                                        v
 config entries (one per meter) ── EneaUpdateCoordinator ── sensors, bills, issues
        share per account              |   |    |
        v                              |   |    └─ costs.py ── price fingerprints (Store)
 EneaApiClient <── requests ───────────┘   └─ statistics.py ── queue ── recorder thread ── DB
        |                              |
        └────────── EneaNotifications ─┘── Store of the account, persistent notifications
                         |
 Portal Odbiorcy Enea (sessions, messages, hourly data, dashboard)
```

- Every meter has a config entry and a coordinator. The entries of one account
  share one `EneaApiClient` and one `EneaNotifications` (`__init__.py:90-102`).
- A refresh (every 3.5 hours, or `enea.refresh`) reads the dashboard, imports the
  missing days, settles costs, reads the newest date back, recomputes bills and
  issues, then checks the messages (`coordinator.py:209-318`).
- A refresh may start a background backfill (`coordinator.py:408,432`); the user
  may call `enea.backfill` at any time (`__init__.py:149-174`). The three
  importers write the same statistics.
- Statistics are handed to the recorder's thread, which commits them later, in
  order; reads see only what is committed.
- Home Assistant may stop at any await, and an entry may be unloaded, which
  cancels its refresh and its backfill.

## Components and what makes each correct

| Component | State it keeps | Operations | What is hard | What makes it correct |
|---|---|---|---|---|
| Portal messages (`notifications.py`) | `_seen`, `_meters`, `_shown`, `_read_to_send`, `checked_until`, `_last_check`, the account's store | check, mark read, dismiss, save, load | awaits inside the lock, dismissals meanwhile, stops between two writes, midnight and option changes within a check | no message missed, forgotten, repeated or marked read unasked; dismissals reach the portal |
| Portal client (`connector.py`) | `_authenticated`, `_auth_gen`, `_auth_lock`, `_password` | request, login, new credentials | several requests refused at once, an unlocked first login, a login that fails while others wait | one login per expired session, resent with the new cookie, nobody waits for ever, recovery |
| Cumulative statistics (`statistics.py`) | running totals in the recorder | append, rewrite a range, shift the tail | reads that do not see queued rows, deaths between two batches, every position of a range | each hour adds its own value to the total before it |
| Import of history (`coordinator.py`, `parsing.py`) | newest stored days, the entry's flags, the running tasks | backfill, update, `enea.backfill`, reimport for prosumers | overlapping tasks, partial failures, measurements enabled later, grace period, balanced data that comes late | no day left out, no published day stored as zero, flags that tell the truth, catching up |
| Costs (`costs.py`, `coordinator.py`) | cost series, price fingerprints, `_cost_checked_until` | cost, catch up, reprice | zone changes, failures between write and fingerprint | each costed hour once, at the prices recorded for it |
| Account lifecycle (`__init__.py`, `config_flow.py`) | the account table, entries and their credentials | setup, unload, remove, reauth, reconfigure | entries in different states, a password in each, a session that goes with the entry that made it | one watcher of dismissals per login, messages kept, passwords that settle |
| Repair issues (`issues.py`, `repairs.py`) | the open issues, the fix flow | raise, delete, fix a setting, set `enea_prices` up | refreshes of meters that share a group, reloads in their middle, fixes confirmed late | nothing raised for shared groups, issues that become right, fixes that end |
| Bills (`billing.py`, `date.py`) | two reading dates, two estimates | estimate, net metering | period edges, months whose prices are missing | every kWh and every month charged once |
| Installation (`installation.py`) | none | detect billing months, latest reading, yearly consumption | years only part of which was measured | what is detected is what is billed by |
| Day assembly (`parsing.py`) | none | split, merge repeated hours, strip, zero-fill | 23 and 25 hour days, assembly day | every hour of the range once |
| Sensors, diagnostics, constants | none | display | | |

`PROJECT.json` lists the hazards one by one, at their lines, with the property
that covers each or the reason none does yet.

## Modules and how they correspond to the code

### MessageLedger and Notifications

`MessageLedger` is what the account's store promises: each message goes from
*new* to *open* to *closing* to *done*, and is *done* only when the portal would
no longer present it.

`Notifications` is `EneaNotifications` with its surroundings. `mem` holds the
object's fields and `store` the dictionary `_async_save` writes. `task` is the
task that holds `_lock`, with the await it has reached (`mark`, `fetch`,
`apply`, `save`) and the values it took before earlier awaits; `updates` and
`sends` count the tasks waiting for the lock. `StartUpdate` and `StartSend` take
the lock; `MarkRead`/`MarkFails`, `FetchAnswered`/`FetchFails`, `Apply`, `Save`
are the pieces between awaits; `Dismiss` is the callback; `CancelUpdate` an
unload; `Restart` a stop at any moment. `Receive`, `ReadInPortal`, `Expire`,
`Midnight`, `ChangeOptions` belong to the portal, the calendar and the user.

Abstracted: a message is a model value with an owner, a day, a read flag and an
expiry; its text and several owners per message are left out. A message read or
shown is never unread again. The account keeps at least one loaded meter.

### ApiSession

One action per piece of `_request` between awaits. `pc` says where each request
is; `genAt` is the local `auth_gen`; `cookie` the session a request in flight was
sent with, which need not be the client's any more; `offered` the password a login
took along. A login raises `_auth_gen` and replaces the cookie in one step, so
`gen` names both. `Fails` is a timeout, an error or a cancellation at any await,
the wait for the lock included; `Expire`, `ChangePortalPassword`,
`UpdateCredentials` come from outside. All of these draw on `MaxFaults`.

### CumulativeSeries

One statistic. A writer reads the newest entry, perhaps the window up to the end
of its range, queues the range, perhaps reads what follows and queues it moved
(`Call`, `ReadNewest`, `ReadCovered`, `WriteRows`, `ReadLater`, `ShiftRows`).
`Commit` is the recorder's thread; `meant` remembers the value last committed for
each hour, against which the totals are judged. `totalState` tells a cost series
from an energy one. A range holds every hour the recorder has within it (`Covers`),
since callers hand in whole days.

### StatisticsImport

Days of one meter. `stored[k][d]` is what the statistics hold for a key and a
day: nothing, data before (`raw`) or after balancing, or a zero-filled day.
`ImportAll`, `ImportMissing` and `Update` are what `_async_fetch_and_inject_stats`
decides; `Action` is `enea.backfill`; `Fetch`, `Inject` and `Flag` the pieces
between awaits, with `ZeroFilled` for `assemble_days`. `inTime`, `fetched` and
`refused` are histories for the properties: the days published by the day after, the
keys a backfill got an answer for, and those whose request failed beside others that
were answered.

`enea.backfill` takes any range, one that ends today or later too, as the code does
(`coordinator.py:1045-1049`, `services.yaml:30-35`), and any of the requests of a task
may fail. `RecordedIsFetched` excepts the measurements this happened to, which the
code records all the same; `NoHoles`, `CatchesUp` and `Rebalanced` speak of the time
before the first such failure, since the hole it leaves is never filled.

Abstracted: rows are visible once injected (the queue is `CumulativeSeries`'
subject); costs are left out; one chunk covers the history; options are only
switched on. `Troubles` names what else may go wrong around the integration; without
any:

- the portal publishes days in order (`out of order`) and for all measurements
  together, balanced data included; with `lag` balanced data may come days later than
  the other, within the grace period, and with `balanced late` after it;
- a day is published only once it is over (`unfinished`): `src/README.md:46` says the
  meter sends a day's data after its midnight;
- a measurement's history is imported while the others have all there is (`behind`);
- a meter becomes a prosumer's while nothing is being imported or enabled (`midway`);
- `enea.backfill` is called for ranges that adjoin the stored days of each measurement
  (`gap`).

`NoHoles` and `NoFalseZero` hold with `lag`, `Rebalanced` does not. `RecordedIsFetched`
and the types hold with all of them. The runs below, and the hazards, say what happens
where one of these is needed.

### CostPricing

The costs of the same days. `db` is what the recorder has committed and `queued`
what it will have once its queue is: the newest day with energy of each key, and
the cost row of each key, zone and day (a price, nothing, or `zero` for an hour
that left the zone). `prices` and `kept` are the fingerprints of `_cost_prices`,
`tariff` what `find_tariff_history` finds. A refresh goes through `StartCosts`,
`Reprice`, `CatchUp`, `Update`, `Drain`; `ImportHistory` is the background
backfill and `Action` `enea.backfill`. All of them share `Fetch`, `FetchFails`,
`Insert` and `Save`, the pieces between awaits; `After` says where each goes on.
`InsertCut` is a reload that finds only some zones written, `Stop` the end of
Home Assistant with or without its queue, `ChangePrices` a change of
`enea_prices`.

Abstracted: a day is one hour with consumption, a price is its own fingerprint
and has a zone of its own, tables reach back to the first day and never forget a
zone, the portal has every day that is over and none that is not. `enea.backfill`
takes any range. `Troubles` names what breaks the agreement of costs and fingerprints,
and `met` remembers which of these came; `Truthful` speaks of the time before the first:

| Trouble | What happens |
|---|---|
| `again` | prices change while costs and fingerprints differ, or a write at prices that have changed is cut short |
| `early` | the first costs of a measurement are cut short |
| `enabled` | a measurement is enabled while others lag behind or repricing is due, or prices or the day change before its history is there |
| `gap` | `enea.backfill` starts past the stored days, or while a measurement waits for its history |
| `lost` | days or costs are lost from the queue after their fingerprints were saved |
| `overlap` | `enea.backfill` runs beside a refresh |
| `partial` | some of the requests sent together fail |
| `slow` | the recorder takes longer than the portal |

All of them can happen, and each alone breaks what `Truthful` says without its condition
`met = {}` (`lost` needs two events). A run takes those of its `Troubles`, the run `costs`
none: then whatever else fails, is cut short or stops is still there (TLC's instance has
one such event, the proof any number), and so is every change of prices.

### AccountLifecycle

Who creates, shares, replaces and drops an `EneaAccount`. `table` is
`hass.data[DOMAIN]`, `obj` the accounts there are (whose login and password, whether
the session is open and logged in, whether dismissals are watched), `holds` the
account each entry's coordinator was created with. `SetUp` is `async_setup_entry` up
to the await of the first refresh, `SetUpDone`, `SetUpRejected`, `SetUpOnClosed` and
`SetUpFails` how that ends; `BeginUnload`, `FinishUnload`, `UnloadFails` and `Remove`
are the other two handlers, `Add`, `Reauthenticate` and `Reconfigure` the flows.

External: the states of an entry are Home Assistant's, and so is a fact the code
relies on without a comment: a session from `async_create_clientsession` is closed
when the setup that made it fails or its entry unloads. `__init__.py:94` looks for it,
`connector.py:73` turns a request on a closed session into an error, and
`tests/test_portal_http.py:290` tests the case. An object nothing refers to is taken again
(`Kept`), which keeps the graph finite. What the client and the messages do in between
is `ApiSession`'s and `Notifications`' subject: this module shows what they suppose of
their surroundings, that each login has one object that watches dismissals and that new
passwords come one after the other.

### RepairIssues

The issues of `issues.py`, the flows of `repairs.py` and the `enea_prices` entries both
are about. A refresh is cut at its awaits (`Dashboard`, `Detected`, `AskedSupport`,
`UpdateIssues`); `flow` is a fix the user has open, with the data it was opened with,
which may be out of date when it is confirmed. `SetPrices` is a change of an
`enea_prices` entry, which reloads the meters of its group and so cancels their
refreshes.

Abstracted: one setting stands for the three, which do not touch each other; a
detection never fails; startup is over.

### Calendar, Bills, Installation, DayHours, HistoryScan, Calculations

Calculations without a state, as operators named for the functions they translate,
each with a property that says what it must come to.

- `Bills`: `SettleNetMetering` and the kWh it takes in, with `Conserves`; the months of
  the two kinds of fees, with `AddUp`. Energy is in tenths and days in hundredths, so
  no rounding is lost. Prices and amounts are left out.
- `Installation`: `DetectInstallation` and its parts. `DetectedRight` compares a whole
  year with what is stored of it, and a partial one with all that the customer used.
- `DayHours`: `DaySlots` and `Stripped`. The portal's answer (`RangeAnswer`, external)
  has the shape the docstrings of `parsing.py` describe; the value of an hour is the
  hour itself, so `WholeDays` sees one that is lost, doubled or moved. `Wall` is the
  clock two moments of one zone are compared by, which shows an hour twice: `fold` does not
  count.
- `HistoryScan`: `Chunks` is the loop of `_fetch_days_backward`, `FindsHistory` what it
  may leave out.
- `Calendar`: days counted from the first of a month, with leap years and month ends.
- `Calculations` takes one input after the other, one action for each kind, so that the
  properties are invariants. What can be an input is a constant, with assumptions that
  say what the code's callers ensure: kWh are not negative; a bill's days follow one
  another; sums are stored from a day on, with zeroes at most before it, and may have gaps
  anywhere, the end included, whatever `statistics_until` says; without a meter
  before the active one nothing was used until that was assembled; the calendar reaches a
  year back from the days a reading may be on; the clock changes, and a meter is assembled,
  within the days; days are counted from the first the portal has anything for.

### MC modules

`MCNotifications`, `MCApiSession`, `MCCumulativeSeries`, `MCStatisticsImport`,
`MCCostPricing`, `MCAccountLifecycle`, `MCRepairIssues` extend the modules; the `.cfg`
files choose the instances. `MCCalculations` gives `Calculations` its inputs.

## Runs

| Run | Shows | Instance and why it is enough |
|---|---|---|
| `notifications` | no message is missed (`NothingMissed`), forgotten (`SeenIsHandled`), notified about twice (`NotifiedOnce`) or marked read unasked (`OnlyDismissedMarked`); every notification on screen is watched; the store follows the ledger (`KeepsLedger`) | two meters (one can join later), one message, three days (a check can start on one day and end on the next, then a later one look back), one waiting refresh, one stop. Messages do not interact but through sets; the proofs cover every number |
| `notifications_live` | stored dismissals reach the portal; every message of a meter that stays on is noticed | one meter, one message, two days, one stop |
| `session` | the five properties of the session | two requests, two passwords, two faults of any kind at any moment: enough for one request to be overtaken by another's failed or successful login; the safety properties are proved for any number |
| `series` | `Continuous`, `OneBreak`, `ValuesStay` | four hours, values 0 and 1, three imports, one death: ranges before, inside, across, after and around stored hours, a second rewrite over the first |
| `series_shared` | expected violation, see below | two hours, two imports |
| `import` | `NoHoles`, `NoFalseZero`, `RecordedIsFetched`, `CatchesUp`, `Rebalanced` | two measurements (one with balanced data), one of them perhaps enabled later, assembly date known or not, the real grace of three days, four days so that a day can go stale while a newer one exists; one event at any moment: a failure of some or all requests, a reload, a restart or `enea.backfill` for a range of one day or one up to the last day, today or not; all data of a day published together. What lags behind is left to the proofs of `NoHoles` and `NoFalseZero`, and to the next run |
| `import_lag` | expected violation, see below | one measurement, balanced data that may come a day late, four days; no failure, restart or action |
| `costs` | every day whose fingerprint is that of the present prices, which the code never looks at again, is charged exactly once at them, until the first trouble (`Truthful`); in the end every day is (`Repriced`) | two days (one before, one after a boundary; days do not interact otherwise), two prices in two zones (a new price is also a new zone), tables of every reach with days left out, two changes (there and back), one event: a failure, a reload, a stop or `enea.backfill`; a measurement with costs and one of power, either of them on at the start |
| `lifecycle` | each login has exactly one object that watches dismissals (`OneWatcher`), messages seen are forgotten only with the last entry of a login (`MessagesKept`), and questions for a password come to an end (`PasswordsSettle`) | two meters, two logins, an old and a new password, three things that happen unasked: enough for a password to change, one entry to be reauthenticated and the other set up with the old one, and for an entry to move to another login |
| `lifecycle_shared` | expected violation, see below | the same |
| `issues` | meters of one group keep no mismatch issues (`SharedRaisesNone`), every issue becomes right (`IssuesConverge`), fixes end (`FixesSettle`) | two meters, two groups of which one is supported, two values, one thing that happens unasked; every state of the dashboards and entries at the start, so that two meters share a group from the start or come to |
| `calculations` | `NetMeteringConserves`, `BillsAddUp`, `FactsAreRight`, `DaysAreWhole`, `ScanFindsHistory` | three zones and hours; windows around month ends and the tolerance over two years, one of them leap; dashboards, reading dates and statistics around both ends of the year, with a day or the end of the year not stored; up to three days with one longer and one shorter, every hour for the change of the clock and every half hour for the assembly; every set of ten days with data in chunks of four. Days of four hours and chunks of four days do what 24 and 180 do: only the boundaries matter |

Bounds: `MaxDay`, `LastDay`, `LastHour` end the calendar; `MaxWaiting` bounds
refreshes waiting for the lock (more of them repeat the same step);
`MaxStops`, `MaxRestarts`, `MaxFaults`, `MaxEvents`, `MaxChanges`, `MaxWrites` bound how often
something goes wrong or is called; `MaxValue` bounds an hour's value. Deadlock is
not checked where the calendar or the number of imports ends and the model really
stops (`CumulativeSeries`, `StatisticsImport`, `CostPricing`, `MCCalculations`) or where
nothing need happen any more (`AccountLifecycle`, `RepairIssues`).

Each property has a mutant of the code (`PROJECT.json`, "mutants") that breaks it
in the same run.

## Where the code and its docs disagree

Three runs expect a violation:

- **Two writers break a running total** (`series_shared`). `coordinator.py:468-475`
  explains why a write must wait for the queue, and `statistics.py:204-206` what the
  shift promises; `async_backfill` (`coordinator.py:1049`) neither waits nor is kept
  apart from a refresh.
- **The meters of an account do not keep sharing a session** (`lifecycle_shared`).
  `__init__.py:90` says they do and line 195 that the client stays while another entry uses the
  account. The session goes with the entry whose setup created it (line 99): when that
  entry is reloaded, the others keep a closed one and fail until each is reloaded. And
  an entry still being set up does not count (lines 186-194), so its account can be
  dropped under it.
- **The last days before balancing stay as they were** (`import_lag`).
  `coordinator.py:399-401` says that the history of a meter that has become a prosumer's
  is imported again and "every day agrees with the invoice", and line 378 that balanced
  data may be published later. The days it does not reach yet keep their old rows under
  the same statistic, line 382 counts these as the newest balanced days, and the refreshes
  start after them: no later one fetches them again.

Others show with a change to a configuration, and have no run of their own:

- **A dismissed notification can return.** README.md:199 says it does not. The
  dismissal lives in memory until the request that marks the message read is answered;
  only then is the store saved (`notifications.py:189-193`). Check
  `DismissedStaysAway` with one meter and one message.
- **A measurement that gets ahead leaves a hole in the others.** README.md:46 promises
  that missing days are fetched; a refresh starts after the newest day of any statistic
  (`coordinator.py:382-389`). `NoHoles` with `Troubles = {"behind"}`.
- **Two balanced measurements may be out of step.** When the meter becomes a prosumer's
  while one is being enabled, the other keeps days the new one does not get, and later days
  leave a hole in it. `NoHoles` with two keys in `Energy`, one of them on at the start,
  and `Troubles = {"lag", "midway"}`.
- **A failed request counts as imported.** `coordinator.py:528-529` says the flags
  record whose history was imported; line 546 records all active ones, also when
  `_fetch_range` went on without some. Check `RecordedIsImported`.
- **A day asked for before it is over stays as it was.** `services.yaml:30-35` allows any
  end date. If the portal already has hours of such a day, `enea.backfill` stores them, the
  day counts as the newest, and later refreshes start after it. A day is whole or
  missing in `StatisticsImport`, so what shows is only that one not over is stored: check
  `\A k \in Keys : today \notin Held(k)` with `Troubles = {"unfinished"}`.
- **Fingerprints without costs.** `coordinator.py:795` says they are the prices costs
  "have just been computed at". The import of a measurement enabled later stores them
  for its whole history (`coordinator.py:516`) though it computes no cost: a change of
  prices still to be applied then never is. `Truthful` without its condition
  `met = {}`, with `Troubles = {"enabled"}`; so for the other troubles of the table above.
- **A cut import leaves costs out for good.** `coordinator.py:639` says that days not yet
  covered get their costs. When the import of a second energy measurement, enabled later,
  is cut short between the series of its costs, the days the first one covers count
  (`costs.py:584`), its fingerprints pass for the second's, and nothing costs these days
  again. The same with two keys in `Costed`, one of them on at the start, and
  `Troubles = {"early"}`.
- **A meter assembled in a repeated hour keeps the hour before.** `parsing.py:170-171` says
  that stripping "stays correct even if the meter was assembled on a DST transition day".
  Two datetimes of one zone are compared by the clock (`parsing.py:176-182`), so a meter
  assembled in the second hour from two to three keeps the first. `AssemblyIsExact` with
  `MCCalculations`.
- **A year that is not stored to its end.** `installation.py:263-264` says the
  consumption needs the statistics to reach the reading. `statistics_until` is the newest day of
  any active statistic (`coordinator.py:275,333`): consumption that lags behind it, or
  has a hole, passes for the whole year's. `FactsAreOfTheYear` with `MCCalculations`.
- **Hasty fixes.** A user who confirms a fix before the meters of the group are up
  again can be asked to set the entry to and fro, which `issues.py:212-216` wants to
  avoid: two meters see only those that have reported. `FixesSettle` with
  `Settled == TRUE`.

## Fairness

- `Notifications`: refreshes go on (the coordinator's timer) and the check
  interval passes: weak fairness. Taking the lock and the pieces of a task are
  strongly fair: `asyncio.Lock` is first in, first out, and a task may be cancelled
  or stopped again and again but not for ever in the same place. Requests that are
  repeated are answered in the end.
- `ApiSession`: callers go on calling and every request is answered or times out
  (weak); the lock reaches each waiter (strong, first in first out). Nothing is
  assumed of the faults, which are bounded.
- `StatisticsImport`: refreshes go on, requests are answered, their tasks run (weak, in
  one condition, since a refresh and its backfill come one after the other).
  `Midnight`, the portal, the user and `enea.backfill` owe nothing.
- `CostPricing`: the same, and the recorder commits (weak). Failures, reloads and
  stops are bounded. `Repriced` supposes that no repricing has failed since the entry
  was loaded, because the code then waits for a reload (`coordinator.py:660-671`), and
  excepts days after the newest cost the portal has been asked about already
  (`costs.py:597`).
- `AccountLifecycle`: Home Assistant sets entries up, retries and unloads them, the
  timer refreshes, and a user who is asked for a password gives it (weak). The end of a
  setup is strongly fair: setups of two entries with different passwords may log each
  other out, but neither is always the one that comes too late. Failures, expiry and
  the user's other doings are bounded and owe nothing.
- `RepairIssues`: refreshes come and their awaits end, a fix that has written is
  finished (weak). The user need not open or confirm anything.

## Proofs

Assumptions are the named `ASSUME`s of the modules only; no bound is used beyond
being a number.

- `NotificationsProofs`: `LedgerDropsNothing`, the promise behind the ledger, and all
  seven properties of the run `notifications`, for any messages, meters and bounds. `SeenIsHandled` and `NothingMissed` are not inductive:
  they say nothing of a task in the middle. The invariant `TypeOK /\ Safe` adds that
  a state not loaded is empty (`Fresh`); that shown and unsent messages are seen ones
  and disjoint (`Tidy`, memory and store); that no day noted lies in the future
  (`Dated`); that an answer waiting to be applied holds
  every message its day demands (`AnswerIsWhole`), although messages arrive after it;
  and that memory is never behind the store (`Ahead`), without which a save could undo
  what an earlier one promised. `StoreKeepsLedger` then maps each save to a `Save` of
  the ledger, each step of the portal to `Portal`, and all others to stutters.
- `ApiSessionProofs`: `SessionTyped`, `SecondAttemptIsFresh`,
  `OneReplacementPerSession`, for any number of requests, passwords and faults. The
  invariant adds that a request logging in under the lock is the one holding it
  (`LockHeld`), that the generation it replaces was not replaced before
  (`NotYetReplaced`), and that replaced generations are old ones (`ReplacedIsOld`).
- `AccountLifecycleProofs`: `LifecycleTyped`, `LoginsHaveOneWatcher`,
  `MessagesAreKept`, for any entries, logins, passwords and account objects. The
  invariant adds `Named`: the account found under a login is that login's, so that
  dropping one login's account leaves the others' watched; and a coordinator holds an
  account that exists, so that the login its messages are saved under is known.
- `RepairIssuesProofs`: `IssuesTyped`, `SharedMetersRaiseNothing`, for any meters, groups
  and values. `SharedRaisesNone` speaks of meters between refreshes; `NoneShared` extends it to
  every meter past the update of its issues (`Judged`): the one judged last saw the
  others' groups, raised nothing and took back what they had raised.
- `CumulativeSeriesProofs`: `SeriesTyped`, `LoneWriterKeepsTotals`, `AtMostOneBreak`,
  `OwnValuesStay`, for any hours, values, imports and restarts, with the hypothesis
  `Lone(w)`: there is one writer and it waits for the recorder. The run `series_shared`
  shows that they fail with two. The properties speak of the database; the invariant
  says, for each place the call can be at and what is queued there (`Resting`, `Reading`,
  `Written`, `WrittenInPart`, ...), that the batches fit the rows they will meet:
  the range counts on from the total before it (`Fits`), the moved tail is the committed
  one plus what the range gains (`Moves`, `Shift`), and between the two commits exactly
  the hour after the range lacks the difference (`CountsOn`).
- `StatisticsImportProofs`: `ImportTyped` and `RecordedWasFetched` with any troubles;
  `NoZeroForData` without `out of order` and for `Grace >= 3`; `NoDayLeftOut`
  with no trouble but `lag` and until the first partial failure; for any measurements, days,
  overlaps and ranges of `enea.backfill`.
  For `NoFalseZero`, an answer may be a day old when it is assembled (`Age`), so what it lacks
  is at most two days old when it was published in time (`Answers`): a grace of three is
  the least that is enough. `NoHoles` needs to know what tasks
  hold: `Gapless` says that the portal's days have no gap (`Portal`), nor those of any
  statistic (`Whole`), that every statistic with a history holds at least the days of those
  a refresh starts after (`Level`), and that each task's range begins where its keys end or
  before, and its answer has no gap (`Tasked`, `Sound`), whatever has been added meanwhile.
  TLC checked `Gapless` on two instances
  before it was proved. The attempt to prove it is also how the disagreement of `import_lag`
  and the hole of two balanced measurements were found.
- `CostPricingProofs`: `PricesTyped` with any troubles; `FingerprintsTellTheTruth`
  (`Truthful`) too, with no hypothesis, for any measurements, zones, prices and days: until
  one of the troubles of the table above comes, however often prices change, requests fail
  together, other writes are cut short and Home Assistant stops. The invariant is
  `met = {} => Steady`: each action either adds a trouble to `met` or keeps `Steady`, so no
  trouble the model knows is assumed away. `Truthful` speaks of quiet
  moments; `Steady` says what holds between them. A fingerprint of the present prices tells
  the truth or is about to be saved (`Signs`), and there are no costs before the first
  fingerprints (`Unsigned`). What is stored is level (`Levels`), and while a measurement
  waits for its history the others are settled (`Awaited`). At most one task runs (`Alone`),
  and what it read is still so when it writes (`Sound`): days it takes for new have no
  costs, and those it rewrites are committed, so that each is left with one charge, in the
  zone of its price (`Recosted`). A rewrite cut short keeps what the fingerprints promise,
  because a day whose price is unchanged is written as it was (`CutKeeps`); a day with
  a fingerprint has energy, committed or in the queue, of a measurement that is on (`Known`). TLC checked
  `Steady` on six instances before it was proved. Looking for it showed that a measurement
  enabled later needs more of its surroundings than the model supposed at first: two
  counterexamples, which TLC confirmed, are now part of `early` and `enabled`.

- `CalculationsProofs`: `NetMeteringIsRight` (`NetMeteringConserves`), `BillsAreRight`
  (`BillsAddUp`), `FactsAreFound` (`FactsAreRight`), `DaysAreRight` (`DaysAreWhole`),
  `ScansAreRight` (`ScanFindsHistory`): all five properties of the run, for any inputs as
  `Calculations` assumes them, any zones, lengths of days, chunks and gaps, and any calendar
  whose months are near the average: in a row, any number of them are so many times 30.44
  days, give or take the seven of the tolerance (`MonthsAssumption`, which TLC evaluates
  for the calendar it uses; the Gregorian one drifts by less than four days in a century).
  The operators are folds over sets and recursive functions. That these are defined at all
  has to be shown first (`PartialExists`, `Recursion`, `UpToExists`, `FlattenIs`), then what
  one more member, step, chunk or slot does (`SumRemove`, `LeftIs`, `ScanIs`, `KeptIs`).
  - Net metering: every kWh is in one zone or in none (`KwhAddUp`), what is set against
    credit leaves neither negative (`OwnIs`), the surplus only falls (`LeftFalls`), and what
    the zones are given is what it loses (`GivenAddsUp`).
  - Bills: a day is in one month (`MonthOfIs`), and months are in the order of their days.
    `WholeWindowsAddUp` and `DetectedPeriodIsCharged` rest on the tolerance alone: three
    times seven days are less than a month.
  - Facts: the reading detected is a day of the calendar the statistics reach (`ReadingIs`),
    a year after the day the consumption is counted from (`YearBeforeIs`, whatever the
    lengths of months and leap days do). The consumption is the difference of two sums,
    which is what is stored of the days between (`ConsumptionIs`), whatever gaps there are.
    Either nothing was used before these, or the connection is new and what is missing was
    used within the slack (`NewConnectionMisses`), or the sum alone reaches the top
    bracket (`AnnualIs`).
  - Days: days do not share an hour (`HoursApart`), so of the answers in a row only a day's
    own slots are kept for it (`KeptDay`); the hours outnumber the sums (`FlattenLong`,
    `EntriesAre`); the repeated hour goes where it belongs (`MergedDay`); and what is left
    from the assembly on, by the clock, is an interval (`AssemblyHours`).
  - The scan: a chunk that is empty or whose oldest days are ends it well, and going on
    keeps it good (`ScansOn`).

  The attempt to prove `FactsAreRight` showed that it was wrong about zeroes older versions
  of the integration stored: one within the slack of a new connection is a day with a sum,
  yet what was used before it is missing. The days a bracket may miss are now those of the
  slack whose sum is still zero, and the run has such zeroes.

TLC checked the properties before they were proved.

The greatest and least members of sets, the rows before an hour, sums and recursive
functions need induction over
data. The library's induction theorems take an operator as a parameter and cannot be
instantiated, but `WFMin` does not: a set of numbers that is not empty has a least member
(`Least`, `LeastNumber`), so a counterexample would have a least one, and a set of finite
sets a smallest one (`SmallestSet`).

Only model-checked: everything under liveness (`PendingReadIsSent`,
`MessageIsNoticed`, `EveryRequestEnds`, `Recovers`, `CatchesUp`, `Rebalanced`,
`Repriced`, `PasswordsSettle`, `IssuesConverge`, `FixesSettle`), which is out of the
prover's reach. Every invariant and every action property of a passing run is proved.

## What is not modelled

- Texts, translations, logging, diagnostics and entities: they display state.
- Power statistics: an hour is overwritten, nothing accumulates.
- A malformed portal message (`notifications.py:279-280`).
- A death between a rewritten range and the shift after it: `Continuous` excludes
  the series it happened to, since the code does not repair it.
- A reload between the series of one injection (`StatisticsImport` injects in one
  step), and flags that outlive rows lost from the queue.
- A meter that becomes a prosumer's while its days are imported: `Troubles` has it
  (`midway`) and no run takes it. The flag set at `coordinator.py:550-551` follows the
  dashboard of that moment, so `Rebalanced` fails with it.
- Days stored in part: in `StatisticsImport` and `CostPricing` a day is there or not, so
  one asked for before it is over does not become whole or stay incomplete.
- Costs of hours within a day, batches of zeroes, net metering, and zones that leave
  the price tables (`_clear_moved_hours` no longer sees them).
- Home Assistant's startup, and the statistics step deferred to its end
  (`coordinator.py:312`), which goes on when its entry is unloaded meanwhile.
- Amounts of a bill and their rounding; `async_recompute_bills`, of which two may overlap
  and the older one store its result last (`coordinator.py:1081`).
- A send task of notifications replaced with their account, and logins spelt with
  other case (`storage_key` folds it, `__init__.py:219` does not).
- Nulls within a day, and the phases worked out from the contractual capacity.
- Sensors, diagnostics, texts and the fixture script: they display or hold no
  behaviour, see `PROJECT.json`.

## Plan

Done, in this order: `MessageLedger`, `Notifications`, `NotificationsProofs`,
`ApiSession`, `ApiSessionProofs`, `CumulativeSeries`, `StatisticsImport`,
`CostPricing`, `AccountLifecycle`, `RepairIssues`, the calculations, and the proofs of
`AccountLifecycle`, `RepairIssues`, `CumulativeSeries`, `StatisticsImport`,
`CostPricing` and of the calculations.

Next, most important first:

1. An abstract specification of the costs, which `CostPricing` implements.
2. The tasks that work out the bills, which may overlap, and the step deferred to the
   end of startup.
3. An injection that can be cut between series in `StatisticsImport`; the hours of a
   day and the zeroes in `CostPricing`.
