----------------------- MODULE StatisticsImportProofs -----------------------
(***************************************************************************)
(* What StatisticsImport promises, for any measurements, days and tasks     *)
(* that overlap: what a refresh asks for is over; what is recorded as       *)
(* imported has been answered, or refused beside the rest; a day published  *)
(* in time is never stored as zero; no day is left out.  Each theorem names *)
(* the troubles it rules out.                                               *)
(***************************************************************************)
EXTENDS StatisticsImport, WellFoundedInduction, TLAPS

Stages == {"idle", "fetch", "inject", "flag"}
Marks == {"none", "raw", "balanced", "zero"}

TaskRecords ==
    [at : Stages, keys : SUBSET Keys, all : BOOLEAN, from : Days, to : 0..LastDay,
     fill : BOOLEAN, skip : BOOLEAN, late : BOOLEAN,
     got : UNION {[S -> SUBSET Days] : S \in SUBSET Keys},
     kind : UNION {[S -> {"raw", "balanced"}] : S \in SUBSET Keys}]

\* The last day the portal may have data for.
Over(now) == IF "unfinished" \in Troubles THEN now ELSE now - 1

\* A task whose answers are for the days it has asked for, and of the past.
Sane(record, now) ==
    /\ record \in TaskRecords
    /\ DOMAIN record.got \subseteq record.keys /\ DOMAIN record.kind = DOMAIN record.got
    /\ \A k \in DOMAIN record.got : record.got[k] \subseteq record.from..record.to
    /\ \A k \in DOMAIN record.got : \A d \in record.got[k] : d <= Over(now)

Types ==
    /\ today \in 1..LastDay + 1
    /\ published \in [Feeds -> SUBSET Days] /\ inTime \in [Feeds -> SUBSET Days]
    /\ prosumer \in BOOLEAN /\ assembly \in BOOLEAN /\ balanced \in BOOLEAN
    /\ active \subseteq Keys /\ active # {} /\ imported \subseteq Keys
    /\ fetched \subseteq Keys /\ refused \subseteq Keys
    /\ \A f \in Feeds : \A d \in published[f] : d <= Over(today)
    /\ stored \in [Keys -> [Days -> Marks]]
    /\ \A k \in Keys : \A d \in Days : stored[k][d] # "none" => d <= Over(today)
    /\ task \in [Tasks -> TaskRecords] /\ \A t \in Tasks : Sane(task[t], today)
    /\ \A t \in Tasks \ {"action"} : task[t].to < today
    /\ events \in 0..MaxEvents

-----------------------------------------------------------------------------
(* The newest day. *)

LEMMA Least ==
    ASSUME NEW T \in SUBSET Nat, T # {}
    PROVE  \E n \in T : \A m \in T : n <= m
<1>1. PICK n \in T : \A m \in T : <<m, n>> \notin OpToRel(<, Nat)
  BY WFMin, NatLessThanWellFounded
<1>2. \A m \in T : ~(m < n)
  BY <1>1 DEF OpToRel
<1>3. \A m \in T : n <= m
  BY <1>2
<1> QED
  BY <1>3

LEMMA MaxIs ==
    ASSUME NEW S \in SUBSET (0..LastDay + 1), S # {}
    PROVE  Max(S) \in S /\ \A s \in S : s <= Max(S)
<1> DEFINE gaps == {n \in Nat : \E s \in S : n = LastDay + 1 - s}
<1>1. /\ S \subseteq Nat /\ LastDay \in Nat
      /\ \A s \in S : s \in Nat /\ s <= LastDay + 1 /\ LastDay + 1 - s \in Nat
  BY ImportAssumption
<1>2. \A s \in S : LastDay + 1 - s \in gaps
  <2> SUFFICES ASSUME NEW s \in S PROVE LastDay + 1 - s \in gaps
    OBVIOUS
  <2>1. LastDay + 1 - s \in Nat
    BY <1>1
  <2> QED
    BY <2>1
<1>3. gaps # {} /\ gaps \in SUBSET Nat
  BY <1>2
<1>4. PICK n \in gaps : \A m \in gaps : n <= m
  BY <1>3, Least
<1>5. PICK s \in S : n = LastDay + 1 - s
  BY <1>4
<1>6. \A r \in S : r <= s
  <2> SUFFICES ASSUME NEW r \in S PROVE r <= s
    OBVIOUS
  <2>1. LastDay + 1 - s <= LastDay + 1 - r
    BY <1>2, <1>4, <1>5
  <2>2. LastDay \in Int /\ s \in Int /\ r \in Int
    BY <1>1
  <2> QED
    BY <2>1, <2>2
<1>7. \A r \in S : s >= r
  BY <1>1, <1>6
<1>8. Max(S) \in S /\ \A r \in S : Max(S) >= r
  BY <1>7 DEF Max
<1> QED
  BY <1>1, <1>8

LEMMA OverIs ==
    ASSUME NEW now \in Int
    PROVE  Over(now) \in Int /\ Over(now) <= now /\ now - 1 <= Over(now) /\ Over(now) <= Over(now + 1)
<1>1. Over(now) \in {now, now - 1} /\ Over(now + 1) \in {now + 1, now}
  BY DEF Over
<1>2. Over(now) = now <=> Over(now + 1) = now + 1
  BY DEF Over
<1> QED
  BY <1>1, <1>2

LEMMA LatestIs ==
    ASSUME Types, NEW k \in Keys
    PROVE  /\ Latest(k) \in {0} \cup Held(k) /\ \A d \in Held(k) : d <= Latest(k)
           /\ Held(k) \in SUBSET Days /\ Latest(k) \in Nat /\ Latest(k) <= today
           /\ (Latest(k) = 0 <=> Held(k) = {})
<1>1. Held(k) \in SUBSET Days /\ \A d \in Held(k) : d \in Nat /\ d > 0 /\ d <= today
  <2>1. today \in Int /\ Over(today) \in Int /\ Over(today) <= today
    BY OverIs DEF Types
  <2>2. \A d \in Held(k) : d \in Days /\ d <= Over(today)
    BY DEF Types, Held
  <2>3. \A d \in Days : d \in Nat /\ d > 0
    BY ImportAssumption DEF Days
  <2> QED
    BY <2>1, <2>2, <2>3
<1>2. {0} \cup Held(k) \in SUBSET (0..LastDay + 1)
  BY <1>1, ImportAssumption DEF Days
<1>3. Latest(k) \in {0} \cup Held(k) /\ \A d \in {0} \cup Held(k) : d <= Latest(k)
  BY <1>2, MaxIs DEF Latest
<1>4. today \in Nat /\ 0 < today
  BY ImportAssumption DEF Types
<1> QED
  BY <1>1, <1>3, <1>4

\* The measurements whose newest day a refresh starts after.
Leaders == IF BalancedKeys = {} THEN active ELSE BalancedKeys

LEMMA NewestIs ==
    ASSUME Types, Leaders # {}
    PROVE  /\ \E b \in Leaders : NewestDay = Latest(b)
           /\ \A b \in Leaders : Latest(b) <= NewestDay
           /\ NewestDay \in Nat /\ NewestDay <= today
           /\ (NewestDay = 0 <=> \A b \in Leaders : Held(b) = {})
<1>1. Leaders \subseteq Keys
  BY DEF Leaders, BalancedKeys, Types
<1>2. \A b \in Leaders : Latest(b) \in Nat /\ Latest(b) <= today /\ (Latest(b) = 0 <=> Held(b) = {})
  BY <1>1, LatestIs
<1>3. today \in 1..LastDay + 1
  BY DEF Types
<1> DEFINE days == {Latest(k) : k \in Leaders}
<1>4. days \in SUBSET (0..LastDay + 1) /\ days # {}
  BY <1>2, <1>3, ImportAssumption
<1>5. NewestDay = Max(days)
  BY DEF NewestDay, Leaders
<1>6. NewestDay \in days /\ \A d \in days : d <= NewestDay
  BY <1>4, <1>5, MaxIs
<1> QED
  BY <1>2, <1>6

-----------------------------------------------------------------------------
(* Every step keeps the types. *)

LEMMA IdleIsSane ==
    ASSUME NEW now \in 1..LastDay + 1
    PROVE  Sane(Idle, now) /\ Idle.to < now
<1>1. /\ [k \in {} |-> {}] \in UNION {[S -> SUBSET Days] : S \in SUBSET Keys}
      /\ [k \in {} |-> "raw"] \in UNION {[S -> {"raw", "balanced"}] : S \in SUBSET Keys}
  <2>1. [k \in {} |-> {}] \in [{} -> SUBSET Days] /\ {} \in SUBSET Keys
    OBVIOUS
  <2>2. [k \in {} |-> "raw"] \in [{} -> {"raw", "balanced"}]
    OBVIOUS
  <2> QED
    BY <2>1, <2>2
<1>2. 1 \in Days /\ 0 \in 0..LastDay /\ 0 < now
  BY ImportAssumption DEF Days
<1>3. Idle \in TaskRecords
  BY <1>1, <1>2 DEF Idle, TaskRecords, Stages
<1> QED
  BY <1>2, <1>3 DEF Sane, Idle

LEMMA Begun ==
    ASSUME Types, NEW t \in Tasks, NEW fields, Sane(fields, today), Begin(t, fields),
           t # "action" => fields.to < today
    PROVE  /\ task' \in [Tasks -> TaskRecords] /\ \A u \in Tasks : Sane(task'[u], today)
           /\ \A u \in Tasks \ {"action"} : task'[u].to < today
           /\ task'[t] = fields /\ \A u \in Tasks \ {t} : task'[u] = task[u]
  BY DEF Types, Begin, Sane

LEMMA Cancelled ==
    ASSUME Types, NEW S, Cancel(S)
    PROVE  /\ task' \in [Tasks -> TaskRecords] /\ \A u \in Tasks : Sane(task'[u], today)
           /\ \A u \in Tasks \ {"action"} : task'[u].to < today
           /\ \A u \in Tasks : task'[u] = IF u \in S THEN Idle ELSE task[u]
<1>1. Sane(Idle, today) /\ Idle.to < today
  BY IdleIsSane DEF Types
<1> QED
  BY <1>1 DEF Types, Cancel, Sane

LEMMA InitTypes == ASSUME Init PROVE Types
<1>1. today \in 1..LastDay + 1 /\ events \in 0..MaxEvents
  BY ImportAssumption DEF Init
<1>2. /\ published \in [Feeds -> SUBSET Days] /\ inTime \in [Feeds -> SUBSET Days]
      /\ stored \in [Keys -> [Days -> Marks]]
      /\ \A k \in Keys : \A d \in Days : stored[k][d] # "none" => d <= Over(today)
      /\ \A f \in Feeds : \A d \in published[f] : d <= Over(today)
  BY DEF Init, Marks
<1>3. prosumer \in BOOLEAN /\ assembly \in BOOLEAN /\ balanced \in BOOLEAN
  BY ImportAssumption DEF Init
<1>4. /\ active \subseteq Keys /\ active # {} /\ imported \subseteq Keys
      /\ fetched \subseteq Keys /\ refused \subseteq Keys
  BY ImportAssumption DEF Init
<1>5. \A t \in Tasks : task[t] = Idle /\ Sane(task[t], today) /\ task[t].to < today
  BY <1>1, IdleIsSane DEF Init
<1>6. task \in [Tasks -> TaskRecords]
  BY <1>5 DEF Init, Sane
<1> QED
  BY <1>1, <1>2, <1>3, <1>4, <1>5, <1>6 DEF Types

\* A task that starts asks for days that are over.
LEMMA HistorySane ==
    ASSUME Types, NEW keys \in SUBSET Keys, Yesterday >= 0
    PROVE  /\ Sane(History(keys), today) /\ Sane([History(keys) EXCEPT !.all = FALSE], today)
           /\ History(keys).to < today /\ [History(keys) EXCEPT !.all = FALSE].to < today
<1>1. Yesterday \in 0..LastDay /\ Yesterday < today /\ 1 \in Days
  BY ImportAssumption DEF Types, Yesterday, Days
<1>2. Sane(Idle, today) /\ assembly \in BOOLEAN
  BY IdleIsSane DEF Types
<1>3. PICK all \in BOOLEAN : all = (keys = active)
  OBVIOUS
<1> DEFINE record == [Idle EXCEPT !.at = "fetch", !.keys = keys, !.all = all, !.to = Yesterday,
                                  !.fill = assembly, !.skip = assembly]
           other == [record EXCEPT !.all = FALSE]
<1>4. History(keys) = record
  BY <1>3 DEF History
<1>5. Idle \in TaskRecords
  BY <1>2 DEF Sane
<1>6. record \in TaskRecords
  BY <1>1, <1>2, <1>5 DEF TaskRecords, Stages
<1>7. /\ record.to = Yesterday /\ record.got = Idle.got /\ record.kind = Idle.kind
      /\ DOMAIN Idle.got = {} /\ DOMAIN Idle.kind = {}
  BY DEF Idle
<1> HIDE DEF record
<1>8. other \in TaskRecords
  BY <1>6 DEF TaskRecords
<1>9. other.to = record.to /\ other.got = record.got /\ other.kind = record.kind
  BY <1>6 DEF TaskRecords
<1> HIDE DEF other
<1>10. /\ Sane(record, today) /\ Sane(other, today)
       /\ record.to < today /\ other.to < today
  BY <1>1, <1>6, <1>7, <1>8, <1>9 DEF Sane
<1> QED
  BY <1>1, <1>4, <1>10 DEF other

LEMMA Kept ==
    ASSUME Types, task' \in [Tasks -> TaskRecords], \A u \in Tasks : Sane(task'[u], today),
           \A u \in Tasks \ {"action"} : task'[u].to < today,
           UNCHANGED <<today, portal, stored>>,
           active' \subseteq Keys, active' # {}, imported' \subseteq Keys,
           fetched' \subseteq Keys, refused' \subseteq Keys,
           balanced' \in BOOLEAN, events' \in 0..MaxEvents
    PROVE  Types'
  BY DEF Types, portal

LEMMA FetchSane ==
    ASSUME Types, NEW t \in Tasks, NEW answered \in SUBSET task[t].keys, NEW new,
           new = [task[t] EXCEPT
                    !.at = "inject",
                    !.got = [k \in answered |->
                                published[Feed(k)] \cap (task[t].from..task[t].to)],
                    !.kind = [k \in answered |-> Kind(Feed(k))]]
    PROVE  Sane(new, today) /\ new.to = task[t].to
<1> DEFINE got == [k \in answered |-> published[Feed(k)] \cap (task[t].from..task[t].to)]
           kind == [k \in answered |-> Kind(Feed(k))]
           record == [task[t] EXCEPT !.at = "inject", !.got = got, !.kind = kind]
<1>1. Sane(task[t], today) /\ task[t] \in TaskRecords
  BY DEF Types, Sane
<1>2. answered \in SUBSET Keys
  BY <1>1 DEF TaskRecords
<1>3. \A k \in answered : /\ Feed(k) \in Feeds /\ Kind(Feed(k)) \in {"raw", "balanced"}
                          /\ published[Feed(k)] \in SUBSET Days
                          /\ \A d \in published[Feed(k)] : d <= Over(today)
  BY <1>2 DEF Feed, Feeds, Kind, Types
<1>4. got \in [answered -> SUBSET Days] /\ kind \in [answered -> {"raw", "balanced"}]
  BY <1>3
<1>5. /\ got \in UNION {[S -> SUBSET Days] : S \in SUBSET Keys}
      /\ kind \in UNION {[S -> {"raw", "balanced"}] : S \in SUBSET Keys}
  BY <1>2, <1>4
<1>6. /\ DOMAIN got = answered /\ DOMAIN kind = answered
      /\ \A k \in answered : got[k] \subseteq task[t].from..task[t].to
      /\ \A k \in answered : \A d \in got[k] : d <= Over(today)
  BY <1>3
<1> HIDE DEF got, kind
<1>7. record \in TaskRecords
  BY <1>1, <1>5 DEF TaskRecords, Stages
<1>8. /\ record.got = got /\ record.kind = kind /\ record.to = task[t].to
      /\ record.from = task[t].from /\ record.keys = task[t].keys
  BY <1>1 DEF TaskRecords
<1> HIDE DEF record
<1>9. Sane(record, today)
  BY <1>1, <1>6, <1>7, <1>8 DEF Sane
<1> QED
  BY <1>8, <1>9 DEF record, got, kind

\* A day that is given up is long over, whatever range a task asks for.
LEMMA GivenUpIsOver ==
    ASSUME Types, NEW t \in Tasks
    PROVE  \A d \in ZeroFilled(t) : d \in Days /\ d <= today - 1
<1> TAKE d \in ZeroFilled(t)
<1>1. PICK from \in Days, to \in 0..LastDay : from = task[t].from /\ to = task[t].to
  BY DEF Types, TaskRecords
<1>2. d \in from..to /\ today - d >= Grace
  BY <1>1 DEF ZeroFilled, Stale
<1>3. today \in Int /\ Grace \in Int /\ Grace >= 1 /\ LastDay \in Int
  BY ImportAssumption DEF Types
<1>4. d \in Int /\ 1 <= d /\ d <= LastDay
  BY <1>1, <1>2, <1>3 DEF Days
<1> QED
  BY <1>2, <1>3, <1>4 DEF Days

LEMMA InjectTypes ==
    ASSUME Types, NEW t \in Tasks, Inject(t)
    PROVE  /\ stored' \in [Keys -> [Days -> Marks]]
           /\ \A k \in Keys : \A d \in Days : stored'[k][d] # "none" => d <= Over(today)
           /\ \A k \in Keys : \A d \in Days :
                 stored'[k][d] = IF k \notin DOMAIN task[t].got THEN stored[k][d]
                                 ELSE IF d \in task[t].got[k] THEN task[t].kind[k]
                                 ELSE IF d \in ZeroFilled(t) THEN "zero"
                                 ELSE stored[k][d]
<1>1. Sane(task[t], today) /\ task[t] \in TaskRecords /\ today \in Int
  BY ImportAssumption DEF Types, Sane
<1>2. \A k \in Keys : \A d \in Days :
          stored'[k][d] = IF k \notin DOMAIN task[t].got THEN stored[k][d]
                          ELSE IF d \in task[t].got[k] THEN task[t].kind[k]
                          ELSE IF d \in ZeroFilled(t) THEN "zero"
                          ELSE stored[k][d]
  BY DEF Inject
<1>3. \A k \in DOMAIN task[t].got : task[t].kind[k] \in {"raw", "balanced"}
  <2>1. task[t].kind \in UNION {[S -> {"raw", "balanced"}] : S \in SUBSET Keys}
    BY <1>1 DEF TaskRecords
  <2>2. DOMAIN task[t].kind = DOMAIN task[t].got
    BY <1>1 DEF Sane
  <2> QED
    BY <2>1, <2>2
<1>4. \A k \in Keys, d \in Days :
          stored[k][d] \in Marks /\ (stored[k][d] # "none" => d <= Over(today))
  BY DEF Types
<1>5. \A d \in ZeroFilled(t) : d \in Days /\ d <= today - 1
  BY GivenUpIsOver
<1>6. \A d \in ZeroFilled(t) : d <= Over(today)
  BY <1>1, <1>5, OverIs DEF Days
<1>7. \A k \in DOMAIN task[t].got : \A d \in task[t].got[k] : d <= Over(today)
  BY <1>1 DEF Sane
<1>8. \A k \in Keys, d \in Days :
          stored'[k][d] \in Marks /\ (stored'[k][d] # "none" => d <= Over(today))
  BY <1>2, <1>3, <1>4, <1>6, <1>7 DEF Marks
<1>9. /\ stored' = [k \in Keys |-> stored'[k]]
      /\ \A k \in Keys : stored'[k] = [d \in Days |-> stored'[k][d]]
  BY DEF Inject
<1>10. \A k \in Keys : stored'[k] \in [Days -> Marks]
  BY <1>8, <1>9
<1>11. stored' \in [Keys -> [Days -> Marks]]
  BY <1>9, <1>10
<1> QED
  BY <1>2, <1>8, <1>11

LEMMA PublishTypes ==
    ASSUME Types, NEW d \in Days, NEW S \in SUBSET Feeds, Publish(d, S)
    PROVE  Types'
<1>1. published' \in [Feeds -> SUBSET Days] /\ inTime' \in [Feeds -> SUBSET Days]
  BY DEF Types, Publish
<1>2. d <= Over(today) /\ today' = today
  <2>1. today \in Int /\ d \in Int
    BY DEF Types, Days
  <2>2. d <= today /\ ("unfinished" \notin Troubles => d < today) /\ today' = today
    BY DEF Publish
  <2> QED
    BY <2>1, <2>2 DEF Over
<1>3. \A f \in Feeds : \A e \in published'[f] : e <= Over(today)
  BY <1>2 DEF Types, Publish
<1> QED
  BY <1>1, <1>2, <1>3 DEF Types, Publish, entry

LEMMA MidnightTypes == ASSUME Types, Midnight PROVE Types'
<1>1. today \in 1..LastDay + 1 /\ today <= LastDay /\ today' = today + 1
  BY DEF Types, Midnight
<1>2. today' \in 1..LastDay + 1 /\ \A d \in Int : d < today => d < today'
  BY <1>1, ImportAssumption
<1>7. \A d \in Int : d <= Over(today) => d <= Over(today')
  BY <1>1, OverIs
<1>3. \A t \in Tasks : task'[t] = [task[t] EXCEPT !.late = Running(t)]
  BY DEF Midnight
<1>4. \A t \in Tasks :
        task'[t] \in TaskRecords /\ Sane(task'[t], today') /\ task'[t].to = task[t].to
  <2> SUFFICES ASSUME NEW t \in Tasks
               PROVE  /\ task'[t] \in TaskRecords /\ Sane(task'[t], today')
                      /\ task'[t].to = task[t].to
    OBVIOUS
  <2>1. task[t] \in TaskRecords /\ Sane(task[t], today)
    BY DEF Types
  <2>2. PICK late \in BOOLEAN : late = Running(t)
    BY DEF Running
  <2>3. task'[t] = [task[t] EXCEPT !.late = late]
    BY <1>3, <2>2
  <2>4. task'[t] \in TaskRecords
    BY <2>1, <2>3 DEF TaskRecords
  <2>5. /\ task'[t].to = task[t].to /\ task'[t].got = task[t].got /\ task'[t].kind = task[t].kind
        /\ task'[t].keys = task[t].keys /\ task'[t].from = task[t].from
    BY <2>1, <2>3 DEF TaskRecords
  <2>6. \A k \in DOMAIN task[t].got : task[t].got[k] \subseteq Int
    BY <2>1 DEF Sane, TaskRecords
  <2> QED
    BY <1>7, <2>1, <2>4, <2>5, <2>6 DEF Sane
<1>5. task' \in [Tasks -> TaskRecords]
  BY <1>3, <1>4 DEF Midnight
<1>6. /\ \A k \in Keys : \A d \in Days : stored'[k][d] # "none" => d <= Over(today')
      /\ \A f \in Feeds : \A d \in published'[f] : d <= Over(today')
  <2>1. /\ \A d \in Days : d \in Int
        /\ \A f \in Feeds : published[f] \subseteq Days
    BY DEF Days, Types
  <2>2. /\ \A k \in Keys : \A d \in Days : stored[k][d] # "none" => d <= Over(today)
        /\ \A f \in Feeds : \A d \in published[f] : d <= Over(today)
    BY DEF Types
  <2> QED
    BY <1>7, <2>1, <2>2 DEF Midnight, portal
<1>8. \A t \in Tasks \ {"action"} : task'[t].to < today'
  <2> SUFFICES ASSUME NEW t \in Tasks \ {"action"} PROVE task'[t].to < today'
    OBVIOUS
  <2>1. task[t] \in TaskRecords /\ task[t].to < today
    BY DEF Types
  <2>2. task'[t].to = task[t].to /\ task[t].to \in Int
    BY <1>4, <2>1 DEF TaskRecords
  <2> QED
    BY <1>2, <2>1, <2>2
<1> QED
  BY <1>2, <1>4, <1>5, <1>6, <1>8 DEF Types, Midnight, portal, entry

LEMMA NewestBelow ==
    ASSUME Types
    PROVE  NewestDay # 0 /\ NewestDay < Yesterday =>
              FirstMissing \in Days /\ Yesterday \in 0..LastDay /\ Yesterday < today
<1> SUFFICES ASSUME NewestDay # 0, NewestDay < Yesterday
             PROVE  FirstMissing \in Days /\ Yesterday \in 0..LastDay /\ Yesterday < today
  OBVIOUS
<1>1. Leaders # {}
  BY DEF Leaders, Types
<1>2. NewestDay \in Nat
  BY <1>1, NewestIs
<1> QED
  BY <1>2, ImportAssumption DEF Types, Yesterday, FirstMissing, Days

LEMMA UpdateTypes == ASSUME Types, Update PROVE Types'
<1> DEFINE record == [Idle EXCEPT !.at = "fetch", !.keys = active, !.from = FirstMissing,
                                  !.to = Yesterday, !.fill = TRUE]
<1>1. Sane(Idle, today) /\ active \in SUBSET Keys
  BY IdleIsSane DEF Types
<1>2. FirstMissing \in Days /\ Yesterday \in 0..LastDay /\ Yesterday < today
  BY NewestBelow DEF Update
<1>3. record \in TaskRecords
  BY <1>1, <1>2 DEF Sane, TaskRecords, Stages
<1>4. /\ record.to = Yesterday /\ record.got = Idle.got /\ record.kind = Idle.kind
      /\ DOMAIN Idle.got = {} /\ DOMAIN Idle.kind = {}
  BY DEF Idle
<1> HIDE DEF record
<1>5. Sane(record, today) /\ record.to < today
  BY <1>2, <1>3, <1>4 DEF Sane
<1>6. Begin("refresh", record) /\ "refresh" \in Tasks
  BY DEF Update, record, Tasks
<1>7. /\ task' \in [Tasks -> TaskRecords] /\ \A u \in Tasks : Sane(task'[u], today)
      /\ \A u \in Tasks \ {"action"} : task'[u].to < today
  BY <1>5, <1>6, Begun
<1> QED
  BY <1>7, Kept DEF Update, portal, entry, Types

LEMMA ActionTypes ==
    ASSUME Types, NEW from \in Days, NEW to \in 0..LastDay, Action(from, to)
    PROVE  Types'
<1> DEFINE record == [Idle EXCEPT !.at = "fetch", !.keys = active, !.from = from,
                                  !.to = to, !.fill = TRUE]
<1>1. Sane(Idle, today) /\ active \in SUBSET Keys
  BY IdleIsSane DEF Types
<1>3. record \in TaskRecords
  BY <1>1 DEF Sane, TaskRecords, Stages
<1>4. /\ record.to = to /\ record.got = Idle.got /\ record.kind = Idle.kind
      /\ DOMAIN Idle.got = {} /\ DOMAIN Idle.kind = {}
  BY DEF Idle
<1> HIDE DEF record
<1>5. Sane(record, today)
  BY <1>3, <1>4 DEF Sane
<1>6. Begin("action", record) /\ "action" \in Tasks
  BY DEF Action, record, Tasks
<1>7. /\ task' \in [Tasks -> TaskRecords] /\ \A u \in Tasks : Sane(task'[u], today)
      /\ \A u \in Tasks \ {"action"} : task'[u].to < today
  BY <1>5, <1>6, Begun
<1>8. events' \in 0..MaxEvents
  BY ImportAssumption DEF Action, Event, Types
<1> QED
  BY <1>7, <1>8, Kept DEF Action, portal, entry, Types

LEMMA BackfillTypes == ASSUME Types, ImportAll \/ ImportMissing PROVE Types'
<1> DEFINE record == IF ImportAll THEN History(active)
                     ELSE [History(Missing) EXCEPT !.all = FALSE]
<1>1. active \in SUBSET Keys /\ Missing \in SUBSET Keys
  BY DEF Types, Missing
<1>2. Yesterday >= 0
  BY ImportAssumption DEF Types, Yesterday
<1>3. Sane(record, today) /\ record.to < today
  BY <1>1, <1>2, HistorySane
<1>4. Begin("backfill", record) /\ "backfill" \in Tasks
  BY DEF ImportAll, ImportMissing, Tasks
<1> HIDE DEF record
<1>5. /\ task' \in [Tasks -> TaskRecords] /\ \A u \in Tasks : Sane(task'[u], today)
      /\ \A u \in Tasks \ {"action"} : task'[u].to < today
  BY <1>3, <1>4, Begun
<1> QED
  BY <1>5, Kept DEF ImportAll, ImportMissing, portal, entry, Types

LEMMA CancelTypes ==
    ASSUME Types, \/ \E k \in Keys : Enable(k)
                  \/ Stop({"refresh", "backfill"}) \/ Stop(Tasks)
    PROVE  Types'
<1>1. PICK S : Cancel(S)
  BY DEF Enable, Stop
<1>2. /\ task' \in [Tasks -> TaskRecords] /\ \A u \in Tasks : Sane(task'[u], today)
      /\ \A u \in Tasks \ {"action"} : task'[u].to < today
  BY <1>1, Cancelled
<1>3. active' \subseteq Keys /\ active' # {}
  BY DEF Types, Enable, Stop, entry
<1>4. events' \in 0..MaxEvents
  BY ImportAssumption DEF Types, Enable, Stop, Event
<1>5. UNCHANGED <<today, portal, stored, imported, fetched, refused, balanced>>
  BY DEF Enable, Stop, entry
<1> QED
  BY <1>2, <1>3, <1>4, <1>5, Kept DEF Types

LEMMA FetchTypes ==
    ASSUME Types, NEW t \in Tasks, NEW failed \in SUBSET task[t].keys, Fetch(t, failed)
    PROVE  Types'
<1> DEFINE answered == task[t].keys \ failed
           record == [task[t] EXCEPT
                        !.at = "inject",
                        !.got = [k \in answered |->
                                    published[Feed(k)] \cap (task[t].from..task[t].to)],
                        !.kind = [k \in answered |-> Kind(Feed(k))]]
<1>1. answered \in SUBSET task[t].keys /\ Sane(record, today) /\ record.to = task[t].to
  BY FetchSane
<1>2. /\ Begin(t, record) /\ fetched' \subseteq fetched \cup answered
      /\ refused' = refused \cup failed
  BY DEF Fetch
<1> HIDE DEF record
<1>7. t # "action" => record.to < today
  BY <1>1 DEF Types
<1>3. /\ task' \in [Tasks -> TaskRecords] /\ \A u \in Tasks : Sane(task'[u], today)
      /\ \A u \in Tasks \ {"action"} : task'[u].to < today
  BY <1>1, <1>2, <1>7, Begun
<1>4. fetched' \subseteq Keys /\ refused' \subseteq Keys
  BY <1>1, <1>2 DEF Types, Sane, TaskRecords
<1>5. events' \in 0..MaxEvents
  BY ImportAssumption DEF Types, Fetch, Event
<1>6. UNCHANGED <<today, portal, active, imported, balanced, stored>>
  BY DEF Fetch
<1> HIDE DEF answered
<1> QED
  BY <1>3, <1>4, <1>5, <1>6, Kept DEF Types

LEMMA DoneTypes ==
    ASSUME Types, Flag \/ \E t \in Tasks : FetchFails(t)
    PROVE  Types'
<1>1. PICK t \in Tasks : Begin(t, Idle)
  BY DEF Flag, FetchFails, Tasks
<1>2. /\ task' \in [Tasks -> TaskRecords] /\ \A u \in Tasks : Sane(task'[u], today)
      /\ \A u \in Tasks \ {"action"} : task'[u].to < today
  BY <1>1, Begun, IdleIsSane DEF Types
<1>3. Done \subseteq Keys
  BY DEF Done, Types, Sane, TaskRecords, Tasks
<1>4. /\ imported' \subseteq Keys /\ balanced' \in BOOLEAN
      /\ UNCHANGED <<active, fetched, refused>>
  BY <1>3 DEF Types, Flag, FetchFails, entry
<1>5. events' \in 0..MaxEvents
  BY ImportAssumption DEF Types, Flag, FetchFails, Event
<1>6. UNCHANGED <<today, portal, stored>>
  BY DEF Flag, FetchFails
<1> QED
  BY <1>2, <1>4, <1>5, <1>6, Kept DEF Types

LEMMA InjectStepTypes == ASSUME Types, NEW t \in Tasks, Inject(t) PROVE Types'
<1> DEFINE record == [Idle EXCEPT !.at = "flag", !.keys = task[t].keys, !.all = task[t].all]
<1>1. Sane(Idle, today) /\ Idle.to < today /\ Sane(task[t], today)
  BY IdleIsSane DEF Types
<1>2. record \in TaskRecords
  BY <1>1 DEF Sane, TaskRecords, Stages
<1>3. /\ record.to = Idle.to /\ record.got = Idle.got /\ record.kind = Idle.kind
      /\ DOMAIN Idle.got = {} /\ DOMAIN Idle.kind = {}
  BY DEF Idle
<1> HIDE DEF record
<1>4. Sane(record, today) /\ record.to < today
  BY <1>1, <1>2, <1>3 DEF Sane
<1>5. Begin(t, IF t # "backfill" THEN Idle ELSE record)
  BY DEF Inject, record
<1>6. /\ task' \in [Tasks -> TaskRecords] /\ \A u \in Tasks : Sane(task'[u], today)
      /\ \A u \in Tasks \ {"action"} : task'[u].to < today
  BY <1>1, <1>4, <1>5, Begun
<1>7. UNCHANGED <<today, portal, entry, events>>
  BY DEF Inject
<1> QED
  BY <1>6, <1>7, InjectTypes DEF Types, portal, entry

LEMMA NextTypes == ASSUME Types, [Next]_vars PROVE Types'
<1>1. CASE \E d \in Days, S \in SUBSET Feeds : Publish(d, S)
  BY <1>1, PublishTypes
<1>2. CASE Midnight
  BY <1>2, MidnightTypes
<1>3. CASE BecomeProsumer
  BY <1>3 DEF BecomeProsumer, Types, entry
<1>4. CASE (\E k \in Keys : Enable(k)) \/ Stop({"refresh", "backfill"}) \/ Stop(Tasks)
  BY <1>4, CancelTypes
<1>5. CASE ImportAll \/ ImportMissing
  BY <1>5, BackfillTypes
<1>6. CASE Update
  BY <1>6, UpdateTypes
<1>7. CASE \E from \in Days : \E to \in {from, LastDay} : Action(from, to)
  <2>1. PICK from \in Days : \E to \in {from, LastDay} : Action(from, to)
    BY <1>7
  <2>2. PICK to \in {from, LastDay} : Action(from, to)
    BY <2>1
  <2>3. to \in 0..LastDay
    BY <2>2, ImportAssumption DEF Yesterday, Days, Types
  <2> QED
    BY <2>2, <2>3, ActionTypes
<1>8. CASE \E t \in Tasks : TaskStep(t)
  BY <1>8, FetchTypes, InjectStepTypes DEF TaskStep
<1>9. CASE Flag \/ \E t \in Tasks : FetchFails(t)
  BY <1>9, DoneTypes
<1>10. CASE UNCHANGED vars
  BY <1>10 DEF vars, portal, entry, Types
<1> QED
  BY <1>1, <1>2, <1>3, <1>4, <1>5, <1>6, <1>7, <1>8, <1>9, <1>10 DEF Next

THEOREM ImportTypes == Spec => []Types
BY InitTypes, NextTypes, PTL DEF Spec

LEMMA TypesAreTypeOK == ASSUME Types PROVE TypeOK
<1>1. \A t \in Tasks : /\ task[t].at \in {"idle", "fetch", "inject", "flag"}
                       /\ task[t].keys \subseteq Keys
                       /\ task[t].from \in Days /\ task[t].to \in 0..LastDay
                       /\ t # "action" => task[t].to < today
                       /\ DOMAIN task[t].got \subseteq task[t].keys
  BY DEF Types, Sane, TaskRecords, Stages
<1>2. stored \in [Keys -> [Days -> {"none", "raw", "balanced", "zero"}]]
  BY DEF Types, Marks
<1> QED
  BY <1>1, <1>2 DEF Types, TypeOK

(***************************************************************************)
(* Every variable holds a value of its kind, and what a refresh or a        *)
(* backfill asks for ends with yesterday, whatever the surroundings do.     *)
(* (enea.backfill may ask for a day that is not over, coordinator.py:1031.) *)
(***************************************************************************)
THEOREM ImportTyped == Spec => []TypeOK
BY ImportTypes, TypesAreTypeOK, PTL

-----------------------------------------------------------------------------
(* What is recorded as imported has been answered, or refused. *)

\* The backfill for everything is for what is switched on, and what it has
\* imported it has had an answer for, but for what was refused beside the rest.
Flags ==
    /\ imported \subseteq fetched \cup refused
    /\ Running("backfill") /\ task["backfill"].all => task["backfill"].keys = active
    /\ task["backfill"].at \in {"inject", "flag"} => task["backfill"].keys \subseteq fetched \cup refused

\* The backfill is as it was, and so is what counts as imported.
LEMMA FlagsKept ==
    ASSUME Flags, UNCHANGED <<active, imported>>, fetched \subseteq fetched', refused \subseteq refused',
           \/ task'["backfill"] = Idle
           \/ UNCHANGED task["backfill"]
           \/ /\ task'["backfill"].at = task["backfill"].at
              /\ task'["backfill"].all = task["backfill"].all
              /\ task'["backfill"].keys = task["backfill"].keys
    PROVE  Flags'
  BY DEF Flags, Running, Idle

LEMMA FlagsStep ==
    ASSUME Types, Flags, [Next]_vars
    PROVE  Flags'
<1> USE DEF Tasks
<1>1. task \in [Tasks -> TaskRecords]
  BY DEF Types
<1>2. CASE \/ \E d \in Days, S \in SUBSET Feeds : Publish(d, S)
           \/ BecomeProsumer \/ UNCHANGED vars
  BY <1>2, FlagsKept DEF Publish, BecomeProsumer, vars, entry
<1>3. CASE Midnight
  <2>1. task'["backfill"] = [task["backfill"] EXCEPT !.late = Running("backfill")]
    BY <1>3 DEF Midnight
  <2>2. /\ task'["backfill"].at = task["backfill"].at
        /\ task'["backfill"].all = task["backfill"].all
        /\ task'["backfill"].keys = task["backfill"].keys
    BY <1>1, <2>1 DEF TaskRecords
  <2> QED
    BY <1>3, <2>2, FlagsKept DEF Midnight, entry
<1>4. CASE (\E k \in Keys : Enable(k)) \/ Stop({"refresh", "backfill"}) \/ Stop(Tasks)
  <2>1. task'["backfill"] = Idle
    BY <1>4 DEF Enable, Stop, Cancel
  <2>2. UNCHANGED <<imported, fetched, refused>>
    BY <1>4 DEF Enable, Stop, entry
  <2> QED
    BY <2>1, <2>2 DEF Flags, Running, Idle
<1>5. CASE ImportAll \/ ImportMissing
  <2>1. /\ task'["backfill"].at = "fetch"
        /\ task'["backfill"].all => task'["backfill"].keys = active
    <3>1. CASE ImportAll
      <4>1. task'["backfill"] = History(active)
        BY <1>1, <3>1 DEF ImportAll, Begin
      <4> QED
        BY <4>1 DEF History, Idle
    <3>2. CASE ImportMissing
      <4>1. task'["backfill"] = [History(Missing) EXCEPT !.all = FALSE]
        BY <1>1, <3>2 DEF ImportMissing, Begin
      <4>2. task'["backfill"].at = "fetch" /\ task'["backfill"].all = FALSE
        BY <4>1 DEF History, Idle
      <4> QED
        BY <4>2
    <3> QED
      BY <1>5, <3>1, <3>2
  <2>2. UNCHANGED <<active, imported, fetched, refused>>
    BY <1>5 DEF ImportAll, ImportMissing, entry
  <2> QED
    BY <2>1, <2>2 DEF Flags
<1>6. CASE Update \/ \E from \in Days : \E to \in {from, LastDay} : Action(from, to)
  <2>1. UNCHANGED <<active, imported, fetched, refused, task["backfill"]>>
    BY <1>1, <1>6 DEF Update, Action, Begin, entry
  <2> QED
    BY <2>1, FlagsKept
<1>7. CASE \E t \in Tasks : \E failed \in SUBSET task[t].keys : Fetch(t, failed)
  <2>1. PICK t \in Tasks : \E failed \in SUBSET task[t].keys : Fetch(t, failed)
    BY <1>7
  <2> PICK failed : Fetch(t, failed)
    BY <2>1
  <2>2. CASE t # "backfill"
    BY <1>1, <2>1, <2>2, FlagsKept DEF Fetch, Begin
  <2>3. CASE t = "backfill"
    <3>1. task["backfill"].at = "fetch"
      BY <2>1, <2>3 DEF Fetch
    <3>2. /\ fetched' = fetched \cup (task["backfill"].keys \ failed)
          /\ refused' = refused \cup failed /\ UNCHANGED <<active, imported>>
      BY <2>1, <2>3, <3>1 DEF Fetch
    <3>3. /\ task'["backfill"].all = task["backfill"].all
          /\ task'["backfill"].keys = task["backfill"].keys
      BY <1>1, <2>1, <2>3 DEF Fetch, Begin, TaskRecords
    <3> QED
      BY <3>1, <3>2, <3>3 DEF Flags, Running
  <2> QED
    BY <2>2, <2>3
<1>8. CASE \E t \in Tasks : FetchFails(t)
  <2>1. task'["backfill"] = Idle \/ UNCHANGED task["backfill"]
    BY <1>1, <1>8 DEF FetchFails, Begin
  <2> QED
    BY <1>8, <2>1, FlagsKept DEF FetchFails, entry
<1>9. CASE \E t \in Tasks : Inject(t)
  <2>1. PICK t \in Tasks : Inject(t)
    BY <1>9
  <2>2. CASE t # "backfill"
    BY <1>1, <2>1, <2>2, FlagsKept DEF Inject, Begin, entry
  <2>3. CASE t = "backfill"
    <3>1. task'["backfill"] = [Idle EXCEPT !.at = "flag", !.keys = task["backfill"].keys,
                                           !.all = task["backfill"].all]
      BY <1>1, <2>1, <2>3 DEF Inject, Begin
    <3>2. /\ task'["backfill"].all = task["backfill"].all
          /\ task'["backfill"].keys = task["backfill"].keys
      BY <3>1 DEF Idle
    <3>3. task["backfill"].at = "inject" /\ UNCHANGED <<active, imported, fetched, refused>>
      BY <2>1, <2>3 DEF Inject, entry
    <3> QED
      BY <3>2, <3>3 DEF Flags, Running
  <2> QED
    BY <2>2, <2>3
<1>10. CASE Flag
  <2>1. task'["backfill"] = Idle /\ UNCHANGED <<active, fetched, refused>>
    BY <1>1, <1>10 DEF Flag, Begin
  <2>2. imported' \subseteq fetched \cup refused
    BY <1>10 DEF Flag, Flags, Done, Running
  <2> QED
    BY <2>1, <2>2 DEF Flags, Running, Idle
<1> QED
  BY <1>2, <1>3, <1>4, <1>5, <1>6, <1>7, <1>8, <1>9, <1>10 DEF Next, TaskStep

(***************************************************************************)
(* No statistic is recorded as imported whose history the portal was not    *)
(* asked for with success, but those whose own request was refused beside   *)
(* others that were answered: whatever is cancelled, restarted or enabled   *)
(* in between, with no condition on the surroundings.                       *)
(***************************************************************************)
THEOREM RecordedWasFetched == Spec => []RecordedIsFetched
<1>1. Init => Flags
  BY DEF Init, Flags, Running, Idle, Tasks
<1>2. Types /\ Flags /\ [Next]_vars => Flags'
  BY FlagsStep
<1>3. Flags => RecordedIsFetched
  BY DEF Flags, RecordedIsFetched
<1> QED
  BY <1>1, <1>2, <1>3, ImportTypes, PTL DEF Spec

-----------------------------------------------------------------------------
(* A day published in time is never stored as zero. *)

\* The date a task has last looked at the portal on, or an earlier one.
Age(record) == today - IF record.late THEN 1 ELSE 0

\* What the portal has: what is from yesterday is in time, and balanced data
\* follows.
InTime ==
    /\ \A f \in Feeds :
        /\ inTime[f] \subseteq published[f]
        /\ \A d \in published[f] : d >= today - 1 => d \in inTime[f]
    /\ \A k \in Energy :
        /\ published[<<k, "balanced">>] \subseteq published[<<k, "raw">>]
        /\ inTime[<<k, "balanced">>] \subseteq inTime[<<k, "raw">>]

Zeros ==
    \A k \in Keys, d \in Days :
        stored[k][d] = "zero" => d + 1 < today /\ d \notin inTime[Feed(k)]

\* The days of a task's range k has no data for, and that can be given up.
Lost(t, k) == {d \in (task[t].from..task[t].to) \ task[t].got[k] : d + 1 < Age(task[t])}

\* A day an answer lacks may still come in time if it was yesterday then.
Answers ==
    \A t \in Tasks : task[t].at = "inject" =>
        \A k \in DOMAIN task[t].got : \A d \in Lost(t, k) : d \notin inTime[Feed(k)]

LEMMA Numbers ==
    ASSUME Types
    PROVE  /\ today \in Int /\ \A d \in Days : d \in Int
           /\ \A t \in Tasks : task[t].from \in Int /\ task[t].to \in Int
           /\ \A t \in Tasks : DOMAIN task[t].got \subseteq Keys
<1>1. today \in Int /\ \A d \in Days : d \in Int
  BY DEF Types, Days
<1>2. \A t \in Tasks : Sane(task[t], today)
  BY DEF Types
<1> QED
  BY <1>1, <1>2, ImportAssumption DEF Sane, TaskRecords

LEMMA AgeIs ==
    ASSUME Types, NEW t \in Tasks
    PROVE  Age(task[t]) \in Int /\ Age(task[t]) <= today /\ today - 1 <= Age(task[t])
<1>1. today \in Int
  BY Numbers
<1>2. CASE task[t].late
  BY <1>1, <1>2 DEF Age
<1>3. CASE ~task[t].late
  BY <1>1, <1>3 DEF Age
<1> QED
  BY <1>2, <1>3

LEMMA LostIs ==
    ASSUME Types, NEW t \in Tasks, NEW k, NEW d \in Lost(t, k)
    PROVE  d \in Int /\ d + 1 < today
<1>1. PICK age \in Int : age = Age(task[t]) /\ age <= today
  BY AgeIs
<1>2. d \in task[t].from..task[t].to /\ d + 1 < age
  BY <1>1 DEF Lost
<1>3. PICK from \in Int, to \in Int : from = task[t].from /\ to = task[t].to
  BY Numbers
<1>4. today \in Int
  BY Numbers
<1> QED
  BY <1>1, <1>2, <1>3, <1>4

\* The feed of a key, and where it is read from once the meter is a prosumer's.
LEMMA FeedIs ==
    ASSUME NEW k \in Keys
    PROVE  /\ Feed(k) \in Feeds /\ Feed(k) \in {<<k, "raw">>, <<k, "balanced">>}
           /\ k \notin Energy => Feed(k) = <<k, "raw">>
           /\ ~prosumer => Feed(k) = <<k, "raw">>
           /\ k \in Energy /\ prosumer => Feed(k) = <<k, "balanced">>
  BY DEF Feed, Feeds

LEMMA PublishInTime ==
    ASSUME Types, InTime, NEW d \in Days, NEW S \in SUBSET Feeds, Publish(d, S),
           "out of order" \notin Troubles
    PROVE  InTime'
<1>1. /\ Orderly(d, S)
      /\ published' = [f \in Feeds |-> IF f \in S THEN published[f] \cup {d} ELSE published[f]]
      /\ inTime' = [f \in Feeds |-> IF f \in S /\ d >= today - 1
                                    THEN inTime[f] \cup {d} ELSE inTime[f]]
      /\ today' = today
  BY DEF Publish
<1>2. \A f \in Feeds :
        /\ inTime'[f] \subseteq published'[f]
        /\ \A e \in published'[f] : e >= today - 1 => e \in inTime'[f]
  BY <1>1 DEF InTime
<1>3. \A k \in Energy : <<k, "raw">> \in Feeds /\ <<k, "balanced">> \in Feeds /\ k \in Keys
  BY ImportAssumption DEF Feeds
<1>4. \A k \in Keys : <<k, "raw">> \in S \/ d \in published[<<k, "raw">>]
  BY <1>1 DEF Orderly
<1>5. \A k \in Energy : published'[<<k, "balanced">>] \subseteq published'[<<k, "raw">>]
  BY <1>1, <1>3, <1>4 DEF InTime
<1>6. \A k \in Energy : inTime'[<<k, "balanced">>] \subseteq inTime'[<<k, "raw">>]
  BY <1>1, <1>3, <1>4 DEF InTime
<1> QED
  BY <1>1, <1>2, <1>5, <1>6 DEF InTime

\* Nothing that is a day old becomes in time.
LEMMA PublishAges ==
    ASSUME Types, NEW d \in Days, NEW S \in SUBSET Feeds, Publish(d, S)
    PROVE  \A f \in Feeds : \A e \in Int : e + 1 < today => (e \in inTime'[f] <=> e \in inTime[f])
<1>1. inTime' = [f \in Feeds |-> IF f \in S /\ d >= today - 1
                                 THEN inTime[f] \cup {d} ELSE inTime[f]]
  BY DEF Publish
<1>2. today \in Int
  BY DEF Types
<1> QED
  BY <1>1, <1>2

LEMMA ZeroPublish ==
    ASSUME Types, InTime, Zeros, Answers, NEW d \in Days, NEW S \in SUBSET Feeds, Publish(d, S),
           "out of order" \notin Troubles
    PROVE  (InTime /\ Zeros /\ Answers)'
<1>1. UNCHANGED <<today, prosumer, stored, task>>
  BY DEF Publish
<1>2. \A k \in Keys : Feed(k) \in Feeds /\ Feed(k)' = Feed(k)
  BY <1>1, FeedIs DEF Feed
<1>3. \A f \in Feeds : \A e \in Int : e + 1 < today => (e \in inTime'[f] <=> e \in inTime[f])
  BY PublishAges
<1>4. Zeros'
  <2>1. \A k \in Keys, e \in Days :
            e + 1 < today => (e \in inTime'[Feed(k)] <=> e \in inTime[Feed(k)])
    BY <1>2, <1>3, Numbers
  <2> QED
    BY <1>1, <1>2, <2>1 DEF Zeros
<1>5. \A t \in Tasks : \A k : Lost(t, k)' = Lost(t, k)
  BY <1>1 DEF Age, Lost
<1>6. \A t \in Tasks, k \in Keys : \A e \in Lost(t, k) : e \in Int /\ e + 1 < today
  BY LostIs
<1>7. \A t \in Tasks, k \in Keys : \A e \in Lost(t, k) :
          e \in inTime'[Feed(k)] <=> e \in inTime[Feed(k)]
  BY <1>2, <1>3, <1>6
<1>8. Answers'
  <2> SUFFICES ASSUME NEW t \in Tasks, task[t].at = "inject", NEW k \in DOMAIN task[t].got,
                      NEW e \in Lost(t, k)
               PROVE  e \notin inTime'[Feed(k)]
    BY <1>1, <1>2, <1>5, Numbers DEF Answers
  <2> QED
    BY <1>7, Numbers DEF Answers
<1> QED
  BY <1>4, <1>8, PublishInTime

LEMMA ZeroMidnight ==
    ASSUME Types, InTime, Zeros, Answers, Midnight
    PROVE  (InTime /\ Zeros /\ Answers)'
<1>1. today' = today + 1 /\ today \in Int /\ UNCHANGED <<published, inTime, prosumer, stored>>
  BY Numbers DEF Midnight, portal
<1>2. \A f \in Feeds : published[f] \subseteq Int
  BY DEF Types, Days
<1>3. InTime'
  BY <1>1, <1>2 DEF InTime
<1>4. \A k \in Keys : Feed(k)' = Feed(k)
  BY <1>1 DEF Feed
<1>5. Zeros'
  BY <1>1, <1>4 DEF Zeros, Days
<1>6. \A t \in Tasks : task'[t].at = "inject" =>
        /\ task[t].at = "inject" /\ task'[t].got = task[t].got
        /\ \A k : Lost(t, k)' = Lost(t, k)
  <2> SUFFICES ASSUME NEW t \in Tasks, task'[t].at = "inject"
               PROVE  /\ task[t].at = "inject" /\ task'[t].got = task[t].got
                      /\ \A k : Lost(t, k)' = Lost(t, k)
    OBVIOUS
  <2>1. task[t] \in TaskRecords /\ ~task[t].late
    BY DEF Types, Midnight
  <2>2. task'[t] = [task[t] EXCEPT !.late = Running(t)]
    BY DEF Midnight
  <2>3. /\ task'[t].at = task[t].at /\ task'[t].got = task[t].got
        /\ task'[t].from = task[t].from /\ task'[t].to = task[t].to
        /\ task'[t].late = Running(t)
    BY <2>1, <2>2 DEF TaskRecords
  <2>4. Running(t)
    BY <2>3 DEF Running
  <2>5. Age(task[t])' = Age(task[t])
    BY <1>1, <2>1, <2>3, <2>4 DEF Age
  <2> QED
    BY <2>3, <2>5 DEF Lost
<1>7. \A t \in Tasks : \A k \in DOMAIN task[t].got : k \in Keys
  BY DEF Types, Sane, TaskRecords
<1>8. Answers'
  BY <1>1, <1>4, <1>6, <1>7 DEF Answers
<1> QED
  BY <1>3, <1>5, <1>8

LEMMA ZeroProsumer ==
    ASSUME Types, InTime, Zeros, Answers, BecomeProsumer
    PROVE  (InTime /\ Zeros /\ Answers)'
<1>1. /\ ~prosumer /\ prosumer' = TRUE
      /\ UNCHANGED <<today, published, inTime, stored, task>>
  BY DEF BecomeProsumer
<1>2. \A k \in Keys : inTime[Feed(k)'] \subseteq inTime[Feed(k)]
  BY <1>1 DEF Feed, InTime
<1>3. \A t \in Tasks : \A k : Lost(t, k)' = Lost(t, k)
  BY <1>1 DEF Lost, Age
<1>4. \A t \in Tasks : \A k \in DOMAIN task[t].got : k \in Keys
  BY DEF Types, Sane, TaskRecords
<1>5. InTime'
  BY <1>1 DEF InTime
<1>6. Zeros'
  BY <1>1, <1>2 DEF Zeros
<1>7. Answers'
  BY <1>1, <1>2, <1>3, <1>4 DEF Answers
<1> QED
  BY <1>5, <1>6, <1>7

\* A step that only takes tasks from the stage of their answers.
LEMMA ZeroKept ==
    ASSUME InTime, Zeros, Answers, UNCHANGED <<today, portal, stored>>,
           \A t \in Tasks : task'[t].at = "inject" => task'[t] = task[t]
    PROVE  (InTime /\ Zeros /\ Answers)'
<1>1. \A t \in Tasks : task'[t].at = "inject" => \A k : Lost(t, k)' = Lost(t, k)
  BY DEF Lost, Age
<1>2. \A k : Feed(k)' = Feed(k)
  BY DEF Feed, portal
<1> QED
  BY <1>1, <1>2 DEF InTime, Zeros, Answers, portal

LEMMA ZeroFetch ==
    ASSUME Types, InTime, Zeros, Answers, NEW t \in Tasks, NEW failed, Fetch(t, failed)
    PROVE  (InTime /\ Zeros /\ Answers)'
<1> DEFINE answered == task[t].keys \ failed
<1>1. UNCHANGED <<today, portal, stored>> /\ \A u \in Tasks \ {t} : task'[u] = task[u]
  BY DEF Fetch, Begin, Types
<1>2. task[t] \in TaskRecords
  BY DEF Types
<1>3. /\ task'[t].got = [k \in answered |->
                            published[Feed(k)] \cap (task[t].from..task[t].to)]
      /\ task'[t].from = task[t].from /\ task'[t].to = task[t].to
  BY <1>2 DEF Fetch, Begin, Types, TaskRecords
<1>4. answered \subseteq Keys
  BY <1>2 DEF TaskRecords
<1>5. \A k : Feed(k)' = Feed(k)
  BY <1>1 DEF Feed, portal
<1>6. \A k \in DOMAIN task'[t].got : \A d \in Lost(t, k)' : d \notin inTime'[Feed(k)']
  <2> SUFFICES ASSUME NEW k \in answered, NEW d \in Lost(t, k)'
               PROVE  d \notin inTime[Feed(k)]
    BY <1>1, <1>3, <1>5 DEF portal
  <2>1. d \in task[t].from..task[t].to /\ d \notin published[Feed(k)]
    BY <1>3 DEF Lost
  <2> QED
    BY <1>4, <2>1, FeedIs DEF InTime
<1>7. \A u \in Tasks \ {t} : /\ task'[u] = task[u] /\ \A k : Lost(u, k)' = Lost(u, k)
  BY <1>1 DEF Lost, Age
<1>8. Answers'
  BY <1>1, <1>5, <1>6, <1>7 DEF Answers, portal
<1> QED
  BY <1>1, <1>5, <1>8 DEF InTime, Zeros, portal

LEMMA ZeroInject ==
    ASSUME Types, InTime, Zeros, Answers, NEW t \in Tasks, Inject(t), Grace >= 3
    PROVE  (InTime /\ Zeros /\ Answers)'
<1>1. /\ task[t].at = "inject" /\ UNCHANGED <<today, portal>>
      /\ task'[t].at # "inject" /\ \A u \in Tasks \ {t} : task'[u] = task[u]
  <2>1. task[t].at = "inject" /\ UNCHANGED <<today, portal>>
    BY DEF Inject
  <2>2. /\ task'[t] = IF t # "backfill" THEN Idle
                      ELSE [Idle EXCEPT !.at = "flag", !.keys = task[t].keys,
                                        !.all = task[t].all]
        /\ \A u \in Tasks \ {t} : task'[u] = task[u]
    BY DEF Inject, Begin, Types
  <2>3. task'[t].at \in {"idle", "flag"}
    BY <2>2 DEF Idle
  <2> QED
    BY <2>1, <2>2, <2>3
<1>2. \A k : Feed(k)' = Feed(k)
  BY <1>1 DEF Feed, portal
<1>3. \A k \in Keys, d \in Days : stored'[k][d] = "zero" =>
          \/ stored[k][d] = "zero"
          \/ /\ k \in DOMAIN task[t].got /\ d \notin task[t].got[k] /\ d \in ZeroFilled(t)
  <2>1. /\ task[t].kind \in UNION {[S -> {"raw", "balanced"}] : S \in SUBSET Keys}
        /\ DOMAIN task[t].kind = DOMAIN task[t].got
    BY DEF Types, Sane, TaskRecords
  <2>2. \A k \in DOMAIN task[t].got : task[t].kind[k] # "zero"
    BY <2>1
  <2> QED
    BY <2>2, InjectTypes
<1>4. \A k \in DOMAIN task[t].got, d \in ZeroFilled(t) :
          d \notin task[t].got[k] => d + 1 < today /\ d \in Lost(t, k)
  <2> SUFFICES ASSUME NEW k \in DOMAIN task[t].got, NEW d \in ZeroFilled(t),
                      d \notin task[t].got[k]
               PROVE  d + 1 < today /\ d \in Lost(t, k)
    OBVIOUS
  <2>1. d \in task[t].from..task[t].to /\ today - d >= Grace
    BY DEF ZeroFilled, Stale
  <2>2. today \in Int /\ task[t].from \in Int /\ task[t].to \in Int
    BY DEF Types, Sane, TaskRecords, Days
  <2>3. d \in Int /\ d + 1 < today - 1
    BY <2>1, <2>2, ImportAssumption
  <2>4. d + 1 < Age(task[t])
    BY <2>2, <2>3 DEF Age
  <2> QED
    BY <2>1, <2>2, <2>3, <2>4 DEF Lost
<1>5. Zeros'
  BY <1>1, <1>2, <1>3, <1>4 DEF Zeros, Answers, portal
<1>6. \A u \in Tasks \ {t} : /\ task'[u] = task[u] /\ \A k : Lost(u, k)' = Lost(u, k)
  BY <1>1 DEF Lost, Age
<1>7. Answers'
  BY <1>1, <1>2, <1>6 DEF Answers, portal
<1> QED
  BY <1>1, <1>5, <1>7 DEF InTime, portal

\* A task that begins has yet to ask the portal.
LEMMA Asks ==
    ASSUME \/ ImportAll \/ ImportMissing \/ Update
           \/ \E from \in Days : \E to \in {from, LastDay} : Action(from, to)
    PROVE  \E t \in Tasks : \E fields : Begin(t, fields) /\ fields.at # "inject"
<1>1. \A keys : /\ History(keys).at = "fetch"
                /\ [History(keys) EXCEPT !.all = FALSE].at = "fetch"
  <2> TAKE keys
  <2>1. History(keys).at = "fetch" /\ "all" # "at"
    BY DEF History, Idle
  <2>2. [History(keys) EXCEPT !.all = FALSE].at = History(keys).at
    BY DEF History, Idle
  <2> QED
    BY <2>1, <2>2
<1>2. CASE ImportAll
  BY <1>1, <1>2 DEF ImportAll, Tasks
<1>3. CASE ImportMissing
  <2>1. Begin("backfill", [History(Missing) EXCEPT !.all = FALSE])
    BY <1>3 DEF ImportMissing
  <2>2. [History(Missing) EXCEPT !.all = FALSE].at # "inject" /\ "backfill" \in Tasks
    BY <1>1 DEF Tasks
  <2> QED
    BY <2>1, <2>2
<1>4. CASE Update
  <2>1. \A from, to : [Idle EXCEPT !.at = "fetch", !.keys = active, !.from = from,
                                   !.to = to, !.fill = TRUE].at # "inject"
    BY DEF Idle
  <2> QED
    BY <1>4, <2>1 DEF Update, Tasks
<1>5. CASE \E from \in Days : \E to \in {from, LastDay} : Action(from, to)
  <2>1. \A from, to : [Idle EXCEPT !.at = "fetch", !.keys = active, !.from = from,
                                   !.to = to, !.fill = TRUE].at # "inject"
    BY DEF Idle
  <2> QED
    BY <1>5, <2>1 DEF Action, Tasks
<1> QED
  BY <1>2, <1>3, <1>4, <1>5

LEMMA ZeroStep ==
    ASSUME Types, InTime, Zeros, Answers, Grace >= 3, "out of order" \notin Troubles,
           [Next]_vars
    PROVE  (InTime /\ Zeros /\ Answers)'
<1>1. CASE \E d \in Days, S \in SUBSET Feeds : Publish(d, S)
  BY <1>1, ZeroPublish
<1>2. CASE Midnight
  BY <1>2, ZeroMidnight
<1>3. CASE BecomeProsumer
  BY <1>3, ZeroProsumer
<1>4. CASE (\E k \in Keys : Enable(k)) \/ Stop({"refresh", "backfill"}) \/ Stop(Tasks)
  <2>1. \A t \in Tasks : task'[t] \in {task[t], Idle} /\ Idle.at # "inject"
    BY <1>4 DEF Enable, Stop, Cancel, Idle
  <2>2. UNCHANGED <<today, portal, stored>>
    BY <1>4 DEF Enable, Stop
  <2> QED
    BY <2>1, <2>2, ZeroKept
<1>5. CASE \/ ImportAll \/ ImportMissing \/ Update
           \/ \E from \in Days : \E to \in {from, LastDay} : Action(from, to)
  <2>1. \E t \in Tasks : \E fields : Begin(t, fields) /\ fields.at # "inject"
    BY <1>5, Asks
  <2>2. PICK t \in Tasks : \E fields : Begin(t, fields) /\ fields.at # "inject"
    BY <2>1
  <2>3. PICK fields : Begin(t, fields) /\ fields.at # "inject"
    BY <2>2
  <2>4. \A u \in Tasks : task'[u] = IF u = t THEN fields ELSE task[u]
    BY <2>3 DEF Begin, Types
  <2>5. UNCHANGED <<today, portal, stored>>
    BY <1>5 DEF ImportAll, ImportMissing, Update, Action
  <2> QED
    BY <2>3, <2>4, <2>5, ZeroKept
<1>6. CASE \E t \in Tasks : TaskStep(t)
  BY <1>6, ZeroFetch, ZeroInject DEF TaskStep
<1>7. CASE Flag \/ \E t \in Tasks : FetchFails(t)
  <2>1. \A t \in Tasks : task'[t] \in {task[t], Idle} /\ Idle.at # "inject"
    BY <1>7 DEF Flag, FetchFails, Begin, Types, Idle
  <2>2. UNCHANGED <<today, portal, stored>>
    BY <1>7 DEF Flag, FetchFails
  <2> QED
    BY <2>1, <2>2, ZeroKept
<1>8. CASE UNCHANGED vars
  BY <1>8, ZeroKept DEF vars
<1> QED
  BY <1>1, <1>2, <1>3, <1>4, <1>5, <1>6, <1>7, <1>8 DEF Next

LEMMA ZeroInit == ASSUME Init PROVE InTime /\ Zeros /\ Answers
<1>1. \A f \in Feeds : published[f] = {} /\ inTime[f] = {}
  BY DEF Init
<1>2. \A k \in Energy : <<k, "raw">> \in Feeds /\ <<k, "balanced">> \in Feeds
  BY ImportAssumption DEF Feeds
<1>3. InTime
  BY <1>1, <1>2 DEF InTime
<1>4. Zeros
  BY DEF Zeros, Init
<1>5. Answers
  BY DEF Answers, Init, Idle
<1> QED
  BY <1>3, <1>4, <1>5

(***************************************************************************)
(* If the portal publishes the days in order, and with a grace period of at *)
(* least three days (MISSING_DAY_GRACE_DAYS is three), a day published by   *)
(* the day after is never stored as zero consumption: whatever the tasks    *)
(* do, and though a fetch crosses midnight or the meter becomes a           *)
(* prosumer's while its answers are on their way.                           *)
(***************************************************************************)
THEOREM NoZeroForData ==
    ASSUME Grace >= 3, "out of order" \notin Troubles
    PROVE  Spec => []NoFalseZero
<1> DEFINE Inv == InTime /\ Zeros /\ Answers
<1>1. Init => Inv
  BY ZeroInit
<1>2. Types /\ Inv /\ [Next]_vars => Inv'
  BY ZeroStep
<1>3. Types /\ Inv => NoFalseZero
  <2> SUFFICES ASSUME Types, Inv, NEW k \in active, NEW d \in inTime[Feed(k)],
                      stored[k][d] = "zero"
               PROVE  FALSE
    BY DEF NoFalseZero
  <2>1. k \in Keys /\ inTime[Feed(k)] \subseteq Days
    BY FeedIs DEF Types
  <2> QED
    BY <2>1 DEF Zeros
<1> HIDE DEF Inv
<1> QED
  BY <1>1, <1>2, <1>3, ImportTypes, PTL DEF Spec

-----------------------------------------------------------------------------
(* No day is left out. *)

\* What the tasks look at, said of the days held.
Seen ==
    /\ Leaders # {} /\ Leaders \subseteq active /\ Missing \subseteq active
    /\ \A k \in active : k \in Missing <=> Held(k) = {} /\ k \notin imported
    /\ NewestDay # 0 <=> \E b \in Leaders : Held(b) # {}

LEMMA SeenIs == Types => Seen
<1> SUFFICES ASSUME Types PROVE Seen
  OBVIOUS
<1>1. Leaders # {} /\ Leaders \subseteq active /\ Missing \subseteq active
  BY DEF Types, Leaders, BalancedKeys, Missing
<1>2. \A k \in active : k \in Missing <=> Held(k) = {} /\ k \notin imported
  BY LatestIs DEF Missing, Types
<1>3. NewestDay # 0 <=> \E b \in Leaders : Held(b) # {}
  BY <1>1, NewestIs
<1> QED
  BY <1>1, <1>2, <1>3 DEF Seen

LEMMA SeenNext == Types' => Seen'
BY SeenIs, PTL

\* The feeds are published day by day and together, but balanced data may
\* come later, and does come before its day is taken to be missing.
Portal ==
    /\ \A f \in Feeds : \A d \in published[f] : 1..d \subseteq published[f]
    /\ \A f, g \in Feeds : Kind(f) = Kind(g) => published[f] = published[g]
    /\ \A k \in Energy : published[<<k, "balanced">>] \subseteq published[<<k, "raw">>]
    /\ BalancedFollows(today, published)

\* The history of a statistic starts on the first day and has no gap.
Whole ==
    /\ \A k \in Keys : \A d \in Held(k) : 1..d \subseteq Held(k)
    /\ \A k \in Keys \ active : Held(k) = {} /\ k \notin imported

\* A statistic has all there is for it, and the days to be given up.
Caught(k) ==
    /\ published[Feed(k)] \subseteq Held(k)
    /\ \A d \in 1..Yesterday : Stale(d) => d \in Held(k)

Rooted == \E b \in Leaders : Held(b) # {}

\* Whatever the newest day of the leaders is, the others have it too, or are
\* without any day and can be given what the leaders have.
Level ==
    /\ \A k \in active \ Missing, b \in Leaders : Held(b) \subseteq Held(k)
    /\ \A k \in Missing, b \in Leaders : Held(b) \subseteq published[Feed(k)]
    /\ Missing # {} /\ Rooted => \A k \in active \ Missing : Caught(k)

Importing(record) == record.at \in {"fetch", "inject"}

\* The answers agree but for balanced data that may still come.
Answered(record) ==
    /\ DOMAIN record.got = record.keys
    /\ \A k \in record.keys :
        /\ record.got[k] \subseteq published[Feed(k)]
        /\ \A d \in record.got[k] : record.from..d \subseteq record.got[k]
    /\ \A j, k \in record.keys : \A e \in record.got[j] \ record.got[k] :
          Age(record) - e < Grace
    /\ \A b \in Leaders \cap record.keys, k \in record.keys :
          record.got[b] \subseteq record.got[k]

\* A task starts where its statistics end, and leaves out those only that
\* have it all.
Sound(record) ==
    /\ record.at # "idle" => /\ Missing \subseteq record.keys /\ record.keys \subseteq active
                             /\ record.all => record.keys = active
    /\ Importing(record) => /\ \A k \in record.keys : 1..record.from - 1 \subseteq Held(k)
                            /\ \A k \in active \ record.keys : Caught(k)
    /\ record.at = "fetch" =>
          \A k \in Missing, b \in Leaders : Held(b) \subseteq record.from..record.to
    /\ record.at = "inject" =>
          Answered(record) /\ \A k \in Missing, b \in Leaders : Held(b) \subseteq record.got[k]
    /\ record.at = "flag" =>
          \A k \in record.keys, b \in Leaders : Held(b) \subseteq Held(k)

Tasked ==
    /\ task["refresh"].at # "idle" => task["refresh"].keys = active
    /\ \A t \in Tasks : Sound(task[t])

Gapless == Portal /\ Whole /\ Level /\ Tasked

LEMMA IdleIsSound == ASSUME NEW record, record.at = "idle" PROVE Sound(record)
BY DEF Sound, Importing

\* Where the statistics are read from tells how far they may be apart.
LEMMA FeedsAgree ==
    ASSUME Portal, NEW j \in Keys, NEW k \in Keys
    PROVE  /\ \A e \in published[Feed(j)] \ published[Feed(k)] : today - e < Grace
           /\ Feed(j) = <<j, "balanced">> \/ Feed(k) = <<k, "raw">> =>
                 published[Feed(j)] \subseteq published[Feed(k)]
<1>1. \A i \in Keys : <<i, "raw">> \in Feeds /\ Kind(<<i, "raw">>) = "raw"
  BY DEF Feeds, Kind
<1>2. \A i \in Energy : <<i, "balanced">> \in Feeds /\ Kind(<<i, "balanced">>) = "balanced"
  BY DEF Feeds, Kind
<1>3. published[<<j, "raw">>] = published[<<k, "raw">>]
  BY <1>1 DEF Portal
<1>4. \A i \in Keys : /\ Feed(i) \in {<<i, "raw">>, <<i, "balanced">>}
                      /\ Feed(i) = <<i, "balanced">> => i \in Energy
  BY DEF Feed
<1>5. j \in Energy /\ k \in Energy =>
          published[<<j, "balanced">>] = published[<<k, "balanced">>]
  BY <1>2 DEF Portal
<1>6. \A i \in Energy :
          /\ published[<<i, "balanced">>] \subseteq published[<<i, "raw">>]
          /\ \A e \in published[<<i, "raw">>] \ published[<<i, "balanced">>] : today - e < Grace
  BY DEF Portal, BalancedFollows
<1> QED
  BY <1>3, <1>4, <1>5, <1>6

LEMMA LeadersFollow ==
    Types /\ Portal =>
        \A b \in Leaders, k \in active : published[Feed(b)] \subseteq published[Feed(k)]
<1> SUFFICES ASSUME Types, Portal, NEW b \in Leaders, NEW k \in active
             PROVE  published[Feed(b)] \subseteq published[Feed(k)]
  OBVIOUS
<1>1. b \in Keys /\ k \in Keys
  BY DEF Leaders, BalancedKeys, Types
<1>2. Feed(b) = <<b, "balanced">> \/ Feed(k) = <<k, "raw">>
  BY DEF Leaders, BalancedKeys, Feed
<1> QED
  BY <1>1, <1>2, FeedsAgree

LEMMA LeadersFollowNext ==
    Types' /\ Portal' =>
        (\A b \in Leaders, k \in active : published[Feed(b)] \subseteq published[Feed(k)])'
BY LeadersFollow, PTL

LEMMA SameView ==
    ASSUME UNCHANGED <<active, stored, imported, prosumer>>
    PROVE  /\ Missing' = Missing /\ Leaders' = Leaders
           /\ \A k : Held(k)' = Held(k) /\ Feed(k)' = Feed(k)
<1>1. \A k : Held(k)' = Held(k) /\ Feed(k)' = Feed(k)
  BY DEF Held, Feed
<1>2. Leaders' = Leaders
  BY DEF Leaders, BalancedKeys
<1>3. \A k : Latest(k)' = Latest(k)
  BY <1>1 DEF Latest
<1> QED
  BY <1>1, <1>2, <1>3 DEF Missing

\* A step that only moves tasks on.
LEMMA Quiet ==
    ASSUME Gapless, UNCHANGED <<today, published, active, stored, imported, prosumer>>,
           task'["refresh"].at # "idle" => task'["refresh"].keys = active,
           \A t \in Tasks : Sound(task'[t])
    PROVE  Gapless'
<1>1. /\ Missing' = Missing /\ Leaders' = Leaders
      /\ \A k : Held(k)' = Held(k) /\ Feed(k)' = Feed(k)
  BY SameView
<1>2. \A k : Caught(k)' <=> Caught(k)
  BY <1>1 DEF Caught, Yesterday, Stale
<1>3. Portal' /\ Whole'
  BY <1>1 DEF Gapless, Portal, Whole, BalancedFollows
<1>4. Rooted' <=> Rooted
  BY <1>1 DEF Rooted
<1>5. Level'
  BY <1>1, <1>2, <1>4 DEF Gapless, Level
<1>6. \A t \in Tasks : Sound(task[t])'
  <2> SUFFICES ASSUME NEW t \in Tasks PROVE Sound(task[t])'
    OBVIOUS
  <2>1. Sound(task'[t])
    OBVIOUS
  <2>2. Age(task[t])' = Age(task'[t])
    BY DEF Age
  <2>3. task'[t].at = "inject" => Answered(task[t])'
    BY <1>1, <2>1, <2>2 DEF Sound, Answered
  <2> QED
    BY <1>1, <1>2, <2>1, <2>3 DEF Sound, Importing
<1> QED
  BY <1>3, <1>5, <1>6 DEF Gapless, Tasked

\* Time passes and days are published, while no measurement is being enabled.
LEMMA Weather ==
    ASSUME Types, Types', Gapless, Portal', ~Enabling,
           UNCHANGED <<active, stored, imported, prosumer>>,
           \A f \in Feeds : published[f] \subseteq published'[f],
           \A t \in Tasks :
               /\ task'[t].at = task[t].at /\ task'[t].keys = task[t].keys
               /\ task'[t].all = task[t].all /\ task'[t].from = task[t].from
               /\ task'[t].to = task[t].to /\ task'[t].got = task[t].got
               /\ task[t].at = "inject" => Age(task[t])' = Age(task[t])
    PROVE  Gapless'
<1>1. /\ Missing' = Missing /\ Leaders' = Leaders
      /\ \A k : Held(k)' = Held(k) /\ Feed(k)' = Feed(k)
  BY SameView
<1>2. Seen
  BY SeenIs
<1>3. active \subseteq Keys /\ Missing \subseteq Keys
  BY <1>2 DEF Seen, Types
<1>4. \A k \in Keys : published[Feed(k)] \subseteq published'[Feed(k)]
  BY FeedIs
<1>5. Missing = {} \/ ~Rooted
  BY <1>2 DEF Enabling, Seen, Rooted
<1>6. Whole'
  BY <1>1 DEF Gapless, Whole
<1>7. Level'
  BY <1>1, <1>3, <1>4, <1>5 DEF Gapless, Level, Rooted
<1>8. \A t \in Tasks : Importing(task[t]) => active \ task[t].keys = {}
  BY DEF Enabling, Importing, Gapless, Tasked, Tasks
<1>9. \A t \in Tasks : Sound(task[t])'
  <2> SUFFICES ASSUME NEW t \in Tasks PROVE Sound(task[t])'
    OBVIOUS
  <2>1. Sound(task[t])
    BY DEF Gapless, Tasked
  <2>2. task[t].keys \subseteq Keys
    BY DEF Types, Sane, TaskRecords
  <2>3. task'[t].at = "inject" => Answered(task[t])'
    <3> SUFFICES ASSUME task[t].at = "inject" PROVE Answered(task[t])'
      OBVIOUS
    <3>1. Answered(task[t]) /\ Age(task[t])' = Age(task[t])
      BY <2>1 DEF Sound
    <3>2. \A k \in task[t].keys : task[t].got[k] \subseteq published'[Feed(k)]
      BY <1>4, <2>2, <3>1 DEF Answered
    <3> QED
      BY <1>1, <3>1, <3>2 DEF Answered
  <2> QED
    BY <1>1, <1>8, <2>1, <2>3 DEF Sound, Importing
<1> QED
  BY <1>6, <1>7, <1>9 DEF Gapless, Tasked, Tasks

\* What has followed by tomorrow has followed today.
LEMMA FollowsLater ==
    ASSUME NEW now \in Int, NEW days, BalancedFollows(now + 1, days),
           \A k \in Energy : \A d \in days[<<k, "raw">>] : d \in Int
    PROVE  BalancedFollows(now, days)
<1> SUFFICES ASSUME NEW k \in Energy, NEW d \in days[<<k, "raw">>] \ days[<<k, "balanced">>]
             PROVE  now - d < Grace
  BY DEF BalancedFollows
<1>1. now + 1 - d < Grace
  BY DEF BalancedFollows
<1>2. d \in Int /\ Grace \in Int
  BY ImportAssumption
<1> QED
  BY <1>1, <1>2

LEMMA PortalPublish ==
    ASSUME Types, Portal, NEW d \in Days, NEW S \in SUBSET Feeds, Publish(d, S),
           Troubles \subseteq {"lag"}
    PROVE  Portal'
<1>1. /\ Orderly(d, S) /\ BalancedFollows(today + 1, published') /\ today' = today
      /\ \A f \in Feeds : published'[f] = IF f \in S THEN published[f] \cup {d} ELSE published[f]
      /\ \A f \in S : d \notin published[f]
  BY DEF Publish
<1>2. \A f \in S : published[f] = 1..d - 1
  BY <1>1 DEF Orderly
<1>3. \A f, g \in Feeds : Kind(f) = Kind(g) => (f \in S <=> g \in S)
  BY <1>1 DEF Orderly
<1>4. \A k \in Keys : <<k, "raw">> \in S \/ d \in published[<<k, "raw">>]
  BY <1>1 DEF Orderly
<1>5. d \in Int /\ \A f \in Feeds : \A e \in published[f] : e \in Int
  BY DEF Types, Days
<1>6. \A f \in Feeds : \A e \in published'[f] : 1..e \subseteq published'[f]
  <2> SUFFICES ASSUME NEW f \in Feeds, NEW e \in published'[f]
               PROVE  1..e \subseteq published'[f]
    OBVIOUS
  <2>1. CASE e \in published[f]
    BY <1>1, <2>1 DEF Portal
  <2>2. CASE e = d /\ f \in S
    <3>1. published'[f] = (1..d - 1) \cup {d}
      BY <1>1, <1>2, <2>2
    <3> QED
      BY <1>5, <2>2, <3>1
  <2> QED
    BY <1>1, <2>1, <2>2
<1>7. \A f, g \in Feeds : Kind(f) = Kind(g) => published'[f] = published'[g]
  BY <1>1, <1>3 DEF Portal
<1>8. \A k \in Energy : <<k, "raw">> \in Feeds /\ <<k, "balanced">> \in Feeds /\ k \in Keys
  BY ImportAssumption DEF Feeds
<1>9. \A k \in Energy : published'[<<k, "balanced">>] \subseteq published'[<<k, "raw">>]
  <2> SUFFICES ASSUME NEW k \in Energy, NEW e \in published'[<<k, "balanced">>]
               PROVE  e \in published'[<<k, "raw">>]
    OBVIOUS
  <2>1. CASE e \in published[<<k, "balanced">>]
    <3>1. e \in published[<<k, "raw">>]
      BY <2>1 DEF Portal
    <3> QED
      BY <1>1, <1>8, <3>1
  <2>2. CASE e = d
    BY <1>1, <1>4, <1>8, <2>2
  <2> QED
    BY <1>1, <1>8, <2>1, <2>2
<1>10. BalancedFollows(today, published')
  <2>1. \A k \in Energy : \A e \in published'[<<k, "raw">>] : e \in Int
    BY <1>1, <1>5, <1>8
  <2>2. PICK now \in Int : now = today
    BY Numbers
  <2> QED
    BY <1>1, <2>1, <2>2, FollowsLater
<1>11. BalancedFollows(today, published)'
  BY <1>1, <1>10 DEF BalancedFollows
<1> QED
  BY <1>6, <1>7, <1>9, <1>11 DEF Portal

LEMMA PublishGapless ==
    ASSUME Types, Types', Gapless, NEW d \in Days, NEW S \in SUBSET Feeds, Publish(d, S),
           Troubles \subseteq {"lag"}
    PROVE  Gapless'
<1>1. Portal'
  BY PortalPublish DEF Gapless
<1>2. ~Enabling /\ UNCHANGED <<today, active, stored, imported, prosumer, task>>
  BY DEF Publish, entry
<1>3. \A f \in Feeds : published[f] \subseteq published'[f]
  BY DEF Publish
<1>4. \A t \in Tasks : Age(task[t])' = Age(task[t])
  BY <1>2 DEF Age
<1> QED
  BY <1>1, <1>2, <1>3, <1>4, Weather

LEMMA MidnightGapless ==
    ASSUME Types, Types', Gapless, Midnight, Troubles \subseteq {"lag"}
    PROVE  Gapless'
<1>1. /\ ~Enabling /\ BalancedFollows(today + 1, published) /\ today' = today + 1
      /\ UNCHANGED <<published, active, stored, imported, prosumer>>
  BY DEF Midnight, portal, entry
<1>2. BalancedFollows(today, published)'
  BY <1>1 DEF BalancedFollows
<1>3. Portal'
  BY <1>1, <1>2 DEF Gapless, Portal
<1>4. \A t \in Tasks :
        /\ task'[t].at = task[t].at /\ task'[t].keys = task[t].keys
        /\ task'[t].all = task[t].all /\ task'[t].from = task[t].from
        /\ task'[t].to = task[t].to /\ task'[t].got = task[t].got
        /\ task[t].at = "inject" => Age(task[t])' = Age(task[t])
  <2> TAKE t \in Tasks
  <2>1. task[t] \in TaskRecords /\ ~task[t].late
    BY DEF Types, Midnight
  <2>2. task'[t] = [task[t] EXCEPT !.late = Running(t)]
    BY DEF Midnight
  <2>3. /\ task'[t].at = task[t].at /\ task'[t].keys = task[t].keys
        /\ task'[t].all = task[t].all /\ task'[t].from = task[t].from
        /\ task'[t].to = task[t].to /\ task'[t].got = task[t].got
        /\ task'[t].late = Running(t)
    BY <2>1, <2>2 DEF TaskRecords
  <2>4. task[t].at = "inject" => Age(task[t])' = Age(task[t])
    <3> SUFFICES ASSUME task[t].at = "inject" PROVE Age(task[t])' = Age(task[t])
      OBVIOUS
    <3>1. task'[t].late
      BY <2>3 DEF Running
    <3>2. Age(task[t])' = today' - 1 /\ Age(task[t]) = today - 0
      BY <2>1, <3>1 DEF Age
    <3> QED
      BY <1>1, <3>2, Numbers
  <2> QED
    BY <2>3, <2>4
<1> QED
  BY <1>1, <1>3, <1>4, Weather

LEMMA ProsumerGapless ==
    ASSUME Types, Types', Gapless, BecomeProsumer, Troubles \subseteq {"lag"}
    PROVE  Gapless'
<1>1. /\ ~prosumer /\ prosumer' = TRUE /\ ~Enabling
      /\ UNCHANGED <<today, published, active, stored, imported, task>>
      /\ \A t \in Tasks : ~Running(t)
  BY DEF BecomeProsumer, entry, Tasks
<1>2. \A t \in Tasks : task[t].at = "idle"
  BY <1>1 DEF Running
<1>3. Leaders = active /\ Leaders' \subseteq active
  BY <1>1 DEF Leaders, BalancedKeys
<1>4. \A k : Held(k)' = Held(k) /\ Latest(k)' = Latest(k)
  BY <1>1 DEF Held, Latest
<1>5. Missing' = Missing
  BY <1>1, <1>4 DEF Missing
<1>6. Missing = {} \/ \A b \in active : Held(b) = {}
  BY <1>1, <1>3, SeenIs DEF Enabling, Seen
<1>7. Portal' /\ Whole'
  BY <1>1, <1>4 DEF Gapless, Portal, Whole, BalancedFollows
<1>8. Level'
  BY <1>1, <1>3, <1>4, <1>5, <1>6 DEF Gapless, Level, Rooted
<1>9. \A t \in Tasks : Sound(task[t])'
  BY <1>1, <1>2 DEF Sound, Importing
<1> QED
  BY <1>1, <1>2, <1>7, <1>8, <1>9 DEF Gapless, Tasked, Tasks

LEMMA EnableGapless ==
    ASSUME Types, Types', Gapless, NEW key \in Keys, Enable(key), Troubles \subseteq {"lag"}
    PROVE  Gapless'
<1>1. /\ key \notin active /\ active' = active \cup {key}
      /\ ~Running("action") /\ \A j \in active : UpToDate(j)
      /\ Cancel({"refresh", "backfill"})
      /\ UNCHANGED <<today, published, prosumer, stored, imported>>
  BY DEF Enable, portal
<1>2. \A t \in Tasks : task'[t].at = "idle"
  BY <1>1 DEF Cancel, Tasks, Idle, Running
<1>3. \A k : Held(k)' = Held(k) /\ Feed(k)' = Feed(k)
  BY <1>1 DEF Held, Feed
<1>4. \A k \in active : Caught(k)
  BY <1>1 DEF Caught, UpToDate
<1>5. \A k : Caught(k)' <=> Caught(k)
  BY <1>1, <1>3 DEF Caught, Yesterday, Stale
<1>6. Seen /\ Seen'
  BY SeenIs, SeenNext
<1>7. Held(key) = {} /\ key \notin imported
  BY <1>1 DEF Gapless, Whole
<1>8. Missing' = Missing \cup {key}
  BY <1>1, <1>3, <1>6, <1>7 DEF Seen
<1>9. Leaders' \ {key} \subseteq Leaders
  BY <1>1 DEF Leaders, BalancedKeys
<1>10. Portal' /\ Whole'
  BY <1>1, <1>3 DEF Gapless, Portal, Whole, BalancedFollows
<1>11. (\A b \in Leaders, k \in active : published[Feed(b)] \subseteq published[Feed(k)])'
  BY <1>10, LeadersFollowNext
<1>12. \A k \in Missing', b \in Leaders' : Held(b) \subseteq published[Feed(k)]
  <2> SUFFICES ASSUME NEW k \in Missing', NEW b \in Leaders'
               PROVE  Held(b) \subseteq published[Feed(k)]
    OBVIOUS
  <2>1. CASE b = key
    BY <1>7, <2>1
  <2>2. CASE b \in active
    <3>1. Held(b) = published[Feed(b)]
      BY <1>1, <2>2 DEF UpToDate
    <3>2. k \in active' /\ Feed(b)' = Feed(b) /\ Feed(k)' = Feed(k)
      BY <1>3, <1>6 DEF Seen
    <3> QED
      BY <1>1, <1>11, <3>1, <3>2
  <2> QED
    BY <1>1, <1>6, <2>1, <2>2 DEF Seen
<1>13. \A k \in active' \ Missing', b \in Leaders' : Held(b) \subseteq Held(k)
  BY <1>1, <1>7, <1>8, <1>9 DEF Gapless, Level
<1>14. Level'
  BY <1>1, <1>3, <1>4, <1>5, <1>8, <1>12, <1>13 DEF Level
<1>15. \A t \in Tasks : Sound(task[t])'
  BY <1>2 DEF Sound, Importing
<1> QED
  BY <1>2, <1>10, <1>14, <1>15 DEF Gapless, Tasked, Tasks

\* A task that is stopped, or has failed.
LEMMA StopGapless ==
    ASSUME Gapless, UNCHANGED <<today, portal, active, stored, imported>>,
           \A t \in Tasks : task'[t] = task[t] \/ task'[t] = Idle
    PROVE  Gapless'
<1>1. Idle.at = "idle"
  BY DEF Idle
<1>2. \A t \in Tasks : Sound(task'[t])
  BY <1>1, IdleIsSound DEF Gapless, Tasked
<1>3. task'["refresh"].at # "idle" => task'["refresh"].keys = active
  BY <1>1 DEF Gapless, Tasked, Tasks
<1> QED
  BY <1>2, <1>3, Quiet DEF portal

\* A task that begins asks for all the days the leaders have, starts where
\* the statistics end and leaves those out that have it all.
LEMMA BeginGapless ==
    ASSUME Types, Gapless, UNCHANGED <<today, portal, active, stored, imported>>,
           NEW t \in Tasks, NEW record, Begin(t, record), record.at = "fetch",
           t = "refresh" => record.keys = active,
           Missing \subseteq record.keys, record.keys \subseteq active,
           record.all => record.keys = active,
           \A k \in record.keys : 1..record.from - 1 \subseteq Held(k),
           \A k \in active \ record.keys : Caught(k),
           \A k \in Missing, b \in Leaders : Held(b) \subseteq record.from..record.to
    PROVE  Gapless'
<1>1. \A u \in Tasks : task'[u] = IF u = t THEN record ELSE task[u]
  BY DEF Begin, Types
<1>2. Sound(record)
  BY DEF Sound, Importing
<1>3. \A u \in Tasks : Sound(task'[u])
  BY <1>1, <1>2 DEF Gapless, Tasked
<1>4. task'["refresh"].at # "idle" => task'["refresh"].keys = active
  BY <1>1 DEF Gapless, Tasked, Tasks
<1> QED
  BY <1>3, <1>4, Quiet DEF portal

\* What is held is over.
LEMMA HeldIsOver ==
    ASSUME Types, NEW k \in Keys, Troubles \subseteq {"lag"}
    PROVE  Held(k) \subseteq 1..Yesterday
<1> SUFFICES ASSUME NEW d \in Held(k) PROVE d \in 1..Yesterday
  OBVIOUS
<1>1. d \in Days /\ d <= today - 1
  BY DEF Held, Types, Over
<1>2. d \in Int /\ 1 <= d /\ today \in Int
  BY <1>1, Numbers, ImportAssumption DEF Days
<1> QED
  BY <1>1, <1>2 DEF Yesterday

LEMMA BackfillGapless ==
    ASSUME Types, Gapless, ImportAll \/ ImportMissing, Troubles \subseteq {"lag"}
    PROVE  Gapless'
<1>1. Seen /\ active \subseteq Keys
  BY SeenIs DEF Types
<1> DEFINE keys == IF ImportAll THEN active ELSE Missing
           record == IF ImportAll THEN History(active)
                     ELSE [History(Missing) EXCEPT !.all = FALSE]
<1>2. Begin("backfill", record) /\ "backfill" \in Tasks /\ "backfill" # "refresh"
  BY DEF ImportAll, ImportMissing, Tasks
<1>3. /\ record.at = "fetch" /\ record.from = 1 /\ record.to = Yesterday
      /\ record.keys = keys /\ (record.all => keys = active)
  <2>1. CASE ImportAll
    BY <2>1 DEF History, Idle
  <2>2. CASE ~ImportAll
    <3>1. record = [History(Missing) EXCEPT !.all = FALSE]
      BY <2>2
    <3>2. /\ History(Missing).at = "fetch" /\ History(Missing).from = 1
          /\ History(Missing).to = Yesterday /\ History(Missing).keys = Missing
      BY DEF History, Idle
    <3>3. /\ record.at = History(Missing).at /\ record.from = History(Missing).from
          /\ record.to = History(Missing).to /\ record.keys = History(Missing).keys
          /\ record.all = FALSE
      BY <3>1 DEF History, Idle
    <3> QED
      BY <2>2, <3>2, <3>3
  <2> QED
    BY <2>1, <2>2
<1> HIDE DEF record
<1>4. Missing \subseteq record.keys /\ record.keys \subseteq active
  BY <1>1, <1>3 DEF Seen
<1>5. \A k \in record.keys : 1..record.from - 1 \subseteq Held(k)
  BY <1>3
<1>6. \A k \in active \ record.keys : Caught(k)
  <2>1. CASE ImportAll
    BY <1>3, <2>1
  <2>2. CASE ~ImportAll
    <3>1. NewestDay # 0 /\ Missing # {}
      BY <2>2 DEF ImportMissing
    <3> QED
      BY <1>1, <1>3, <2>2, <3>1 DEF Gapless, Level, Rooted, Seen
  <2> QED
    BY <2>1, <2>2
<1>7. \A k \in Missing, b \in Leaders : Held(b) \subseteq record.from..record.to
  BY <1>1, <1>3, HeldIsOver DEF Seen
<1>8. UNCHANGED <<today, portal, active, stored, imported>>
  BY DEF ImportAll, ImportMissing, entry
<1> HIDE DEF keys
<1> QED
  BY <1>2, <1>3, <1>4, <1>5, <1>6, <1>7, <1>8, BeginGapless

\* All statistics have the days up to the newest one.
LEMMA UpToNewest ==
    ASSUME Types, Gapless, Missing = {}, NewestDay # 0, NEW k \in active
    PROVE  1..NewestDay \subseteq Held(k)
<1>1. Seen /\ active \subseteq Keys
  BY SeenIs DEF Types
<1>2. PICK b \in Leaders : NewestDay = Latest(b)
  BY <1>1, NewestIs DEF Seen
<1>3. b \in Keys
  BY <1>1, <1>2 DEF Seen
<1>4. Latest(b) \in Held(b)
  BY <1>2, <1>3, LatestIs
<1>5. NewestDay \in Held(k)
  BY <1>2, <1>4 DEF Gapless, Level
<1> QED
  BY <1>1, <1>5 DEF Gapless, Whole

LEMMA UpdateGapless ==
    ASSUME Types, Gapless, Update
    PROVE  Gapless'
<1>1. Seen /\ Missing = {} /\ NewestDay # 0
  BY SeenIs DEF Update
<1> DEFINE record == [Idle EXCEPT !.at = "fetch", !.keys = active, !.from = FirstMissing,
                                  !.to = Yesterday, !.fill = TRUE]
<1>2. Begin("refresh", record) /\ "refresh" \in Tasks
  BY DEF Update, Tasks
<1>3. /\ record.at = "fetch" /\ record.from = FirstMissing /\ record.keys = active
  BY DEF Idle
<1> HIDE DEF record
<1>4. \A k \in record.keys : 1..record.from - 1 \subseteq Held(k)
  <2>1. NewestDay \in Int
    BY <1>1, NewestIs DEF Seen
  <2>2. record.from - 1 = NewestDay
    BY <1>3, <2>1 DEF FirstMissing
  <2> QED
    BY <1>1, <1>3, <2>2, UpToNewest
<1>5. UNCHANGED <<today, portal, active, stored, imported>>
  BY DEF Update, entry
<1> QED
  BY <1>1, <1>2, <1>3, <1>4, <1>5, BeginGapless

LEMMA ActionGapless ==
    ASSUME Types, Gapless, NEW from \in Days, NEW to \in Int, Action(from, to),
           Troubles \subseteq {"lag"}
    PROVE  Gapless'
<1>1. Seen /\ active \subseteq Keys
  BY SeenIs DEF Types
<1> DEFINE record == [Idle EXCEPT !.at = "fetch", !.keys = active, !.from = from,
                                  !.to = to, !.fill = TRUE]
<1>2. Begin("action", record) /\ "action" \in Tasks /\ "action" # "refresh"
  BY DEF Action, Tasks
<1>3. /\ record.at = "fetch" /\ record.from = from /\ record.to = to /\ record.keys = active
  BY DEF Idle
<1> HIDE DEF record
<1>4. Adjoins(from, to) /\ from <= to /\ from \in Int /\ 1 <= from
  BY Numbers, ImportAssumption DEF Action, Days
<1>5. \A k \in active : 1..from - 1 \subseteq Held(k)
  <2> SUFFICES ASSUME NEW k \in active, NEW d \in 1..from - 1 PROVE d \in Held(k)
    OBVIOUS
  <2>1. /\ Latest(k) \in Nat /\ Latest(k) \in {0} \cup Held(k)
    BY <1>1, LatestIs
  <2>2. from <= Latest(k) + 1
    BY <1>4 DEF Adjoins
  <2>3. d \in 1..Latest(k) /\ Latest(k) # 0
    BY <1>4, <2>1, <2>2
  <2> QED
    BY <1>1, <2>1, <2>3 DEF Gapless, Whole
<1>6. \A k \in Missing, b \in Leaders : Held(b) \subseteq from..to
  <2> SUFFICES ASSUME NEW k \in Missing, NEW b \in Leaders, NEW d \in Held(b)
               PROVE  d \in from..to
    OBVIOUS
  <2>1. k \in active /\ b \in active
    BY <1>1 DEF Seen
  <2>2. Latest(k) = 0
    BY DEF Missing
  <2>3. from <= 1 /\ (to <= 0 \/ Latest(b) <= to)
    BY <1>4, <2>1, <2>2 DEF Adjoins
  <2>4. d <= Latest(b) /\ d \in Days /\ Latest(b) \in Nat
    BY <1>1, <2>1, LatestIs
  <2>5. d \in Int /\ 1 <= d
    BY <2>4, ImportAssumption DEF Days
  <2> QED
    BY <1>4, <2>3, <2>4, <2>5
<1>7. UNCHANGED <<today, portal, active, stored, imported>>
  BY DEF Action, entry
<1>8. Missing \subseteq active
  BY <1>1 DEF Seen
<1> QED
  BY <1>2, <1>3, <1>5, <1>6, <1>7, <1>8, BeginGapless

LEMMA FetchGapless ==
    ASSUME Types, Gapless, NEW t \in Tasks, NEW failed, Fetch(t, failed), refused' = {}
    PROVE  Gapless'
<1> DEFINE record == task[t]
           range == task[t].from..task[t].to
           got == [k \in task[t].keys |-> published[Feed(k)] \cap range]
<1>1. Sound(record) /\ record.at = "fetch" /\ Portal /\ task[t] \in TaskRecords
  BY DEF Gapless, Tasked, Fetch, Types
<1>2. failed = {} /\ task[t].keys \ failed = task[t].keys
  BY DEF Fetch
<1>3. \A u \in Tasks \ {t} : task'[u] = task[u]
  BY DEF Fetch, Begin, Types
<1>4. /\ task'[t].at = "inject" /\ task'[t].got = got /\ task'[t].keys = task[t].keys
      /\ task'[t].all = task[t].all /\ task'[t].from = task[t].from
      /\ task'[t].to = task[t].to /\ task'[t].late = task[t].late
  BY <1>1, <1>2 DEF Fetch, Begin, Types, TaskRecords
<1>5. UNCHANGED <<today, published, active, stored, imported, prosumer>>
  BY DEF Fetch, portal
<1>6. /\ Seen /\ active \subseteq Keys /\ task[t].keys \subseteq active
      /\ Missing \subseteq task[t].keys
  BY <1>1, SeenIs DEF Sound, Types
<1>7. DOMAIN got = task[t].keys /\ \A k \in task[t].keys : got[k] = published[Feed(k)] \cap range
  OBVIOUS
<1> HIDE DEF got
<1>8. \A k \in task[t].keys : Feed(k) \in Feeds
  BY <1>6, FeedIs
<1>9. \A k \in task[t].keys : \A d \in got[k] : task[t].from..d \subseteq got[k]
  <2> SUFFICES ASSUME NEW k \in task[t].keys, NEW d \in got[k], NEW e \in task[t].from..d
               PROVE  e \in got[k]
    OBVIOUS
  <2>1. d \in published[Feed(k)] /\ d \in range
    BY <1>7
  <2>2. PICK from \in Int, to \in Int : /\ from = task[t].from /\ to = task[t].to
                                        /\ 1 <= from
    BY <1>1, ImportAssumption DEF TaskRecords, Days
  <2>3. d \in Int /\ e \in Int /\ from <= e /\ e <= d /\ d <= to
    BY <2>1, <2>2
  <2>4. e \in 1..d /\ e \in range
    BY <2>2, <2>3
  <2>5. e \in published[Feed(k)]
    BY <1>1, <1>8, <2>1, <2>4 DEF Portal
  <2> QED
    BY <1>7, <2>4, <2>5
<1>10. \A j, k \in task[t].keys : \A e \in got[j] \ got[k] : Age(record) - e < Grace
  <2> SUFFICES ASSUME NEW j \in task[t].keys, NEW k \in task[t].keys, NEW e \in got[j] \ got[k]
               PROVE  Age(record) - e < Grace
    OBVIOUS
  <2>1. e \in published[Feed(j)] \ published[Feed(k)]
    BY <1>7
  <2>2. today - e < Grace
    BY <1>1, <1>6, <2>1, FeedsAgree
  <2>3. e \in Int
    BY <1>8, <2>1 DEF Types, Days
  <2>4. PICK age \in Int : age = Age(record) /\ age <= today
    BY AgeIs
  <2>5. today \in Int /\ Grace \in Int
    BY Numbers, ImportAssumption
  <2>6. age - e < Grace
    BY <2>2, <2>3, <2>4, <2>5
  <2> QED
    BY <2>4, <2>6
<1>11. \A b \in Leaders \cap task[t].keys, k \in task[t].keys : got[b] \subseteq got[k]
  BY <1>1, <1>6, <1>7, LeadersFollow
<1>12. Age(task'[t]) = Age(record)
  BY <1>4 DEF Age
<1>13. Answered(task'[t])
  BY <1>4, <1>7, <1>9, <1>10, <1>11, <1>12 DEF Answered
<1>14. \A k \in Missing, b \in Leaders : Held(b) \subseteq got[k]
  BY <1>1, <1>6, <1>7 DEF Sound, Gapless, Level
<1>15. Sound(task'[t])
  BY <1>1, <1>4, <1>13, <1>14 DEF Sound, Importing
<1>16. \A u \in Tasks : Sound(task'[u])
  BY <1>3, <1>15 DEF Gapless, Tasked
<1>17. task'["refresh"].at # "idle" => task'["refresh"].keys = active
  BY <1>1, <1>3, <1>4 DEF Gapless, Tasked, Tasks
<1> QED
  BY <1>5, <1>16, <1>17, Quiet

\* What an import adds.
LEMMA InjectHeld ==
    ASSUME Types, NEW t \in Tasks, Inject(t)
    PROVE  /\ ZeroFilled(t) \subseteq 1..Yesterday /\ ZeroFilled(t) \subseteq Days
           /\ \A k \in Keys : Held(k)' = IF k \in DOMAIN task[t].got
                                         THEN Held(k) \cup task[t].got[k] \cup ZeroFilled(t)
                                         ELSE Held(k)
<1>1. PICK from \in Days, to \in 0..LastDay : from = task[t].from /\ to = task[t].to
  BY DEF Types, TaskRecords
<1>2. today \in Int /\ LastDay \in Int
  BY Numbers, ImportAssumption
<1>3. from..to \subseteq Days
  BY <1>1, <1>2 DEF Days
<1>4. ZeroFilled(t) \subseteq 1..Yesterday /\ ZeroFilled(t) \subseteq Days
  BY <1>2, GivenUpIsOver DEF Yesterday, Days
<1>5. \A k \in DOMAIN task[t].got : task[t].got[k] \subseteq Days /\ task[t].kind[k] # "none"
  <2>1. /\ task[t].kind \in UNION {[S -> {"raw", "balanced"}] : S \in SUBSET Keys}
        /\ DOMAIN task[t].kind = DOMAIN task[t].got
        /\ \A k \in DOMAIN task[t].got : task[t].got[k] \subseteq from..to
    BY <1>1 DEF Types, Sane, TaskRecords
  <2> QED
    BY <1>3, <2>1
<1>6. \A k \in Keys : Held(k)' = IF k \in DOMAIN task[t].got
                                 THEN Held(k) \cup task[t].got[k] \cup ZeroFilled(t)
                                 ELSE Held(k)
  <2> SUFFICES ASSUME NEW k \in Keys
               PROVE  Held(k)' = IF k \in DOMAIN task[t].got
                                 THEN Held(k) \cup task[t].got[k] \cup ZeroFilled(t)
                                 ELSE Held(k)
    OBVIOUS
  <2>1. \A d \in Days :
            stored'[k][d] = IF k \notin DOMAIN task[t].got THEN stored[k][d]
                            ELSE IF d \in task[t].got[k] THEN task[t].kind[k]
                            ELSE IF d \in ZeroFilled(t) THEN "zero"
                            ELSE stored[k][d]
    BY InjectTypes
  <2>2. ZeroFilled(t) \subseteq Days
    BY <1>4
  <2> QED
    BY <1>5, <2>1, <2>2 DEF Held
<1> QED
  BY <1>4, <1>6

\* A day is given up with the empty days before it in a task's range.
LEMMA GivenUp ==
    ASSUME Types, NEW t \in Tasks, Answered(task[t]), NEW d \in ZeroFilled(t),
           NEW e \in task[t].from..d - 1, NEW k \in task[t].keys
    PROVE  e \in task[t].got[k] \cup ZeroFilled(t)
<1>1. PICK from \in Int, to \in Int : from = task[t].from /\ to = task[t].to
  BY Numbers
<1>2. /\ d \in from..to /\ task[t].fill /\ Started(t, d) /\ today - d >= Grace
  BY <1>1 DEF ZeroFilled, Stale
<1>3. /\ d \in Int /\ e \in Int /\ from <= e /\ e < d /\ e \in from..to
      /\ today \in Int /\ Grace \in Int
  BY <1>1, <1>2, Numbers, ImportAssumption
<1>4. today - e >= Grace /\ today - 1 - e >= Grace
  BY <1>2, <1>3
<1>5. CASE WithData(t, e) = {}
  <2>1. Started(t, e)
    <3>1. SUFFICES ASSUME task[t].skip PROVE \E i \in from..e : WithData(t, i) # {}
      BY <1>1 DEF Started
    <3>2. PICK i \in from..d : WithData(t, i) # {}
      BY <1>1, <1>2, <3>1 DEF Started
    <3>3. PICK j \in task[t].keys : i \in task[t].got[j]
      BY <3>2 DEF WithData, Answered
    <3>4. from \in from..i /\ from \in from..e
      BY <1>3, <3>2
    <3>5. from \in task[t].got[j]
      BY <1>1, <3>3, <3>4 DEF Answered
    <3>6. WithData(t, from) # {}
      BY <3>5 DEF WithData, Answered
    <3> QED
      BY <3>4, <3>6
  <2>2. e \in ZeroFilled(t)
    BY <1>1, <1>2, <1>3, <1>4, <1>5, <2>1 DEF ZeroFilled, Stale
  <2> QED
    BY <2>2
<1>6. CASE WithData(t, e) # {}
  <2>1. PICK j \in task[t].keys : e \in task[t].got[j]
    BY <1>6 DEF WithData, Answered
  <2>2. PICK age \in Int : age = Age(task[t]) /\ today - 1 <= age
    BY AgeIs
  <2>3. ~(age - e < Grace)
    BY <1>3, <1>4, <2>2
  <2>4. e \in task[t].got[k]
    BY <2>1, <2>2, <2>3 DEF Answered
  <2> QED
    BY <2>4
<1> QED
  BY <1>5, <1>6

LEMMA InjectWhole ==
    ASSUME Types, Gapless, NEW t \in Tasks, Inject(t)
    PROVE  Whole'
<1>1. /\ task[t].at = "inject" /\ Sound(task[t])
      /\ UNCHANGED <<active, imported>>
  BY DEF Inject, Gapless, Tasked, entry
<1>2. /\ Answered(task[t]) /\ DOMAIN task[t].got = task[t].keys /\ task[t].keys \subseteq active
      /\ \A k \in task[t].keys : 1..task[t].from - 1 \subseteq Held(k)
  BY <1>1 DEF Sound, Answered, Importing
<1>3. /\ \A k \in Keys : Held(k)' = IF k \in task[t].keys
                                    THEN Held(k) \cup task[t].got[k] \cup ZeroFilled(t)
                                    ELSE Held(k)
  BY <1>2, InjectHeld
<1>4. \A k \in Keys : \A d \in Held(k)' : 1..d \subseteq Held(k)'
  <2> SUFFICES ASSUME NEW k \in Keys, NEW d \in Held(k)', NEW e \in 1..d
               PROVE  e \in Held(k)'
    OBVIOUS
  <2>1. CASE d \in Held(k)
    BY <1>3, <2>1 DEF Gapless, Whole
  <2>2. CASE d \notin Held(k)
    <3>1. k \in task[t].keys /\ d \in task[t].got[k] \cup ZeroFilled(t)
      BY <1>3, <2>2
    <3>2. PICK from \in Int : from = task[t].from
      BY Numbers
    <3>3. d \in Int
      BY Numbers DEF Held
    <3>4. e \in 1..from - 1 \/ e \in from..d
      BY <3>2, <3>3
    <3>5. e \in 1..from - 1 => e \in Held(k)
      BY <1>2, <3>1, <3>2
    <3>6. d \in task[t].got[k] /\ e \in from..d => e \in task[t].got[k]
      BY <1>2, <3>1, <3>2 DEF Answered
    <3>7. d \in ZeroFilled(t) /\ e \in from..d => e \in task[t].got[k] \cup ZeroFilled(t)
      <4> SUFFICES ASSUME d \in ZeroFilled(t), e \in from..d, e # d
                   PROVE  e \in task[t].got[k] \cup ZeroFilled(t)
        OBVIOUS
      <4>1. e \in task[t].from..d - 1
        BY <3>2, <3>3
      <4> QED
        BY <1>2, <3>1, <4>1, GivenUp
    <3> QED
      BY <1>3, <3>1, <3>4, <3>5, <3>6, <3>7
  <2> QED
    BY <2>1, <2>2
<1>5. \A k \in Keys \ active : Held(k)' = {} /\ k \notin imported
  BY <1>2, <1>3 DEF Gapless, Whole
<1> QED
  BY <1>1, <1>4, <1>5 DEF Whole

\* An import leaves every statistic with all that the leaders have.
LEMMA InjectLevels ==
    ASSUME Types, Gapless, NEW t \in Tasks, Inject(t), NEW k \in active, NEW b \in Leaders
    PROVE  Held(b)' \subseteq Held(k)'
<1>1. /\ task[t].at = "inject" /\ Sound(task[t]) /\ Portal /\ Level
  BY DEF Inject, Gapless, Tasked
<1>2. /\ Answered(task[t]) /\ DOMAIN task[t].got = task[t].keys
      /\ Missing \subseteq task[t].keys
      /\ \A j \in active \ task[t].keys : Caught(j)
      /\ \A j \in Missing : Held(b) \subseteq task[t].got[j]
  BY <1>1 DEF Sound, Answered, Importing
<1>3. k \in Keys /\ b \in Keys /\ b \in active
  BY SeenIs DEF Seen, Types
<1> DEFINE zeros == ZeroFilled(t)
           got == task[t].got
<1>4. /\ b \in task[t].keys => Held(b)' = Held(b) \cup got[b] \cup zeros
      /\ b \notin task[t].keys => Held(b)' = Held(b)
      /\ k \in task[t].keys => Held(k)' = Held(k) \cup got[k] \cup zeros
      /\ k \notin task[t].keys => Held(k)' = Held(k)
  BY <1>2, <1>3, InjectHeld
<1>5. Held(b) \subseteq Held(k)'
  <2>1. CASE k \in Missing
    BY <1>2, <1>4, <2>1
  <2>2. CASE k \notin Missing
    BY <1>1, <1>4, <2>2 DEF Level
  <2> QED
    BY <2>1, <2>2
<1>6. b \in task[t].keys => got[b] \cup zeros \subseteq Held(k)'
  <2> SUFFICES ASSUME b \in task[t].keys PROVE got[b] \cup zeros \subseteq Held(k)'
    OBVIOUS
  <2>1. CASE k \in task[t].keys
    BY <1>2, <1>4, <2>1 DEF Answered
  <2>2. CASE k \notin task[t].keys
    <3>1. Caught(k)
      BY <1>2, <2>2
    <3>2. got[b] \subseteq published[Feed(k)]
      BY <1>1, <1>2, LeadersFollow DEF Answered
    <3>3. zeros \subseteq Held(k)
      BY <3>1, InjectHeld DEF Caught, ZeroFilled
    <3> QED
      BY <1>4, <2>2, <3>1, <3>2, <3>3 DEF Caught
  <2> QED
    BY <2>1, <2>2
<1> QED
  BY <1>4, <1>5, <1>6

\* If a statistic is still without any day, so are the leaders.
LEMMA InjectRoots ==
    ASSUME Types, Types', Gapless, NEW t \in Tasks, Inject(t)
    PROVE  /\ Missing' \subseteq Missing /\ Leaders' = Leaders
           /\ Missing' # {} => \A b \in Leaders : Held(b)' = {}
<1>1. UNCHANGED <<active, imported, prosumer>>
  BY DEF Inject, entry, portal
<1>2. Seen /\ Seen'
  BY SeenIs, SeenNext
<1>3. Leaders' = Leaders
  BY <1>1 DEF Leaders, BalancedKeys
<1>4. \A k \in Keys : Held(k) \subseteq Held(k)'
  BY InjectHeld
<1>5. Missing' \subseteq Missing
  <2> SUFFICES ASSUME NEW k \in Missing' PROVE k \in Missing
    OBVIOUS
  <2>1. k \in active /\ Held(k)' = {} /\ k \notin imported
    BY <1>1, <1>2 DEF Seen
  <2> QED
    BY <1>2, <1>4, <2>1 DEF Seen, Types
<1>6. \A k \in Missing', b \in Leaders : Held(b)' = {}
  <2> SUFFICES ASSUME NEW k \in Missing', NEW b \in Leaders PROVE Held(b)' = {}
    OBVIOUS
  <2>1. k \in active /\ Held(k)' = {}
    BY <1>1, <1>2 DEF Seen
  <2> QED
    BY <2>1, InjectLevels
<1> QED
  BY <1>3, <1>5, <1>6

LEMMA InjectGapless ==
    ASSUME Types, Types', Gapless, NEW t \in Tasks, Inject(t)
    PROVE  Gapless'
<1>1. /\ UNCHANGED <<today, published, active, imported, prosumer>>
      /\ \A u \in Tasks \ {t} : task'[u] = task[u]
      /\ task'[t] = IF t # "backfill" THEN Idle
                    ELSE [Idle EXCEPT !.at = "flag", !.keys = task[t].keys,
                                      !.all = task[t].all]
      /\ task[t].at = "inject"
  BY DEF Inject, Begin, Types, portal, entry
<1>2. Seen /\ Seen' /\ active \subseteq Keys
  BY SeenIs, SeenNext DEF Types
<1>3. /\ Missing' \subseteq Missing /\ Leaders' = Leaders
      /\ Missing' # {} => \A b \in Leaders : Held(b)' = {}
  BY InjectRoots
<1>4. /\ \A k \in Keys : Held(k) \subseteq Held(k)'
      /\ \A k \in active, b \in Leaders : Held(b)' \subseteq Held(k)'
  BY InjectHeld, InjectLevels
<1>5. \A k : Feed(k)' = Feed(k)
  BY <1>1 DEF Feed
<1>6. \A k \in active : Caught(k) => Caught(k)'
  BY <1>1, <1>2, <1>4, <1>5 DEF Caught, Yesterday, Stale
<1>7. Portal' /\ Whole'
  BY <1>1, InjectWhole DEF Gapless, Portal, BalancedFollows
<1>8. Level'
  BY <1>1, <1>3, <1>4 DEF Level, Rooted
<1>9. Sound(task[t])'
  <2>1. CASE t # "backfill"
    <3>1. task'[t].at = "idle"
      BY <1>1, <2>1 DEF Idle
    <3> QED
      BY <3>1 DEF Sound, Importing
  <2>2. CASE t = "backfill"
    <3>1. task'[t].at = "flag" /\ task'[t].keys = task[t].keys /\ task'[t].all = task[t].all
      BY <1>1, <2>2 DEF Idle
    <3>2. /\ Missing \subseteq task[t].keys /\ task[t].keys \subseteq active
          /\ task[t].all => task[t].keys = active
      BY <1>1 DEF Gapless, Tasked, Sound
    <3> QED
      BY <1>1, <1>3, <1>4, <3>1, <3>2 DEF Sound, Importing
  <2> QED
    BY <2>1, <2>2
<1>10. \A u \in Tasks \ {t} : Sound(task[u])'
  <2> SUFFICES ASSUME NEW u \in Tasks \ {t} PROVE Sound(task[u])'
    OBVIOUS
  <2>1. Sound(task[u]) /\ task'[u] = task[u]
    BY <1>1 DEF Gapless, Tasked
  <2>2. Age(task[u])' = Age(task[u])
    BY <1>1, <2>1 DEF Age
  <2>3. task[u].at = "inject" => Answered(task[u])'
    <3> SUFFICES ASSUME task[u].at = "inject" PROVE Answered(task[u])'
      OBVIOUS
    <3>1. Answered(task[u])
      BY <2>1 DEF Sound
    <3> QED
      BY <1>1, <1>3, <1>5, <2>1, <2>2, <3>1 DEF Answered
  <2>4. task[u].at # "idle" =>
            /\ Missing' \subseteq task[u].keys /\ task[u].keys \subseteq active
            /\ task[u].all => task[u].keys = active
    BY <1>3, <2>1 DEF Sound
  <2>5. Importing(task[u]) => /\ \A k \in task[u].keys : 1..task[u].from - 1 \subseteq Held(k)'
                              /\ \A k \in active \ task[u].keys : Caught(k)'
    <3> SUFFICES ASSUME Importing(task[u])
                 PROVE  /\ \A k \in task[u].keys : 1..task[u].from - 1 \subseteq Held(k)'
                        /\ \A k \in active \ task[u].keys : Caught(k)'
      OBVIOUS
    <3>1. task[u].keys \subseteq Keys
      BY <1>2, <2>4 DEF Importing
    <3> QED
      BY <1>4, <1>6, <2>1, <3>1 DEF Sound
  <2>6. task[u].at = "flag" => \A k \in task[u].keys, b \in Leaders : Held(b)' \subseteq Held(k)'
    BY <1>4, <2>4
  <2> QED
    BY <1>1, <1>3, <2>1, <2>3, <2>4, <2>5, <2>6 DEF Sound, Importing
<1>11. task'["refresh"].at # "idle" => task'["refresh"].keys = active
  <2>1. CASE t = "refresh"
    BY <1>1, <2>1 DEF Idle
  <2>2. CASE t # "refresh"
    BY <1>1, <2>2 DEF Gapless, Tasked, Tasks
  <2> QED
    BY <2>1, <2>2
<1> QED
  BY <1>1, <1>7, <1>8, <1>9, <1>10, <1>11 DEF Gapless, Tasked

LEMMA FlagGapless ==
    ASSUME Types, Types', Gapless, Flag
    PROVE  Gapless'
<1> DEFINE record == task["backfill"]
<1>1. /\ record.at = "flag" /\ imported' = imported \cup Done
      /\ UNCHANGED <<today, published, active, stored, prosumer>>
      /\ \A t \in Tasks : task'[t] = IF t = "backfill" THEN Idle ELSE task[t]
  BY DEF Flag, Begin, Types, Tasks, portal
<1>2. /\ Missing \subseteq record.keys /\ record.keys \subseteq active
      /\ record.all => record.keys = active
      /\ \A k \in record.keys, b \in Leaders : Held(b) \subseteq Held(k)
  BY <1>1 DEF Gapless, Tasked, Sound, Tasks
<1>3. Done = record.keys
  BY <1>2 DEF Done
<1>4. Seen /\ Seen'
  BY SeenIs, SeenNext
<1>5. \A k : Held(k)' = Held(k) /\ Feed(k)' = Feed(k)
  BY <1>1 DEF Held, Feed
<1>6. Leaders' = Leaders
  BY <1>1 DEF Leaders, BalancedKeys
<1>7. Missing' = {}
  <2> SUFFICES ASSUME NEW k \in Missing' PROVE FALSE
    OBVIOUS
  <2>1. k \in active /\ Held(k) = {} /\ k \notin imported /\ k \notin Done
    BY <1>1, <1>4, <1>5 DEF Seen
  <2>2. k \in Missing
    BY <1>4, <2>1 DEF Seen
  <2> QED
    BY <1>2, <1>3, <2>1, <2>2
<1>8. \A k \in active, b \in Leaders : Held(b) \subseteq Held(k)
  BY <1>2 DEF Gapless, Level
<1>9. Portal' /\ Whole'
  BY <1>1, <1>2, <1>3, <1>5 DEF Gapless, Portal, Whole, BalancedFollows
<1>10. Level'
  BY <1>1, <1>5, <1>6, <1>7, <1>8 DEF Level
<1>11. \A k : Caught(k) => Caught(k)'
  BY <1>1, <1>5 DEF Caught, Yesterday, Stale
<1>12. \A t \in Tasks : Sound(task[t])'
  <2> SUFFICES ASSUME NEW t \in Tasks PROVE Sound(task[t])'
    OBVIOUS
  <2>1. CASE t = "backfill"
    <3>1. task'[t].at = "idle"
      BY <1>1, <2>1 DEF Idle
    <3> QED
      BY <3>1 DEF Sound, Importing
  <2>2. CASE t # "backfill"
    <3>1. task'[t] = task[t] /\ Sound(task[t])
      BY <1>1, <2>2 DEF Gapless, Tasked
    <3>2. Age(task[t])' = Age(task[t])
      BY <1>1, <3>1 DEF Age
    <3>3. task[t].at = "inject" => Answered(task[t])'
      BY <1>1, <1>5, <1>6, <3>1, <3>2 DEF Sound, Answered
    <3> QED
      BY <1>1, <1>5, <1>6, <1>7, <1>11, <3>1, <3>3 DEF Sound, Importing
  <2> QED
    BY <2>1, <2>2
<1>13. task'["refresh"].at # "idle" => task'["refresh"].keys = active
  BY <1>1 DEF Gapless, Tasked, Tasks
<1> QED
  BY <1>1, <1>9, <1>10, <1>12, <1>13 DEF Gapless, Tasked

LEMMA GaplessInit == ASSUME Init PROVE Gapless
<1>1. Types
  BY InitTypes
<1>2. /\ \A k \in Keys : Held(k) = {}
      /\ \A f \in Feeds : published[f] = {}
      /\ imported = {} /\ \A t \in Tasks : task[t].at = "idle"
  BY DEF Init, Held, Idle
<1>3. \A k \in Energy : <<k, "raw">> \in Feeds /\ <<k, "balanced">> \in Feeds
  BY ImportAssumption DEF Feeds
<1>4. Portal
  <2>1. BalancedFollows(today, published)
    BY <1>2, <1>3 DEF BalancedFollows
  <2> QED
    BY <1>2, <1>3, <2>1 DEF Portal
<1>5. Whole
  BY <1>2 DEF Whole
<1>6. \A b \in Leaders : Held(b) = {}
  BY <1>1, <1>2, SeenIs DEF Seen, Types
<1>7. Level
  BY <1>6 DEF Level, Rooted
<1>8. \A t \in Tasks : Sound(task[t])
  BY <1>2, IdleIsSound
<1> QED
  BY <1>2, <1>4, <1>5, <1>7, <1>8 DEF Gapless, Tasked, Tasks

LEMMA GaplessStep ==
    ASSUME Types, Types', Gapless, Troubles \subseteq {"lag"}, refused' = {}, [Next]_vars
    PROVE  Gapless'
<1>1. CASE \E d \in Days, S \in SUBSET Feeds : Publish(d, S)
  BY <1>1, PublishGapless
<1>2. CASE Midnight
  BY <1>2, MidnightGapless
<1>3. CASE BecomeProsumer
  BY <1>3, ProsumerGapless
<1>4. CASE \E k \in Keys : Enable(k)
  BY <1>4, EnableGapless
<1>5. CASE \/ Stop({"refresh", "backfill"}) \/ Stop(Tasks)
           \/ \E t \in Tasks : FetchFails(t)
  <2>1. \A t \in Tasks : task'[t] = task[t] \/ task'[t] = Idle
    BY <1>5 DEF Stop, Cancel, FetchFails, Begin, Types
  <2>2. UNCHANGED <<today, portal, active, stored, imported>>
    BY <1>5 DEF Stop, FetchFails, entry
  <2> QED
    BY <2>1, <2>2, StopGapless
<1>6. CASE ImportAll \/ ImportMissing
  BY <1>6, BackfillGapless
<1>7. CASE Update
  BY <1>7, UpdateGapless
<1>8. CASE \E from \in Days : \E to \in {from, LastDay} : Action(from, to)
  <2>1. PICK from \in Days : \E to \in {from, LastDay} : Action(from, to)
    BY <1>8
  <2>2. PICK to \in {from, LastDay} : Action(from, to)
    BY <2>1
  <2>3. to \in Int
    BY <2>2, Numbers, ImportAssumption DEF Yesterday
  <2> QED
    BY <2>2, <2>3, ActionGapless
<1>9. CASE \E t \in Tasks : TaskStep(t)
  BY <1>9, FetchGapless, InjectGapless DEF TaskStep
<1>10. CASE Flag
  BY <1>10, FlagGapless
<1>11. CASE UNCHANGED vars
  BY <1>11, StopGapless DEF vars, entry
<1> QED
  BY <1>1, <1>2, <1>3, <1>4, <1>5, <1>6, <1>7, <1>8, <1>9, <1>10, <1>11 DEF Next

\* A request that has failed beside others is not forgotten.
LEMMA StaysRefused == [Next]_vars => refused \subseteq refused'
BY DEF Next, vars, portal, entry, Publish, Midnight, BecomeProsumer, Enable, Stop, ImportAll,
       ImportMissing, Update, Action, TaskStep, Fetch, FetchFails, Inject, Flag

(***************************************************************************)
(* As long as no request fails beside others that are answered, between the *)
(* first and the newest day of a statistic none is left out: whichever of   *)
(* the tasks overlap, fail, are cancelled or cross midnight.  The           *)
(* hypothesis leaves one of Kinds: the portal publishes the days in order   *)
(* and once they are over, though balanced data may lag behind, within the  *)
(* grace period; a measurement's history is imported while the others have  *)
(* all there is; a meter becomes a prosumer's between imports; and          *)
(* enea.backfill joins the stored days.                                     *)
(***************************************************************************)
THEOREM NoDayLeftOut ==
    ASSUME Troubles \subseteq {"lag"}
    PROVE  Spec => []NoHoles
<1> DEFINE Inv == refused = {} => Gapless
<1>1. Init => Inv
  BY GaplessInit
<1>2. Types /\ Types' /\ Gapless /\ refused' = {} /\ [Next]_vars => Gapless'
  BY GaplessStep
<1>3. Types /\ Types' /\ Inv /\ [Next]_vars => Inv'
  BY <1>2, StaysRefused
<1>4. Types /\ Inv => NoHoles
  <2> SUFFICES ASSUME Types, Inv, refused = {}, NEW k \in active, NEW d \in Held(k), NEW e \in Days,
                      d < e, e < Latest(k)
               PROVE  e \in Held(k)
    BY DEF NoHoles
  <2>1. k \in Keys
    BY DEF Types
  <2>2. /\ Latest(k) \in {0} \cup Held(k) /\ Latest(k) \in Nat
    BY <2>1, LatestIs
  <2>3. e \in Int /\ 1 <= e
    BY Numbers, ImportAssumption DEF Days
  <2>4. e \in 1..Latest(k) /\ Latest(k) # 0
    BY <2>2, <2>3
  <2> QED
    BY <2>1, <2>2, <2>4 DEF Gapless, Whole
<1> HIDE DEF Inv
<1> QED
  BY <1>1, <1>3, <1>4, ImportTypes, PTL DEF Spec

=============================================================================
