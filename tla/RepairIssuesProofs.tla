------------------------- MODULE RepairIssuesProofs -------------------------
(***************************************************************************)
(* RepairIssues keeps its types, and meters that share a tariff group have  *)
(* no mismatch issues between their refreshes, however many meters and      *)
(* groups there are.                                                        *)
(***************************************************************************)
EXTENDS RepairIssues, TLAPS

(* What a meter's last refresh decided still stands: it has gone past the   *)
(* update of the mismatch issues, and the next has not begun.               *)
Judged(m) ==
    /\ dash[m] # None
    /\ \/ step[m] \in {"support", "model"}
       \/ step[m] = "idle" /\ phase[m] = "up"

(* Of two judged meters of one group neither has a mismatch issue: the one  *)
(* judged last saw the other's group.                                       *)
NoneShared ==
    \A m, n \in Meters :
        m # n /\ Judged(m) /\ Judged(n) /\ dash[m].group # None /\ dash[m].group = dash[n].group
        => issue[m] = None

-----------------------------------------------------------------------------
(* What the helpers of the actions return. *)

LEMMA EntryTyped ==
    ASSUME TypeOK, NEW g \in Groups \cup {None}
    PROVE  /\ FindEntry(g) \in Entries \cup {None}
           /\ FindEntry(g) # None => g \in Groups
           /\ FindConfig(g) \in Entries \cup {None}
           /\ FindConfig(g) # None => g \in Groups
  BY IssuesAssumption DEF TypeOK, FindEntry, FindConfig

LEMMA RaisedTyped ==
    ASSUME TypeOK, NEW m \in Meters, dash[m] # None
    PROVE  Raised(m) \in Data \cup {None}
<1>1. dash[m] \in Dashboards
  BY DEF TypeOK
<1>2. FindConfig(dash[m].group) # None => dash[m].group \in Groups
  BY <1>1, EntryTyped DEF Dashboards
<1>3. Mismatch(m) \in Data \cup {None}
  BY <1>1, <1>2 DEF Mismatch, Data, Dashboards
<1> QED
  BY <1>3 DEF Raised

LEMMA PlaceTyped ==
    ASSUME TypeOK, NEW meters, NEW where \in {"absent", "off", "loading"}, Place(meters, where)
    PROVE  /\ phase' \in [Meters -> Phases] /\ step' \in [Meters -> Steps]
           /\ dash' \in [Meters -> Dashboards \cup {None}]
           /\ \A m \in Meters : /\ step'[m] # "idle" => phase'[m] \in {"loading", "first", "up"}
                                /\ step'[m] # "idle" \/ phase'[m] \in {"first", "up"} => dash'[m] # None
  BY DEF TypeOK, Place, Phases, Steps, On

LEMMA SetPricesTyped ==
    ASSUME TypeOK, NEW g \in Groups, NEW entry \in Entries \cup {None}, SetPrices(g, entry)
    PROVE  /\ prices' \in [Groups -> Entries \cup {None}]
           /\ Place(MetersInTariff(g), "loading")
  BY DEF TypeOK, SetPrices

-----------------------------------------------------------------------------
(* Type correctness. *)

LEMMA InitTyped == Init => TypeOK
  BY IssuesAssumption
  DEF Init, TypeOK, Phases, Steps, Entries, Dashboards

(* The steps that place meters: entries of Enea and of enea_prices.         *)
LEMMA EntryStepsTyped ==
    ASSUME TypeOK,
           \/ \E m \in Meters : TurnOn(m) \/ TurnOff(m) \/ Remove(m) \/ FixSetup(m)
           \/ \E g \in Groups : ChangePrices(g)
           \/ Confirm
    PROVE  TypeOK'
<1> DEFINE Rest ==
        /\ world' \in [Meters -> Dashboards]
        /\ prices' \in [Groups -> Entries \cup {None}]
        /\ issue' \in [Meters -> Data \cup {None}]
        /\ setup' \subseteq Meters /\ unknown' \subseteq Meters
        /\ flow' \in [meter : Meters, data : Data, done : BOOLEAN] \cup {None}
        /\ events' \in 0..MaxEvents
<1>q. ASSUME NEW meters, NEW where \in {"absent", "off", "loading"}, Place(meters, where), Rest
      PROVE  TypeOK'
  BY <1>q, PlaceTyped DEF TypeOK, On
<1> HIDE DEF Rest
<1>e. ASSUME Unasked PROVE events' \in 0..MaxEvents
  BY <1>e, IssuesAssumption DEF TypeOK, Unasked
<1>1. ASSUME NEW m \in Meters, TurnOn(m) PROVE TypeOK'
  <2>1. Place({m}, "loading") /\ Rest
    BY <1>1 DEF TurnOn, TypeOK, Rest, issueVars
  <2> QED
    BY <2>1, <1>q
<1>2. ASSUME NEW m \in Meters, TurnOff(m) PROVE TypeOK'
  <2>1. Place({m}, "off") /\ Rest
    BY <1>2, <1>e DEF TurnOff, TypeOK, Rest, issueVars
  <2> QED
    BY <2>1, <1>q
<1>3. ASSUME NEW m \in Meters, Remove(m) PROVE TypeOK'
  <2>1. Place({m}, "absent") /\ Rest
    BY <1>3, <1>e DEF Remove, TypeOK, Rest
  <2> QED
    BY <2>1, <1>q
<1>4. ASSUME NEW g \in Groups, ChangePrices(g) PROVE TypeOK'
  <2>1. PICK entry \in Entries \cup {None} : SetPrices(g, entry)
    BY <1>4 DEF ChangePrices
  <2>2. Rest
    BY <1>4, <2>1, <1>e, SetPricesTyped DEF ChangePrices, TypeOK, Rest, issueVars
  <2> QED
    BY <2>1, <2>2, <1>q, SetPricesTyped
<1>5. CASE Confirm
  <2>1. flow \in [meter : Meters, data : Data, done : BOOLEAN]
    BY <1>5 DEF Confirm, TypeOK
  <2>2. flow.data.group \in Groups /\ flow.data.value \in Values
    BY <2>1 DEF Data
  <2>3. [value |-> flow.data.value, loaded |-> TRUE] \in Entries
    BY <2>2 DEF Entries
  <2>4. /\ prices' \in [Groups -> Entries \cup {None}]
        /\ Place(MetersInTariff(flow.data.group), "loading")
    BY <1>5, <2>2, <2>3, SetPricesTyped DEF Confirm
  <2>5. flow' \in [meter : Meters, data : Data, done : BOOLEAN]
    BY <1>5, <2>1 DEF Confirm
  <2>6. Rest
    BY <1>5, <2>4, <2>5 DEF Confirm, TypeOK, Rest, issueVars
  <2> QED
    BY <2>4, <2>6, <1>q
<1>6. ASSUME NEW m \in Meters, FixSetup(m) PROVE TypeOK'
  <2>1. CASE \E h \in Groups, v \in Values : SetPrices(h, [value |-> v, loaded |-> TRUE]) /\ UNCHANGED events
    <3>1. PICK h \in Groups, v \in Values : SetPrices(h, [value |-> v, loaded |-> TRUE]) /\ UNCHANGED events
      BY <2>1
    <3>2. [value |-> v, loaded |-> TRUE] \in Entries
      BY DEF Entries
    <3>3. /\ prices' \in [Groups -> Entries \cup {None}]
          /\ Place(MetersInTariff(h), "loading")
      BY <3>1, <3>2, SetPricesTyped
    <3>4. Rest
      BY <1>6, <3>1, <3>3 DEF FixSetup, TypeOK, Rest
    <3> QED
      BY <3>3, <3>4, <1>q
  <2>2. CASE Unasked /\ UNCHANGED <<meterVars, prices>>
    <3>1. events' \in 0..MaxEvents
      BY <2>2, <1>e
    <3> QED
      BY <1>6, <2>2, <3>1 DEF FixSetup, TypeOK, meterVars, On
  <2> QED
    BY <1>6, <2>1, <2>2 DEF FixSetup
<1> QED
  BY <1>1, <1>2, <1>3, <1>4, <1>5, <1>6

LEMMA RefreshTyped ==
    ASSUME TypeOK, NEW m \in Meters, Refresh(m)
    PROVE  TypeOK'
<1>1. CASE Dashboard(m)
  <2>1. world[m] \in Dashboards /\ world[m] # None
    BY IssuesAssumption DEF TypeOK, Dashboards
  <2>2. dash' = [dash EXCEPT ![m] = world[m]] /\ dash' \in [Meters -> Dashboards \cup {None}]
    BY <1>1, <2>1 DEF Dashboard, TypeOK
  <2>3. /\ phase' \in [Meters -> Phases]
        /\ \A n \in Meters : On(n) <=> On(n)'
    BY <1>1 DEF Dashboard, TypeOK, On, Phases
  <2>4. /\ step' = [step EXCEPT ![m] = "detect"] /\ step' \in [Meters -> Steps]
        /\ \A n \in Meters : step'[n] # "idle" => On(n)'
    BY <1>1, <2>3 DEF Dashboard, TypeOK, Steps
  <2>5. \A n \in Meters : n # m => phase'[n] = phase[n]
    BY <1>1 DEF Dashboard, TypeOK
  <2>6. \A n \in Meters :
            step'[n] # "idle" \/ phase'[n] \in {"first", "up"} => dash'[n] # None
    BY <2>1, <2>2, <2>4, <2>5 DEF TypeOK
  <2> QED
    BY <1>1, <2>2, <2>3, <2>4, <2>6 DEF Dashboard, TypeOK, issueVars
<1>2. CASE Detected(m)
  <2>1. dash[m] # None
    BY <1>2 DEF Detected, TypeOK
  <2>2. Raised(m) \in Data \cup {None}
    BY <2>1, RaisedTyped
  <2>3. issue' \in [Meters -> Data \cup {None}]
    BY <1>2, <2>2 DEF Detected, UpdateInstallationIssues, TypeOK
  <2>4. setup' \subseteq Meters
    BY <1>2 DEF Detected, TypeOK
  <2>5. /\ step' \in [Meters -> Steps]
        /\ \A n \in Meters : step'[n] # "idle" => step[n] # "idle"
    BY <1>2 DEF Detected, TypeOK, Steps
  <2> QED
    BY <1>2, <2>3, <2>4, <2>5 DEF Detected, TypeOK, On
<1>3. CASE AskedSupport(m)
  BY <1>3 DEF AskedSupport, TypeOK, On, Steps
<1>4. CASE UpdateIssues(m)
  BY <1>4 DEF UpdateIssues, TypeOK, On, Phases, Steps
<1> QED
  BY <1>1, <1>2, <1>3, <1>4 DEF Refresh

LEMMA OtherStepsTyped ==
    ASSUME TypeOK,
           (\E m \in Meters : ChangeDashboard(m) \/ OpenFix(m)) \/ Abort \/ Fixed
    PROVE  TypeOK'
<1>1. ASSUME NEW m \in Meters, ChangeDashboard(m) PROVE TypeOK'
  <2>1. events' \in 0..MaxEvents
    BY <1>1, IssuesAssumption DEF ChangeDashboard, TypeOK, Unasked
  <2> QED
    BY <1>1, <2>1 DEF ChangeDashboard, TypeOK, On, meterVars, issueVars
<1>2. ASSUME NEW m \in Meters, OpenFix(m) PROVE TypeOK'
  BY <1>2 DEF OpenFix, TypeOK, On, meterVars, issueVars
<1>3. CASE Abort
  BY <1>3 DEF Abort, TypeOK, On, meterVars, issueVars
<1>4. CASE Fixed
  BY <1>4 DEF Fixed, TypeOK, On, meterVars
<1> QED
  BY <1>1, <1>2, <1>3, <1>4

LEMMA NextTyped == TypeOK /\ [Next]_vars => TypeOK'
<1> SUFFICES ASSUME TypeOK, [Next]_vars PROVE TypeOK'
  OBVIOUS
<1>1. CASE UNCHANGED vars
  BY <1>1 DEF vars, meterVars, issueVars, TypeOK, On
<1>2. CASE Next
  BY <1>2, EntryStepsTyped, RefreshTyped, OtherStepsTyped DEF Next
<1> QED
  BY <1>1, <1>2

(* Every variable keeps its type, and no refresh goes on for a meter that   *)
(* is not enabled or has no dashboard data (coordinator.py:209-251).        *)
THEOREM IssuesTyped == Spec => []TypeOK
  BY InitTyped, NextTyped, PTL DEF Spec

-----------------------------------------------------------------------------
(* Meters that share a group. *)

LEMMA InitShared == Init => NoneShared
  BY DEF Init, NoneShared, Judged

(* What judges no meter anew and raises no issue keeps NoneShared.          *)
LEMMA NoneJudgedAnew ==
    ASSUME NoneShared,
           \A m \in Meters : Judged(m)' => Judged(m) /\ dash'[m] = dash[m],
           \A m \in Meters : issue'[m] \in {issue[m], None}
    PROVE  NoneShared'
  BY DEF NoneShared

LEMMA PlaceUnjudges ==
    ASSUME TypeOK, NEW meters, NEW where \in {"absent", "off", "loading"}, Place(meters, where)
    PROVE  \A m \in Meters : Judged(m)' => Judged(m) /\ dash'[m] = dash[m]
  BY DEF TypeOK, Place, Judged

(* The steps other than a refresh's raise no issue and end some.            *)
LEMMA OtherStepsShared ==
    ASSUME TypeOK, NoneShared,
           \/ \E m \in Meters :
                  TurnOn(m) \/ TurnOff(m) \/ Remove(m) \/ FixSetup(m) \/ ChangeDashboard(m) \/ OpenFix(m)
           \/ \E g \in Groups : ChangePrices(g)
           \/ Confirm \/ Abort \/ Fixed
    PROVE  NoneShared'
<1>p. ASSUME NEW meters, NEW where \in {"absent", "off", "loading"}, Place(meters, where),
             \A m \in Meters : issue'[m] \in {issue[m], None}
      PROVE  NoneShared'
  BY <1>p, PlaceUnjudges, NoneJudgedAnew
<1>u. ASSUME UNCHANGED meterVars, \A m \in Meters : issue'[m] \in {issue[m], None}
      PROVE  NoneShared'
  BY <1>u, NoneJudgedAnew DEF meterVars, Judged
<1>1. ASSUME NEW m \in Meters, TurnOn(m) PROVE NoneShared'
  BY <1>1, <1>p DEF TurnOn, issueVars
<1>2. ASSUME NEW m \in Meters, TurnOff(m) PROVE NoneShared'
  BY <1>2, <1>p DEF TurnOff, issueVars
<1>3. ASSUME NEW m \in Meters, Remove(m) PROVE NoneShared'
  <2>1. \A n \in Meters : issue'[n] \in {issue[n], None}
    BY <1>3 DEF Remove, TypeOK
  <2> QED
    BY <1>3, <2>1, <1>p DEF Remove
<1>4. ASSUME NEW m \in Meters, FixSetup(m) PROVE NoneShared'
  <2>1. CASE UNCHANGED meterVars
    BY <1>4, <2>1, <1>u DEF FixSetup
  <2>2. CASE \E g \in Groups : Place(MetersInTariff(g), "loading")
    BY <1>4, <2>2, <1>p DEF FixSetup
  <2> QED
    BY <1>4, <2>1, <2>2 DEF FixSetup, SetPrices
<1>5. ASSUME NEW m \in Meters, ChangeDashboard(m) PROVE NoneShared'
  BY <1>5, <1>u DEF ChangeDashboard, issueVars
<1>6. ASSUME NEW m \in Meters, OpenFix(m) PROVE NoneShared'
  BY <1>6, <1>u DEF OpenFix, issueVars
<1>7. ASSUME NEW g \in Groups, ChangePrices(g) PROVE NoneShared'
  BY <1>7, <1>p DEF ChangePrices, SetPrices, issueVars
<1>8. CASE Confirm
  BY <1>8, <1>p DEF Confirm, SetPrices, issueVars
<1>9. CASE Abort
  BY <1>9, <1>u DEF Abort, issueVars
<1>10. CASE Fixed
  <2>1. \A n \in Meters : issue'[n] \in {issue[n], None}
    BY <1>10 DEF Fixed, TypeOK
  <2> QED
    BY <1>10, <2>1, <1>u DEF Fixed
<1> QED
  BY <1>1, <1>2, <1>3, <1>4, <1>5, <1>6, <1>7, <1>8, <1>9, <1>10

(* The meter judged now sees every other meter of its group that has been   *)
(* judged, and takes back the issues of them all.                           *)
LEMMA DetectedShared ==
    ASSUME TypeOK, NoneShared, NEW m \in Meters, Detected(m)
    PROVE  NoneShared'
<1> SUFFICES ASSUME NEW a \in Meters, NEW b \in Meters, a # b, Judged(a)', Judged(b)',
                    dash'[a].group # None, dash'[a].group = dash'[b].group
             PROVE  issue'[a] = None
  BY DEF NoneShared
<1>1. dash' = dash /\ phase' = phase
  BY DEF Detected
<1>2. \A n \in Meters : n # m /\ Judged(n)' => Judged(n)
  BY <1>1 DEF Detected, Judged, TypeOK
<1>3. dash[a] # None /\ dash[b] # None
  BY <1>1 DEF Judged
<1>4. CASE a = m
  <2>1. b \in Sharing(m) /\ b # m
    BY <1>1, <1>3, <1>4 DEF Sharing, MetersInTariff
  <2>2. Raised(m) = None
    BY <2>1 DEF Raised
  <2> QED
    BY <1>4, <2>2 DEF Detected, UpdateInstallationIssues
<1>5. CASE b = m
  <2>1. a \in Sharing(m) /\ a # m
    BY <1>1, <1>3, <1>5 DEF Sharing, MetersInTariff
  <2> QED
    BY <2>1 DEF Detected, UpdateInstallationIssues
<1>6. CASE a # m /\ b # m
  <2>1. issue[a] = None
    BY <1>1, <1>2, <1>6 DEF NoneShared
  <2> QED
    BY <2>1, <1>6 DEF Detected, UpdateInstallationIssues
<1> QED
  BY <1>4, <1>5, <1>6

LEMMA RefreshShared ==
    ASSUME TypeOK, NoneShared, NEW m \in Meters, Refresh(m)
    PROVE  NoneShared'
<1>1. CASE Dashboard(m)
  <2>1. \A n \in Meters : Judged(n)' => Judged(n) /\ dash'[n] = dash[n]
    <3> SUFFICES ASSUME NEW n \in Meters, Judged(n)' PROVE Judged(n) /\ dash'[n] = dash[n]
      OBVIOUS
    <3>1. n # m
      BY <1>1 DEF Dashboard, Judged, TypeOK
    <3>2. dash'[n] = dash[n] /\ phase'[n] = phase[n] /\ step'[n] = step[n]
      BY <1>1, <3>1 DEF Dashboard, TypeOK
    <3> QED
      BY <3>2 DEF Judged
  <2> QED
    BY <1>1, <2>1, NoneJudgedAnew DEF Dashboard, issueVars
<1>2. CASE Detected(m)
  BY <1>2, DetectedShared
<1>3. CASE AskedSupport(m)
  <2>1. \A n \in Meters : Judged(n)' => Judged(n) /\ dash'[n] = dash[n]
    BY <1>3 DEF AskedSupport, Judged, TypeOK
  <2> QED
    BY <1>3, <2>1, NoneJudgedAnew DEF AskedSupport
<1>4. CASE UpdateIssues(m)
  <2>1. \A n \in Meters : Judged(n)' => Judged(n) /\ dash'[n] = dash[n]
    BY <1>4 DEF UpdateIssues, Judged, TypeOK
  <2> QED
    BY <1>4, <2>1, NoneJudgedAnew DEF UpdateIssues
<1> QED
  BY <1>1, <1>2, <1>3, <1>4 DEF Refresh

LEMMA NextShared == TypeOK /\ NoneShared /\ [Next]_vars => NoneShared'
<1> SUFFICES ASSUME TypeOK, NoneShared, [Next]_vars PROVE NoneShared'
  OBVIOUS
<1>1. CASE UNCHANGED vars
  BY <1>1, NoneJudgedAnew DEF vars, meterVars, issueVars, Judged
<1>2. CASE Next
  BY <1>2, OtherStepsShared, RefreshShared DEF Next
<1> QED
  BY <1>1, <1>2

(* "The two issues would undo each other.  Then nothing is raised, for any  *)
(* of them" (issues.py:212-216): holds for any number of meters that come   *)
(* to share a group in any order.                                           *)
THEOREM SharedMetersRaiseNothing == Spec => []SharedRaisesNone
<1>1. TypeOK /\ NoneShared => SharedRaisesNone
  BY DEF TypeOK, NoneShared, SharedRaisesNone, Judged
<1> QED
  BY <1>1, InitTyped, NextTyped, InitShared, NextShared, PTL DEF Spec
=============================================================================
