---------------------------- MODULE RepairIssues ----------------------------
(***************************************************************************)
(* The repair issues of the meters (issues.py), the flows that fix them     *)
(* (repairs.py), and the enea_prices entries they are about.                *)
(*                                                                         *)
(* One setting of an enea_prices entry stands for the three a meter is      *)
(* compared with (phases, billing months, bracket of the yearly             *)
(* consumption), which do not touch each other.  It is taken for the        *)
(* phases, known from the meter's model: an unknown model shows nothing and *)
(* has an issue of its own.  A refresh is cut at its awaits: the dashboard, *)
(* the detection, the question whether enea_prices prices the group, and    *)
(* what is left of it.  External are enea_prices, which reloads the meters  *)
(* of a group when its entry changes, and Home Assistant, whose unload      *)
(* cancels a refresh and whose Repairs deletes the issue of a flow that is  *)
(* done.                                                                    *)
(***************************************************************************)
EXTENDS Integers

CONSTANTS
    Meters,      \* config entries of Enea
    Groups,      \* tariff groups
    Supported,   \* those enea_prices, installed, has in its table
    Values,      \* of the setting
    None,        \* no tariff group, an unknown model, no entry, no issue
    MaxEvents    \* bound: what the user and the portal change unasked

ASSUME IssuesAssumption ==
    /\ Supported \subseteq Groups
    /\ None \notin Groups \cup Values
    /\ None \notin [group : Groups \cup {None}, model : Values \cup {None}]
    /\ MaxEvents \in Nat

VARIABLES
    phase,       \* whether each meter is loaded, and has been through a refresh since
    step,        \* the await its refresh has reached
    dash,        \* its coordinator's dashboard data
    world,       \* what the portal's dashboard says now
    prices,      \* the enea_prices entry of each group
    issue,       \* the mismatch issue of each meter, with the data its fix takes
    setup,       \* the meters asked to set enea_prices up
    unknown,     \* the meters with an issue about their model
    flow,        \* the fix flow the user has open
    events       \* how much has happened unasked

meterVars == <<phase, step, dash>>
issueVars == <<issue, setup, unknown>>
vars == <<meterVars, issueVars, world, prices, flow, events>>

Dashboards == [group : Groups \cup {None}, model : Values \cup {None}]
Entries == [value : Values, loaded : BOOLEAN]
Phases == {"absent", "off", "loading", "first", "up"}
Steps == {"idle", "detect", "support", "model"}

(* Enabled, whether its first refresh is through or not.                    *)
On(m) == phase[m] \in {"loading", "first", "up"}

Init ==
    /\ phase = [m \in Meters |-> "absent"]
    /\ step = [m \in Meters |-> "idle"]
    /\ dash = [m \in Meters |-> None]
    /\ world \in [Meters -> {d \in Dashboards : d.model # None}]
    /\ prices \in [Groups -> {e \in Entries : e.loaded} \cup {None}]
    /\ issue = [m \in Meters |-> None]
    /\ setup = {} /\ unknown = {} /\ flow = None /\ events = 0

Unasked == events < MaxEvents /\ events' = events + 1

-----------------------------------------------------------------------------
(* Config entries of Enea. *)

(* Home Assistant sets an entry up, or drops its coordinator, in the middle *)
(* of a refresh or not.                                                     *)
PlaceOnly(meters, where) ==
    /\ phase' = [m \in Meters |-> IF m \in meters THEN where ELSE phase[m]]
    /\ dash' = [m \in Meters |-> IF m \in meters THEN None ELSE dash[m]]
    /\ UNCHANGED step

Place(meters, where) ==
    /\ phase' = [m \in Meters |-> IF m \in meters THEN where ELSE phase[m]]
    /\ step' = [m \in Meters |-> IF m \in meters THEN "idle" ELSE step[m]]
    /\ dash' = [m \in Meters |-> IF m \in meters THEN None ELSE dash[m]]

TurnOn(m) ==
    /\ phase[m] \in {"absent", "off"}
    /\ Place({m}, "loading")
    /\ UNCHANGED <<issueVars, world, prices, flow, events>>

TurnOff(m) ==
    /\ Unasked
    /\ On(m)
    /\ Place({m}, "off")
    /\ UNCHANGED <<issueVars, world, prices, flow>>

(* async_remove_entry deletes the meter's issues.                           *)
Remove(m) ==
    /\ Unasked
    /\ phase[m] # "absent"
    /\ Place({m}, "absent")
    /\ issue' = [issue EXCEPT ![m] = None]
    /\ setup' = setup \ {m}
    /\ unknown' = unknown \ {m}
    /\ UNCHANGED <<world, prices, flow>>

(* The meter or its agreement is replaced.                                  *)
ChangeDashboard(m) ==
    /\ Unasked
    /\ \E d \in Dashboards \ {world[m]} : world' = [world EXCEPT ![m] = d]
    /\ UNCHANGED <<meterVars, issueVars, prices, flow>>

-----------------------------------------------------------------------------
(* Entries of enea_prices: found whether they are loaded or not, but with   *)
(* settings to compare only when they are.                                  *)

FindEntry(g) == IF g = None THEN None ELSE prices[g]
FindConfig(g) == IF FindEntry(g) # None /\ prices[g].loaded THEN prices[g] ELSE None

(* The meters whose coordinator has reported a group.                       *)
MetersInTariff(g) == {m \in Meters : dash[m] # None /\ dash[m].group = g}

SetPrices(g, entry) ==
    /\ prices' = [prices EXCEPT ![g] = entry]
    /\ Place(MetersInTariff(g), "loading")

(* The user adds, changes or removes the entry, or it fails to load.        *)
ChangePrices(g) ==
    /\ Unasked
    /\ \E entry \in Entries \cup {None} :
           entry # prices[g] /\ SetPrices(g, entry)
    /\ UNCHANGED <<issueVars, world, flow>>

-----------------------------------------------------------------------------
(* A refresh of a meter: EneaUpdateCoordinator._async_update_data. *)

Dashboard(m) ==
    /\ On(m) /\ step[m] = "idle"
    /\ dash' = [dash EXCEPT ![m] = world[m]]
    /\ phase' = [phase EXCEPT ![m] = IF @ = "loading" THEN "first" ELSE @]
    /\ step' = [step EXCEPT ![m] = "detect"]
    /\ UNCHANGED <<issueVars, world, prices, flow, events>>

Sharing(m) == IF dash[m].group = None THEN {} ELSE MetersInTariff(dash[m].group)

(* What fixing the meter's mismatch would write, and where.                 *)
Mismatch(m) ==
    LET cfg == FindConfig(dash[m].group)
    IN IF cfg = None \/ dash[m].model \in {None, cfg.value} THEN None
       ELSE [group |-> dash[m].group, value |-> dash[m].model]

Raised(m) == IF Sharing(m) \subseteq {m} THEN Mismatch(m) ELSE None

UpdateOwnIssue(m) == issue' = [issue EXCEPT ![m] = Raised(m)]

ReturnWhenShared(m) == IF Sharing(m) \subseteq {m} THEN UpdateOwnIssue(m) ELSE UNCHANGED issue

(* async_update_installation_issues: meters that share an entry have no     *)
(* mismatch issues, none of them.                                           *)
UpdateInstallationIssues(m) ==
    issue' = [n \in Meters |-> IF n = m THEN Raised(m)
                               ELSE IF n \in Sharing(m) THEN None ELSE issue[n]]

(* Then async_update_prices_setup_issue, up to its await if it has one.     *)
Detected(m) ==
    /\ step[m] = "detect"
    /\ UpdateInstallationIssues(m)
    /\ LET found == FindEntry(dash[m].group) # None
       IN /\ setup' = IF found THEN setup \ {m} ELSE setup
          /\ step' = [step EXCEPT ![m] = IF found THEN "model" ELSE "support"]
    /\ UNCHANGED <<phase, dash, unknown, world, prices, flow, events>>

(* After async_prices_supports. *)
AskedSupport(m) ==
    /\ step[m] = "support"
    /\ setup' = IF dash[m].group \in Supported THEN setup \cup {m} ELSE setup \ {m}
    /\ step' = [step EXCEPT ![m] = "model"]
    /\ UNCHANGED <<phase, dash, issue, unknown, world, prices, flow, events>>

(* async_update_issues, at the end of the refresh.                          *)
UpdateIssues(m) ==
    /\ step[m] = "model"
    /\ unknown' = IF dash[m].model = None THEN unknown \cup {m} ELSE unknown \ {m}
    /\ step' = [step EXCEPT ![m] = "idle"]
    /\ phase' = [phase EXCEPT ![m] = "up"]
    /\ UNCHANGED <<dash, issue, setup, world, prices, flow, events>>

-----------------------------------------------------------------------------
(* The flows of repairs.py. *)

(* A user who takes the time to let the meters come up before opening a     *)
(* fix; confirming it may take longer.                                      *)
Settled == \A m \in Meters : phase[m] \notin {"loading", "first"}

OpenFix(m) ==
    /\ Settled
    /\ flow = None /\ issue[m] # None
    /\ flow' = [meter |-> m, data |-> issue[m], done |-> FALSE]
    /\ UNCHANGED <<meterVars, issueVars, world, prices, events>>

(* InstallationRepairFlow.async_step_confirm, up to the reload it awaits.   *)
Confirm ==
    /\ flow # None /\ ~flow.done
    /\ FindEntry(flow.data.group) # None
    /\ SetPrices(flow.data.group, [value |-> flow.data.value, loaded |-> TRUE])
    /\ flow' = [flow EXCEPT !.done = TRUE]
    /\ UNCHANGED <<issueVars, world, events>>

Abort ==
    /\ flow # None /\ ~flow.done
    /\ FindEntry(flow.data.group) = None
    /\ flow' = None
    /\ UNCHANGED <<meterVars, issueVars, world, prices, events>>

Fixed ==
    /\ flow # None /\ flow.done
    /\ issue' = [issue EXCEPT ![flow.meter] = None]
    /\ flow' = None
    /\ UNCHANGED <<meterVars, setup, unknown, world, prices, events>>

(* PricesSetupRepairFlow: the issue goes, and the config flow of            *)
(* enea_prices adds an entry or is left.                                    *)
FixSetup(m) ==
    /\ m \in setup
    /\ setup' = setup \ {m}
    /\ \/ /\ \E g \in Groups, v \in Values :
                 prices[g] = None /\ SetPrices(g, [value |-> v, loaded |-> TRUE])
          /\ UNCHANGED events
       \/ Unasked /\ UNCHANGED <<meterVars, prices>>
    /\ UNCHANGED <<issue, unknown, world, flow>>

-----------------------------------------------------------------------------
Refresh(m) == Dashboard(m) \/ Detected(m) \/ AskedSupport(m) \/ UpdateIssues(m)

Next ==
    \/ \E m \in Meters :
           \/ TurnOn(m) \/ TurnOff(m) \/ Remove(m) \/ ChangeDashboard(m)
           \/ Refresh(m) \/ OpenFix(m) \/ FixSetup(m)
    \/ \E g \in Groups : ChangePrices(g)
    \/ Confirm \/ Abort \/ Fixed

(* Refreshes come from a timer and their awaits end; a flow that has        *)
(* written is finished.  The user need not do anything.                     *)
Spec == Init /\ [][Next]_vars
LiveSpec == Spec /\ (\A m \in Meters : WF_vars(Refresh(m))) /\ WF_vars(Fixed)

-----------------------------------------------------------------------------
Data == [group : Groups, value : Values]

(* Types, and what is known while a refresh is under way.                   *)
TypeOK ==
    /\ phase \in [Meters -> Phases] /\ step \in [Meters -> Steps]
    /\ dash \in [Meters -> Dashboards \cup {None}]
    /\ world \in [Meters -> Dashboards]
    /\ prices \in [Groups -> Entries \cup {None}]
    /\ issue \in [Meters -> Data \cup {None}]
    /\ setup \subseteq Meters /\ unknown \subseteq Meters
    /\ flow \in [meter : Meters, data : Data, done : BOOLEAN] \cup {None}
    /\ events \in 0..MaxEvents
    /\ \A m \in Meters : /\ step[m] # "idle" => On(m)
                         /\ step[m] # "idle" \/ phase[m] \in {"first", "up"} => dash[m] # None

(* "The two issues would undo each other.  Then nothing is raised, for any  *)
(* of them" (issues.py:212-216): of the meters between two refreshes none   *)
(* that shares its group with another has a mismatch issue, in whatever     *)
(* order they came to share it.                                             *)
SharedRaisesNone ==
    \A m, n \in Meters :
        /\ m # n /\ phase[m] = "up" /\ phase[n] = "up"
        /\ step[m] = "idle" /\ step[n] = "idle"
        /\ dash[m].group # None /\ dash[m].group = dash[n].group
        => issue[m] = None

(* What should be open for an enabled meter, as things are now.             *)
Alone(m) == \A n \in Meters \ {m} : On(n) => world[n].group # world[m].group
Due(m) ==
    LET cfg == FindConfig(world[m].group)
    IN IF Alone(m) /\ cfg # None /\ world[m].model \notin {None, cfg.value}
       THEN [group |-> world[m].group, value |-> world[m].model] ELSE None

(* "Each issue is created while its condition holds and deleted as soon as  *)
(* it does not" (issues.py:3): when nothing changes any more, the issues of *)
(* every enabled meter become right for good, and a removed meter has none. *)
IssuesConverge ==
    <>[](\A m \in Meters :
            /\ On(m) => /\ issue[m] = Due(m)
                        /\ m \in setup <=> world[m].group \in Supported /\ FindEntry(world[m].group) = None
                        /\ m \in unknown <=> world[m].model = None
            /\ phase[m] = "absent" => issue[m] = None /\ m \notin setup \cup unknown)

(* Confirmed fixes come to an end: two meters never make the user set one   *)
(* entry to and fro for ever (issues.py:212-216, repairs.py:33-45).         *)
FixesSettle == <>[][prices' = prices]_prices
=============================================================================
