-------------------------- MODULE AccountLifecycle --------------------------
(***************************************************************************)
(* The meters of one Portal Odbiorcy Enea account share an EneaAccount: one *)
(* client, with one session, and one EneaNotifications (__init__.py).  This *)
(* module is about who creates, shares, replaces and drops that account     *)
(* while entries are added, set up, retried, reloaded, disabled, given new  *)
(* credentials (config_flow.py) and removed.                                *)
(*                                                                         *)
(* An entry is set up in two pieces: SetUp up to the await of the first     *)
(* refresh, and one of the actions that end it.  Unloading has two as well, *)
(* since the platforms are unloaded first.  Home Assistant's own part is    *)
(* external: the states of an entry, and that the session an entry's setup  *)
(* creates is closed with what that setup registered, when it fails or the  *)
(* entry unloads (the code finds it closed at __init__.py:94, and a request *)
(* on it fails as a RuntimeError, connector.py:73).                         *)
(***************************************************************************)
EXTENDS Integers, FiniteSets

CONSTANTS
    Entries,     \* config entries, one per meter
    Logins,      \* user names of accounts of the portal
    Passwords,   \* what a password may be
    Objects,     \* EneaAccount objects; one no longer in use is used again
    None,        \* no object, no login
    MaxEvents    \* bound: what the user, the portal or the network do unasked

ASSUME LifecycleAssumption ==
    /\ None \notin Objects \cup Logins \cup Entries
    /\ Passwords # {}
    /\ MaxEvents \in Nat

VARIABLES
    state,       \* where Home Assistant has each entry
    login,       \* CONF_USERNAME in the entry's data
    password,    \* CONF_PASSWORD in the entry's data
    holds,       \* the account the entry's coordinator was created with
    table,       \* hass.data[DOMAIN], account by login
    obj,         \* the fields of the account objects
    services,    \* the actions enea.refresh and enea.backfill are registered
    seen,        \* the logins whose messages have a store
    asked,       \* entries with a reauthentication flow waiting for the user
    portal,      \* the password the portal accepts for each login
    events       \* how much has happened unasked

entryVars == <<state, login, password, holds, asked>>
shared == <<table, obj, services, seen>>
vars == <<entryVars, shared, portal, events>>

(* The platforms are being unloaded, to reload, disable or remove an entry. *)
Unloads == {"reloading", "disabling", "deleting"}

States == {"absent", "not_loaded", "disabled", "setting_up", "loaded", "retry",
           "rejected", "failed_unload", "removing"} \cup Unloads

Loaded == {e \in Entries : state[e] = "loaded"}

(* Known to Home Assistant: async_entries lists these.  An entry is taken   *)
(* off the list before async_remove_entry runs.                             *)
Listed == {e \in Entries : state[e] \notin {"absent", "removing"}}

(* A session's requests succeed: it is open, and the portal knows its       *)
(* cookie or accepts the client's password.                                 *)
Works(o) == /\ obj[o].open
            /\ obj[o].logged \/ obj[o].password = portal[obj[o].login]
IsRejected(o) == obj[o].open /\ ~Works(o)

(* What is left of the objects: one no table, coordinator or callback       *)
(* refers to is gone.                                                       *)
APassword == CHOOSE p \in Passwords : TRUE
Gone == [login |-> None, password |-> APassword, maker |-> None,
         open |-> FALSE, logged |-> FALSE, watching |-> FALSE]

Kept(objects, accounts, holders) ==
    [o \in Objects |-> IF \/ objects[o].watching
                          \/ \E l \in Logins : accounts[l] = o
                          \/ \E e \in Entries : holders[e] = o
                       THEN objects[o] ELSE Gone]

Init ==
    /\ state = [e \in Entries |-> "absent"]
    /\ login = [e \in Entries |-> None]
    /\ portal = [l \in Logins |-> APassword]
    /\ password = [e \in Entries |-> APassword]
    /\ holds = [e \in Entries |-> None]
    /\ table = [l \in Logins |-> None]
    /\ obj = [o \in Objects |-> Gone]
    /\ services = FALSE /\ seen = {} /\ asked = {} /\ events = 0

Unasked == events < MaxEvents /\ events' = events + 1

-----------------------------------------------------------------------------
(* Entries and their data. *)

(* The config flow logs in with a client of its own and creates the entry.  *)
Add(e, l) ==
    /\ state[e] = "absent"
    /\ state' = [state EXCEPT ![e] = "not_loaded"]
    /\ login' = [login EXCEPT ![e] = l]
    /\ password' = [password EXCEPT ![e] = portal[l]]
    /\ UNCHANGED <<holds, asked, shared, portal, events>>

(* Home Assistant reloads e: unloads it if it is loaded, and sets it up.    *)
Reload(e) ==
    \/ state[e] = "loaded" /\ state' = [state EXCEPT ![e] = "reloading"]
    \/ state[e] \in {"retry", "rejected"} /\ state' = [state EXCEPT ![e] = "not_loaded"]
    \/ state[e] \in {"not_loaded", "disabled", "failed_unload"} /\ UNCHANGED state

(* _async_validate_and_update_credentials: the flow logs in first, changes  *)
(* this one entry and reloads it.  Asked for or not, and perhaps with       *)
(* another login.                                                           *)
UpdateCredentials(e, l) ==
    /\ e \in Listed /\ state[e] \notin {"setting_up"} \cup Unloads
    /\ login' = [login EXCEPT ![e] = l]
    /\ password' = [password EXCEPT ![e] = portal[l]]
    /\ asked' = asked \ {e}
    /\ Reload(e)
    /\ UNCHANGED <<holds, shared, portal>>

Reauthenticate(e) == e \in asked /\ UpdateCredentials(e, login[e]) /\ UNCHANGED events
Reconfigure(e) == \E l \in Logins : UpdateCredentials(e, l) /\ Unasked

(* The user changes the options, disables, enables or removes an entry.     *)
(* Only a loaded entry goes through async_unload_entry.                     *)
BeginUnload(e) ==
    /\ Unasked
    /\ state[e] = "loaded"
    /\ \E unload \in Unloads : state' = [state EXCEPT ![e] = unload]
    /\ UNCHANGED <<login, password, holds, asked, shared, portal>>

WithoutUnload(e) ==
    /\ Unasked
    /\ \/ /\ state[e] \in {"not_loaded", "retry", "rejected"}
          /\ state' = [state EXCEPT ![e] = "disabled"]
       \/ /\ state[e] \in {"not_loaded", "retry", "rejected", "disabled", "failed_unload"}
          /\ state' = [state EXCEPT ![e] = "removing"]
    /\ UNCHANGED <<login, password, holds, asked, shared, portal>>

Enable(e) ==
    /\ Unasked
    /\ state[e] = "disabled"
    /\ state' = [state EXCEPT ![e] = "not_loaded"]
    /\ UNCHANGED <<login, password, holds, asked, shared, portal>>

-----------------------------------------------------------------------------
(* async_setup_entry. *)

OldPassword(o, p) == o

(* EneaApiClient.update_credentials. *)
WithPassword(o, p) == IF o.password = p THEN o ELSE [o EXCEPT !.password = p, !.logged = FALSE]

NewAccount(e) == [login |-> login[e], password |-> password[e], maker |-> e,
                  open |-> TRUE, logged |-> FALSE, watching |-> TRUE]

(* An account whose session is open is shared; one whose session has been   *)
(* closed is replaced, and its notifications stop watching dismissals.      *)
Reuse(e, o) ==
    /\ obj' = [obj EXCEPT ![o] = WithPassword(@, password[e])]
    /\ holds' = [holds EXCEPT ![e] = o]
    /\ UNCHANGED table

ReplaceUnseen(e, old, new) ==
    /\ table' = [table EXCEPT ![login[e]] = new]
    /\ obj' = Kept([obj EXCEPT ![new] = NewAccount(e)], table', holds)
    /\ UNCHANGED holds

ReplaceOnly(e, old, new) ==
    /\ holds' = [holds EXCEPT ![e] = new]
    /\ table' = [table EXCEPT ![login[e]] = new]
    /\ obj' = Kept([obj EXCEPT ![new] = NewAccount(e)], table', holds')

Replace(e, old, new) ==
    /\ holds' = [holds EXCEPT ![e] = new]
    /\ table' = [table EXCEPT ![login[e]] = new]
    /\ LET unwatched == [o \in Objects |->
               IF o = old THEN [obj[o] EXCEPT !.watching = FALSE] ELSE obj[o]]
       IN obj' = Kept([unwatched EXCEPT ![new] = NewAccount(e)], table', holds')

SetUp(e) ==
    /\ state[e] \in {"not_loaded", "retry"}
    /\ LET old == table[login[e]]
       IN IF old # None /\ obj[old].open
          THEN Reuse(e, old)
          ELSE /\ \E o \in Objects : obj[o] = Gone
               /\ Replace(e, old, CHOOSE o \in Objects : obj[o] = Gone)
    /\ state' = [state EXCEPT ![e] = "setting_up"]
    /\ UNCHANGED <<login, password, asked, services, seen, portal, events>>

(* The session an entry's setup created goes with that setup.               *)
CloseSessions(e, objects) ==
    [o \in Objects |-> IF objects[o].maker = e THEN [objects[o] EXCEPT !.open = FALSE, !.logged = FALSE]
                       ELSE objects[o]]

(* A refresh that works logs in if need be and saves the messages' store.   *)
Refreshed(e) ==
    /\ Works(holds[e])
    /\ obj' = [obj EXCEPT ![holds[e]].logged = TRUE]
    /\ seen' = seen \cup {obj[holds[e]].login}

SetUpDone(e) ==
    /\ state[e] = "setting_up"
    /\ Refreshed(e)
    /\ services' = TRUE
    /\ state' = [state EXCEPT ![e] = "loaded"]
    /\ UNCHANGED <<login, password, holds, asked, table, portal, events>>

(* The first refresh fails: the portal rejects the password, or it cannot   *)
(* be reached, for one because the session is closed.  The account stays.   *)
SetUpEnds(e, outcome) ==
    /\ state[e] = "setting_up"
    /\ state' = [state EXCEPT ![e] = outcome]
    /\ holds' = [holds EXCEPT ![e] = None]
    /\ obj' = Kept(CloseSessions(e, obj), table, holds')
    /\ UNCHANGED <<login, password, table, services, seen, portal>>

SetUpRejected(e) ==
    /\ SetUpEnds(e, "rejected")
    /\ IsRejected(holds[e])
    /\ asked' = asked \cup {e}
    /\ UNCHANGED events

SetUpOnClosed(e) ==
    /\ SetUpEnds(e, "retry")
    /\ ~obj[holds[e]].open
    /\ UNCHANGED <<asked, events>>

SetUpFails(e) == SetUpEnds(e, "retry") /\ Unasked /\ UNCHANGED asked

(* A later refresh of a loaded entry; one that cannot reach the portal      *)
(* changes nothing here.                                                    *)
Refresh(e) ==
    /\ state[e] = "loaded"
    /\ \/ Refreshed(e) /\ UNCHANGED asked
       \/ IsRejected(holds[e]) /\ asked' = asked \cup {e} /\ UNCHANGED <<obj, seen>>
    /\ UNCHANGED <<state, login, password, holds, table, services, portal, events>>

-----------------------------------------------------------------------------
(* async_unload_entry and async_remove_entry. *)

(* The other loaded entries, and those of them with e's login.              *)
Remaining(e) == Loaded \ {e}
IsShared(e) == \E x \in Remaining(e) : login[x] = login[e]

(* The platforms are unloaded: the account is dropped unless a loaded entry *)
(* shares it, the actions unless one remains, and e's session is closed.    *)
FinishUnload(e) ==
    /\ state[e] \in Unloads
    /\ holds' = [holds EXCEPT ![e] = None]
    /\ table' = [table EXCEPT ![login[e]] = IF IsShared(e) THEN @ ELSE None]
    /\ LET unwatched == [o \in Objects |->
               IF o = table[login[e]] /\ ~IsShared(e) THEN [obj[o] EXCEPT !.watching = FALSE] ELSE obj[o]]
       IN obj' = Kept(CloseSessions(e, unwatched), table', holds')
    /\ services' = (services /\ Remaining(e) # {})
    /\ state' = [state EXCEPT ![e] = CASE @ = "reloading" -> "not_loaded"
                                       [] @ = "disabling" -> "disabled"
                                       [] @ = "deleting" -> "removing"]
    /\ UNCHANGED <<login, password, asked, seen, portal, events>>

(* A platform refuses to unload: nothing is dropped, and Home Assistant     *)
(* leaves the entry alone until it is removed or restarted.                 *)
UnloadFails(e) ==
    /\ Unasked
    /\ state[e] \in Unloads
    /\ state' = [state EXCEPT ![e] = IF @ = "deleting" THEN "removing" ELSE "failed_unload"]
    /\ UNCHANGED <<login, password, holds, asked, shared, portal>>

(* The messages seen go with the last entry of the login, in any state.     *)
Remove(e) ==
    /\ state[e] = "removing"
    /\ seen' = IF \E x \in Listed : login[x] = login[e] THEN seen ELSE seen \ {login[e]}
    /\ state' = [state EXCEPT ![e] = "absent"]
    /\ login' = [login EXCEPT ![e] = None]
    /\ holds' = [holds EXCEPT ![e] = None]
    /\ obj' = Kept(obj, table, holds')
    /\ asked' = asked \ {e}
    /\ UNCHANGED <<password, table, services, portal, events>>

-----------------------------------------------------------------------------
(* The portal. *)

ChangePassword(l) ==
    /\ Unasked
    /\ \E p \in Passwords \ {portal[l]} : portal' = [portal EXCEPT ![l] = p]
    /\ UNCHANGED <<entryVars, shared>>

(* The portal forgets its sessions.                                         *)
Expire ==
    /\ Unasked
    /\ obj' = [o \in Objects |-> [obj[o] EXCEPT !.logged = FALSE]]
    /\ UNCHANGED <<entryVars, table, services, seen, portal>>

-----------------------------------------------------------------------------
FromEntry(e) ==
    \/ \E l \in Logins : Add(e, l)
    \/ Reauthenticate(e) \/ Reconfigure(e) \/ BeginUnload(e) \/ WithoutUnload(e) \/ Enable(e)
    \/ SetUp(e) \/ SetUpDone(e) \/ SetUpRejected(e) \/ SetUpOnClosed(e) \/ SetUpFails(e)
    \/ Refresh(e) \/ FinishUnload(e) \/ UnloadFails(e) \/ Remove(e)

Next == (\E e \in Entries : FromEntry(e)) \/ (\E l \in Logins : ChangePassword(l)) \/ Expire

Spec == Init /\ [][Next]_vars

(* Home Assistant sets entries up and tries again, refreshes come from a    *)
(* timer and are answered, and the user answers when asked.  Two entries    *)
(* set up at once may end each other's attempts, but neither is always the  *)
(* first to get the portal's answer.                                        *)
Fairness ==
    \A e \in Entries :
        /\ WF_vars(SetUp(e)) /\ SF_vars(SetUpDone(e)) /\ SF_vars(SetUpRejected(e)) /\ WF_vars(SetUpOnClosed(e))
        /\ WF_vars(Refresh(e)) /\ WF_vars(FinishUnload(e)) /\ WF_vars(Remove(e))
        /\ WF_vars(Reauthenticate(e))

LiveSpec == Spec /\ Fairness

-----------------------------------------------------------------------------
ObjectType == [login : Logins \cup {None}, password : Passwords, maker : Entries \cup {None},
               open : BOOLEAN, logged : BOOLEAN, watching : BOOLEAN]

(* Types, and what is known while an entry has a coordinator or a login.    *)
TypeOK ==
    /\ state \in [Entries -> States]
    /\ login \in [Entries -> Logins \cup {None}]
    /\ password \in [Entries -> Passwords]
    /\ holds \in [Entries -> Objects \cup {None}]
    /\ table \in [Logins -> Objects \cup {None}]
    /\ obj \in [Objects -> ObjectType]
    /\ services \in BOOLEAN /\ seen \subseteq Logins /\ asked \subseteq Entries
    /\ portal \in [Logins -> Passwords] /\ events \in 0..MaxEvents
    /\ \A e \in Entries : /\ state[e] = "absent" <=> login[e] = None
                          /\ state[e] \in {"setting_up", "loaded"} => holds[e] # None

(* Exactly the accounts of the table watch dismissals, one for each login:  *)
(* two would both mark a message read and save over each other, none would  *)
(* leave a dismissal unsent (__init__.py:97-102, 195-199).                  *)
OneWatcher ==
    /\ \A o \in Objects : obj[o].watching => obj[o].login # None /\ table[obj[o].login] = o
    /\ \A l \in Logins : table[l] # None => obj[table[l]].watching

(* The messages seen are forgotten only when no entry of the login is left, *)
(* disabled and failed ones included (__init__.py:209-223).                 *)
MessagesKept ==
    [][\A l \in seen \ seen' : \A e \in Entries : state[e] \in {"absent", "removing"} \/ login[e] # l]_vars

(* Each entry keeps a password of its own and the client has one: setting   *)
(* up an entry with an old password takes the new one from the others       *)
(* (__init__.py:94-95).  Once the portal and the user have changed their    *)
(* minds for the last time, answering the questions comes to an end, with   *)
(* every client that still has a session accepted.                          *)
PasswordsSettle ==
    <>[](asked = {} /\ \A e \in Loaded : obj[holds[e]].open => Works(holds[e]))

(* "Reuse existing client for accounts with multiple meters (shared         *)
(* session/cookie)" (__init__.py:90): a loaded meter uses the account in    *)
(* the table, and its session is open.  Does not hold.                      *)
SharedAccount ==
    \A e \in Loaded : holds[e] = table[login[e]] /\ obj[holds[e]].open
=============================================================================
