----------------------------- MODULE ApiSession -----------------------------
(***************************************************************************)
(* The portal client of one account (connector.py): EneaApiClient shares    *)
(* one login between all the requests of the account's meters.  A request   *)
(* logs in when the client has no session, and a request the portal refuses *)
(* (401 or 403) logs in again under a lock and is sent once more.           *)
(*                                                                         *)
(* A login stores a new cookie and raises _auth_gen in one step, so the     *)
(* number in gen also names the session of the cookie the client holds.     *)
(* A response of the portal and its arrival are one step.                   *)
(***************************************************************************)
EXTENDS Integers

CONSTANTS
    Requests,       \* the callers of _request; each may call again and again
    Passwords,      \* the passwords the user and the portal may have
    None,           \* no request holds the lock
    MaxFaults       \* bound: expiries, failures, cancellations, new passwords

ASSUME SessionAssumption ==
    /\ None \notin Requests
    /\ Passwords # {}
    /\ MaxFaults \in Nat

VARIABLES
    authenticated,  \* _authenticated
    gen,            \* _auth_gen, and the session the client's cookie names
    password,       \* _password
    holder,         \* the request holding _auth_lock, or None
    pc,             \* where each request is
    genAt,          \* auth_gen, the generation a request was first sent in
    cookie,         \* the session a request in flight was sent with
    offered,        \* the password a login in flight offers
    outcome,        \* how each caller's last request ended
    valid,          \* the sessions the portal accepts
    portalPassword, \* the password the portal accepts
    relogged,       \* history: the generations replaced under the lock
    faults          \* how many things have gone wrong

client == <<authenticated, gen, password, holder>>
request == <<pc, genAt, cookie, offered, outcome>>
server == <<valid, portalPassword>>
vars == <<client, request, server, relogged, faults>>

Places == {"idle", "login", "sent", "waiting", "relogin", "resent"}

Init ==
    /\ authenticated = FALSE /\ gen = 0 /\ holder = None
    /\ portalPassword \in Passwords /\ password = portalPassword
    /\ pc = [r \in Requests |-> "idle"]
    /\ genAt = [r \in Requests |-> 0] /\ cookie = [r \in Requests |-> 0]
    /\ offered = [r \in Requests |-> password]
    /\ outcome = [r \in Requests |-> "none"]
    /\ valid = {} /\ relogged = {} /\ faults = 0

Fault == faults < MaxFaults /\ faults' = faults + 1

-----------------------------------------------------------------------------
(* The steps of a request r. *)

\* r goes out with the client's cookie, as its first or its second attempt.
Goes(r, place, session) ==
    /\ pc' = [pc EXCEPT ![r] = place]
    /\ cookie' = [cookie EXCEPT ![r] = session]

\* r returns to its caller.
Ends(r, how) ==
    /\ pc' = [pc EXCEPT ![r] = "idle"]
    /\ outcome' = [outcome EXCEPT ![r] = how]
    /\ UNCHANGED <<genAt, cookie, offered>>

\* Mutant: a login does not raise _auth_gen.
SameGeneration ==
    /\ authenticated' = TRUE /\ gen' = gen
    /\ valid' = valid \cup {gen + 1}
    /\ UNCHANGED <<password, portalPassword>>

\* authenticate has succeeded.
LoggedIn ==
    /\ authenticated' = TRUE /\ gen' = gen + 1
    /\ valid' = valid \cup {gen + 1}
    /\ UNCHANGED <<password, portalPassword>>

\* _request is called while there is a session.
Send(r) ==
    /\ pc[r] = "idle" /\ authenticated
    /\ Goes(r, "sent", gen)
    /\ genAt' = [genAt EXCEPT ![r] = gen]
    /\ UNCHANGED <<client, offered, outcome, server, relogged, faults>>

\* _request is called while there is none: no lock guards this login.
Login(r) ==
    /\ pc[r] = "idle" /\ ~authenticated
    /\ pc' = [pc EXCEPT ![r] = "login"]
    /\ offered' = [offered EXCEPT ![r] = password]
    /\ UNCHANGED <<client, genAt, cookie, outcome, server, relogged, faults>>

LoginAccepted(r) ==
    /\ pc[r] = "login" /\ offered[r] = portalPassword
    /\ LoggedIn
    /\ Goes(r, "sent", gen + 1)
    /\ genAt' = [genAt EXCEPT ![r] = gen + 1]
    /\ UNCHANGED <<holder, offered, outcome, relogged, faults>>

LoginRejected(r) ==
    /\ pc[r] = "login" /\ offered[r] # portalPassword
    /\ Ends(r, "failed")
    /\ UNCHANGED <<client, server, relogged, faults>>

\* The portal answers the first attempt: the data, or 401.
Answered(r) ==
    /\ pc[r] = "sent"
    /\ IF cookie[r] \in valid
       THEN Ends(r, "ok")
       ELSE /\ pc' = [pc EXCEPT ![r] = "waiting"]
            /\ UNCHANGED <<genAt, cookie, offered, outcome>>
    /\ UNCHANGED <<client, server, relogged, faults>>

\* The portal answers 403 though the session is valid.
Forbidden(r) ==
    /\ pc[r] = "sent" /\ Fault
    /\ pc' = [pc EXCEPT ![r] = "waiting"]
    /\ UNCHANGED <<client, genAt, cookie, offered, outcome, server, relogged>>

\* Mutant: the lock does not exclude anyone.
LockIgnored == holder \in Requests \cup {None}

LockFree == holder = None

\* Mutant: a refused request is sent again with the session that was refused.
NeverFirst(r) == FALSE

\* No login has replaced the session r was refused with.
FirstToNotice(r) == gen = genAt[r]

\* r gets _auth_lock and is the first to handle the expiry.
Relogin(r) ==
    /\ pc[r] = "waiting" /\ LockFree /\ FirstToNotice(r)
    /\ holder' = r /\ authenticated' = FALSE
    /\ pc' = [pc EXCEPT ![r] = "relogin"]
    /\ offered' = [offered EXCEPT ![r] = password]
    /\ UNCHANGED <<gen, password, genAt, cookie, outcome, server, relogged,
                   faults>>

\* r gets _auth_lock after someone else has logged in.
Resend(r) ==
    /\ pc[r] = "waiting" /\ LockFree /\ ~FirstToNotice(r)
    /\ Goes(r, "resent", gen)
    /\ UNCHANGED <<client, genAt, offered, outcome, server, relogged, faults>>

ReloginAccepted(r) ==
    /\ pc[r] = "relogin" /\ offered[r] = portalPassword
    /\ LoggedIn
    /\ holder' = None /\ relogged' = relogged \cup {genAt[r]}
    /\ Goes(r, "resent", gen + 1)
    /\ UNCHANGED <<genAt, offered, outcome, faults>>

\* Mutant: the lock is kept when the login fails.
StillHeld(r) == holder

\* The lock once the login of r has failed, whatever the error.
Released(r) == IF holder = r THEN None ELSE holder

ReloginRejected(r) ==
    /\ pc[r] = "relogin" /\ offered[r] # portalPassword
    /\ holder' = Released(r)
    /\ Ends(r, "failed")
    /\ UNCHANGED <<authenticated, gen, password, server, relogged, faults>>

\* The second answer is final; even a 401 only raises EneaApiError.
ResendAnswered(r) ==
    /\ pc[r] = "resent"
    /\ Ends(r, IF cookie[r] \in valid THEN "ok" ELSE "failed")
    /\ UNCHANGED <<client, server, relogged, faults>>

\* A timeout, a connection error or another status, at any await; or the
\* task is cancelled, also while it waits for the lock.
Fails(r) ==
    /\ pc[r] # "idle" /\ Fault
    /\ holder' = Released(r)
    /\ Ends(r, "failed")
    /\ UNCHANGED <<authenticated, gen, password, server, relogged>>

-----------------------------------------------------------------------------
(* The portal and the user. *)

Expire(S) ==
    /\ S # {} /\ Fault
    /\ valid' = valid \ S
    /\ UNCHANGED <<client, request, portalPassword, relogged>>

ChangePortalPassword(p) ==
    /\ p # portalPassword /\ Fault
    /\ portalPassword' = p
    /\ UNCHANGED <<client, request, valid, relogged>>

\* An entry of the account is set up with password p.
UpdateCredentials(p) ==
    /\ p # password /\ Fault
    /\ password' = p /\ authenticated' = FALSE
    /\ UNCHANGED <<gen, holder, request, server, relogged>>

RequestStep(r) ==
    \/ Send(r) \/ Login(r) \/ LoginAccepted(r) \/ LoginRejected(r)
    \/ Answered(r) \/ Relogin(r) \/ Resend(r) \/ ReloginAccepted(r)
    \/ ReloginRejected(r) \/ ResendAnswered(r)

Next ==
    \/ \E r \in Requests : RequestStep(r) \/ Forbidden(r) \/ Fails(r)
    \/ \E S \in SUBSET valid : Expire(S)
    \/ \E p \in Passwords : ChangePortalPassword(p) \/ UpdateCredentials(p)

Spec == Init /\ [][Next]_vars

(***************************************************************************)
(* Every request in flight is answered or times out, and the lock is handed *)
(* to its waiters in turn.                                                  *)
(***************************************************************************)
Fairness ==
    \A r \in Requests :
        /\ WF_vars(Send(r) \/ Login(r))
        /\ WF_vars(LoginAccepted(r) \/ LoginRejected(r) \/ Answered(r)
                   \/ ReloginAccepted(r) \/ ReloginRejected(r)
                   \/ ResendAnswered(r))
        /\ SF_vars(Relogin(r) \/ Resend(r))

LiveSpec == Spec /\ Fairness

-----------------------------------------------------------------------------
(* Properties. *)

\* Every variable holds a value of its kind; no session is ahead of _auth_gen.
TypeOK ==
    /\ authenticated \in BOOLEAN /\ gen \in Nat /\ password \in Passwords
    /\ holder \in Requests \cup {None}
    /\ pc \in [Requests -> Places]
    /\ genAt \in [Requests -> 0..gen] /\ cookie \in [Requests -> 0..gen]
    /\ offered \in [Requests -> Passwords]
    /\ outcome \in [Requests -> {"none", "ok", "failed"}]
    /\ valid \subseteq 1..gen /\ portalPassword \in Passwords
    /\ relogged \subseteq Nat /\ faults \in Nat

(***************************************************************************)
(* "Retrying once on session expiry" (_request): the second attempt never   *)
(* carries the session the first one was refused with, though other         *)
(* requests log in, fail to, or change the password meanwhile.              *)
(***************************************************************************)
ResendIsFresh ==
    \A r \in Requests : pc[r] = "resent" => cookie[r] > genAt[r]

(***************************************************************************)
(* What _auth_lock and _auth_gen are for: of all the requests refused with  *)
(* one session, only one ever replaces it with a login under the lock.      *)
(***************************************************************************)
OneReloginPerSession ==
    \A r, q \in Requests :
        pc[r] = "relogin" =>
            /\ genAt[r] \notin relogged
            /\ pc[q] = "relogin" => q = r

(***************************************************************************)
(* No request waits for ever: a login that fails, is rejected or is         *)
(* cancelled gives the lock back.                                           *)
(***************************************************************************)
EveryRequestEnds == \A r \in Requests : pc[r] = "waiting" ~> pc[r] = "idle"

(***************************************************************************)
(* The client recovers by itself from anything that went wrong: once the    *)
(* faults are over and it has the right password, requests stop failing,    *)
(* whatever state expiries, races of logins and failures left it in.        *)
(***************************************************************************)
Recovers ==
    \A r \in Requests :
        <>[](password = portalPassword) => <>[](outcome[r] # "failed")
=============================================================================
