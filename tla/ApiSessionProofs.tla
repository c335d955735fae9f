-------------------------- MODULE ApiSessionProofs --------------------------
(***************************************************************************)
(* Proofs about ApiSession, for any requests, passwords and faults.         *)
(***************************************************************************)
EXTENDS ApiSession, TLAPS

\* Only the request that holds the lock logs in under it.
LockHeld == \A r \in Requests : pc[r] = "relogin" => holder = r

\* A session replaced under the lock is an old one.
ReplacedIsOld == \A g \in relogged : g < gen

\* The session a request is replacing under the lock was not replaced before.
NotYetReplaced ==
    \A r \in Requests : pc[r] = "relogin" => genAt[r] \notin relogged

\* The inductive strengthening of ResendIsFresh and OneReloginPerSession.
Safe == LockHeld /\ ReplacedIsOld /\ NotYetReplaced /\ ResendIsFresh

\* The initial state is typed and safe: no request has been made.
LEMMA InitInv == Init => TypeOK /\ Safe
<1> SUFFICES ASSUME Init PROVE TypeOK /\ Safe
  OBVIOUS
<1>1. \A r \in Requests : pc[r] = "idle"
  BY DEF Init
<1>2. Safe
  BY <1>1 DEF Init, Safe, LockHeld, ReplacedIsOld, NotYetReplaced, ResendIsFresh
<1>3. /\ pc \in [Requests -> Places]
      /\ outcome \in [Requests -> {"none", "ok", "failed"}]
      /\ offered \in [Requests -> Passwords]
  BY DEF Init, Places
<1>4. 0 \in 0..gen /\ gen \in Nat
  BY DEF Init
<1>5. genAt \in [Requests -> 0..gen] /\ cookie \in [Requests -> 0..gen]
  BY <1>4 DEF Init
<1> QED
  BY <1>2, <1>3, <1>4, <1>5 DEF Init, TypeOK

\* A failing login hands back the lock, if it has it.
LEMMA ReleasedType ==
    ASSUME TypeOK, NEW r \in Requests
    PROVE  Released(r) \in Requests \cup {None}
BY DEF TypeOK, Released

\* No step takes a variable out of its type.
LEMMA NextType == TypeOK /\ [Next]_vars => TypeOK'
<1> SUFFICES ASSUME TypeOK, [Next]_vars PROVE TypeOK'
  OBVIOUS
<1> USE DEF Goes, Ends, Places, Fault, LoggedIn, client, request, server
<1>1. ASSUME NEW r \in Requests, RequestStep(r) PROVE TypeOK'
  <2>1. CASE Send(r)
    BY <2>1 DEF Send, TypeOK
  <2>2. CASE Login(r)
    BY <2>2 DEF Login, TypeOK
  <2>3. CASE LoginAccepted(r)
    BY <2>3 DEF LoginAccepted, TypeOK
  <2>4. CASE LoginRejected(r)
    BY <2>4 DEF LoginRejected, TypeOK
  <2>5. CASE Answered(r)
    BY <2>5 DEF Answered, TypeOK
  <2>6. CASE Relogin(r)
    BY <2>6 DEF Relogin, TypeOK
  <2>7. CASE Resend(r)
    BY <2>7 DEF Resend, TypeOK
  <2>8. CASE ReloginAccepted(r)
    <3>1. gen \in Nat /\ gen' = gen + 1 /\ genAt[r] \in Nat
      BY <2>8 DEF ReloginAccepted, TypeOK
    <3>2. 0..gen \subseteq 0..gen' /\ 1..gen \subseteq 1..gen' /\ gen' \in 0..gen'
          /\ gen' \in 1..gen'
      BY <3>1
    <3>3. genAt' \in [Requests -> 0..gen']
      BY <2>8, <3>2 DEF ReloginAccepted, TypeOK
    <3>4. cookie' \in [Requests -> 0..gen']
      BY <2>8, <3>1, <3>2 DEF ReloginAccepted, TypeOK
    <3>5. valid' \subseteq 1..gen' /\ relogged' \subseteq Nat
      BY <2>8, <3>1, <3>2 DEF ReloginAccepted, TypeOK
    <3>6. pc' \in [Requests -> Places]
      BY <2>8 DEF ReloginAccepted, TypeOK
    <3> QED
      BY <2>8, <3>1, <3>3, <3>4, <3>5, <3>6 DEF ReloginAccepted, TypeOK
  <2>9. CASE ReloginRejected(r)
    BY <2>9, ReleasedType DEF ReloginRejected, TypeOK
  <2>10. CASE ResendAnswered(r)
    BY <2>10 DEF ResendAnswered, TypeOK
  <2> QED
    BY <1>1, <2>1, <2>2, <2>3, <2>4, <2>5, <2>6, <2>7, <2>8, <2>9, <2>10
       DEF RequestStep
<1>2. ASSUME NEW r \in Requests, Forbidden(r) PROVE TypeOK'
  BY <1>2 DEF Forbidden, TypeOK
<1>3. ASSUME NEW r \in Requests, Fails(r) PROVE TypeOK'
  BY <1>3, ReleasedType DEF Fails, TypeOK
<1>4. ASSUME NEW S \in SUBSET valid, Expire(S) PROVE TypeOK'
  BY <1>4 DEF Expire, TypeOK
<1>5. ASSUME NEW p \in Passwords, ChangePortalPassword(p) PROVE TypeOK'
  BY <1>5 DEF ChangePortalPassword, TypeOK
<1>6. ASSUME NEW p \in Passwords, UpdateCredentials(p) PROVE TypeOK'
  <2>1. UNCHANGED <<gen, holder, pc, genAt, cookie, offered, outcome, valid,
                    portalPassword, relogged>>
    BY <1>6 DEF UpdateCredentials
  <2>2. authenticated' = FALSE /\ password' = p /\ faults' = faults + 1
    BY <1>6 DEF UpdateCredentials
  <2>3. /\ genAt' \in [Requests -> 0..gen'] /\ cookie' \in [Requests -> 0..gen']
        /\ gen' \in Nat /\ valid' \subseteq 1..gen' /\ relogged' \subseteq Nat
    BY <2>1 DEF TypeOK
  <2>4. /\ pc' \in [Requests -> Places] /\ holder' \in Requests \cup {None}
        /\ offered' \in [Requests -> Passwords]
        /\ outcome' \in [Requests -> {"none", "ok", "failed"}]
        /\ portalPassword' \in Passwords
    BY <2>1 DEF TypeOK
  <2>5. authenticated' \in BOOLEAN
    BY <2>2, Zenon
  <2>6. password' \in Passwords /\ faults' \in Nat
    BY <1>6, <2>2 DEF TypeOK
  <2> QED
    BY <2>3, <2>4, <2>5, <2>6, Zenon DEF TypeOK
<1>7. ASSUME UNCHANGED vars PROVE TypeOK'
  BY <1>7 DEF vars, TypeOK
<1> QED
  BY <1>1, <1>2, <1>3, <1>4, <1>5, <1>6, <1>7 DEF Next

\* No step breaks the invariant: the lock orders the logins, and _auth_gen
\* tells a waiter whether its session has been replaced.
LEMMA NextSafe == TypeOK /\ Safe /\ [Next]_vars => Safe'
<1> SUFFICES ASSUME TypeOK, Safe, [Next]_vars PROVE Safe'
  OBVIOUS
<1> USE DEF Goes, Ends, Places, Fault, LoggedIn, client, request, server,
            Safe, LockHeld, ReplacedIsOld, NotYetReplaced, ResendIsFresh
<1>1. ASSUME NEW r \in Requests, RequestStep(r) PROVE Safe'
  <2>1. CASE Send(r)
    BY <2>1 DEF Send, TypeOK
  <2>2. CASE Login(r)
    BY <2>2 DEF Login, TypeOK
  <2>3. CASE LoginAccepted(r)
    BY <2>3 DEF LoginAccepted, TypeOK
  <2>4. CASE LoginRejected(r)
    BY <2>4 DEF LoginRejected, TypeOK
  <2>5. CASE Answered(r)
    BY <2>5 DEF Answered, TypeOK
  <2>6. CASE Relogin(r)
    <3>1. holder = None /\ gen = genAt[r] /\ holder' = r /\ relogged' = relogged
      BY <2>6 DEF Relogin, LockFree, FirstToNotice
    <3>2. \A q \in Requests : pc[q] # "relogin"
      BY <3>1, SessionAssumption
    <3>3. genAt' = genAt /\ gen' = gen /\ cookie' = cookie
      BY <2>6 DEF Relogin
    <3>4. \A q \in Requests : pc'[q] = IF q = r THEN "relogin" ELSE pc[q]
      BY <2>6 DEF Relogin, TypeOK
    <3> QED
      BY <3>1, <3>2, <3>3, <3>4 DEF TypeOK
  <2>7. CASE Resend(r)
    <3>1. genAt[r] \in 0..gen /\ gen # genAt[r] /\ gen \in Nat
      BY <2>7 DEF Resend, FirstToNotice, TypeOK
    <3> QED
      BY <2>7, <3>1 DEF Resend, TypeOK
  <2>8. CASE ReloginAccepted(r)
    <3>1. genAt[r] \in 0..gen /\ gen \in Nat /\ gen' = gen + 1
      BY <2>8 DEF ReloginAccepted, TypeOK
    <3>2. relogged' = relogged \cup {genAt[r]} /\ genAt' = genAt
      BY <2>8 DEF ReloginAccepted
    <3>3. \A q \in Requests : q # r => pc[q] # "relogin"
      BY <2>8 DEF ReloginAccepted
    <3>4. \A q \in Requests : pc'[q] = IF q = r THEN "resent" ELSE pc[q]
      BY <2>8 DEF ReloginAccepted, TypeOK
    <3>5. LockHeld' /\ NotYetReplaced'
      BY <3>3, <3>4
    <3>6. ReplacedIsOld'
      BY <3>1, <3>2 DEF TypeOK
    <3>7. \A q \in Requests :
             cookie'[q] = IF q = r THEN gen + 1 ELSE cookie[q]
      BY <2>8 DEF ReloginAccepted, TypeOK
    <3>8. ResendIsFresh'
      BY <3>1, <3>2, <3>4, <3>7 DEF TypeOK
    <3> QED
      BY <3>5, <3>6, <3>8
  <2>9. CASE ReloginRejected(r)
    BY <2>9 DEF ReloginRejected, Released, TypeOK
  <2>10. CASE ResendAnswered(r)
    BY <2>10 DEF ResendAnswered, TypeOK
  <2> QED
    BY <1>1, <2>1, <2>2, <2>3, <2>4, <2>5, <2>6, <2>7, <2>8, <2>9, <2>10
       DEF RequestStep
<1>2. ASSUME NEW r \in Requests, Forbidden(r) PROVE Safe'
  BY <1>2 DEF Forbidden, TypeOK
<1>3. ASSUME NEW r \in Requests, Fails(r) PROVE Safe'
  BY <1>3 DEF Fails, Released, TypeOK
<1>4. ASSUME NEW S \in SUBSET valid, Expire(S) PROVE Safe'
  BY <1>4 DEF Expire
<1>5. ASSUME NEW p \in Passwords, ChangePortalPassword(p) PROVE Safe'
  BY <1>5 DEF ChangePortalPassword
<1>6. ASSUME NEW p \in Passwords, UpdateCredentials(p) PROVE Safe'
  BY <1>6 DEF UpdateCredentials
<1>7. ASSUME UNCHANGED vars PROVE Safe'
  BY <1>7 DEF vars
<1> QED
  BY <1>1, <1>2, <1>3, <1>4, <1>5, <1>6, <1>7 DEF Next

\* The client is typed and safe in every reachable state.
LEMMA SessionInvariant == Spec => [](TypeOK /\ Safe)
<1>1. Init => TypeOK /\ Safe
  BY InitInv
<1>2. TypeOK /\ Safe /\ [Next]_vars => (TypeOK /\ Safe)'
  BY NextType, NextSafe
<1> QED
  BY <1>1, <1>2, PTL DEF Spec

\* EneaApiClient: its fields keep their types, and no session runs ahead of
\* _auth_gen.
THEOREM SessionTyped == Spec => []TypeOK
BY SessionInvariant, PTL

\* _request: the second attempt never carries the session the first one was
\* refused with.
THEOREM SecondAttemptIsFresh == Spec => []ResendIsFresh
<1>1. Safe => ResendIsFresh
  BY DEF Safe
<1> QED
  BY <1>1, SessionInvariant, PTL

\* _auth_lock and _auth_gen: any number of requests refused with one session
\* cause one login under the lock.
THEOREM OneReplacementPerSession == Spec => []OneReloginPerSession
<1>1. Safe => OneReloginPerSession
  BY DEF Safe, LockHeld, NotYetReplaced, OneReloginPerSession
<1> QED
  BY <1>1, SessionInvariant, PTL
=============================================================================
