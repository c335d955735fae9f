----------------------- MODULE AccountLifecycleProofs -----------------------
(***************************************************************************)
(* AccountLifecycle keeps its types, each login has at most one account     *)
(* that watches dismissals, and the messages seen are not forgotten, for    *)
(* any entries, logins, passwords and account objects.                      *)
(***************************************************************************)
EXTENDS AccountLifecycle, TLAPS

(* The account found under a login is that login's, and a coordinator holds *)
(* an account that still exists.                                            *)
Named ==
    /\ \A l \in Logins : table[l] # None => obj[table[l]].login = l
    /\ \A e \in Entries : holds[e] # None => obj[holds[e]].login # None

Inv == TypeOK /\ OneWatcher /\ Named

-----------------------------------------------------------------------------
(* Account objects. *)

LEMMA PasswordExists == APassword \in Passwords
  BY LifecycleAssumption DEF APassword

LEMMA GoneTyped == Gone \in ObjectType /\ Gone.login = None /\ ~Gone.watching
  BY PasswordExists DEF Gone, ObjectType

(* Objects in use are kept as they are, the others are gone.                *)
LEMMA KeptObjects ==
    ASSUME NEW objects \in [Objects -> ObjectType], NEW accounts, NEW holders
    PROVE  /\ Kept(objects, accounts, holders) \in [Objects -> ObjectType]
           /\ \A o \in Objects :
                  \/ objects[o].watching
                  \/ \E l \in Logins : accounts[l] = o
                  \/ \E e \in Entries : holders[e] = o
                  => Kept(objects, accounts, holders)[o] = objects[o]
           /\ \A o \in Objects :
                  Kept(objects, accounts, holders)[o].watching =>
                      Kept(objects, accounts, holders)[o] = objects[o]
  BY GoneTyped DEF Kept

LEMMA ClosedObjects ==
    ASSUME NEW objects \in [Objects -> ObjectType], NEW e \in Entries
    PROVE  /\ CloseSessions(e, objects) \in [Objects -> ObjectType]
           /\ \A o \in Objects : /\ CloseSessions(e, objects)[o].login = objects[o].login
                                 /\ CloseSessions(e, objects)[o].watching = objects[o].watching
  BY DEF CloseSessions, ObjectType

LEMMA NewPassword ==
    ASSUME NEW o \in ObjectType, NEW p \in Passwords
    PROVE  /\ WithPassword(o, p) \in ObjectType
           /\ WithPassword(o, p).login = o.login
           /\ WithPassword(o, p).watching = o.watching
  BY DEF WithPassword, ObjectType

LEMMA LoggedIn ==
    ASSUME NEW o \in ObjectType
    PROVE  /\ [o EXCEPT !.logged = TRUE] \in ObjectType
           /\ [o EXCEPT !.logged = TRUE].login = o.login
           /\ [o EXCEPT !.logged = TRUE].watching = o.watching
  BY DEF ObjectType

LEMMA LoggedOut ==
    ASSUME NEW o \in ObjectType
    PROVE  /\ [o EXCEPT !.logged = FALSE] \in ObjectType
           /\ [o EXCEPT !.logged = FALSE].login = o.login
           /\ [o EXCEPT !.logged = FALSE].watching = o.watching
  BY DEF ObjectType

LEMMA Unwatched ==
    ASSUME NEW o \in ObjectType
    PROVE  /\ [o EXCEPT !.watching = FALSE] \in ObjectType
           /\ [o EXCEPT !.watching = FALSE].login = o.login
           /\ ~[o EXCEPT !.watching = FALSE].watching
  BY DEF ObjectType

(* Accounts that stay in the table, with their logins and watches, stay     *)
(* right, whoever lets go of them.                                          *)
LEMMA SameAccounts ==
    ASSUME TypeOK, OneWatcher, Named, UNCHANGED table,
           holds' \in [Entries -> Objects \cup {None}],
           \A e \in Entries : holds'[e] \in {holds[e], None} \cup {table[l] : l \in Logins},
           NEW objects \in [Objects -> ObjectType],
           \A o \in Objects : objects[o].login = obj[o].login /\ objects[o].watching = obj[o].watching,
           obj' = objects \/ obj' = Kept(objects, table', holds')
    PROVE  obj' \in [Objects -> ObjectType] /\ OneWatcher' /\ Named'
<1>1. obj' \in [Objects -> ObjectType]
  BY KeptObjects
<1>2. \A o \in Objects : obj'[o].watching => obj'[o].login = obj[o].login /\ obj[o].watching
  BY KeptObjects
<1>3. \A l \in Logins : table[l] # None => table[l] \in Objects /\ obj'[table[l]] = objects[table[l]]
  BY KeptObjects DEF TypeOK
<1>4. \A e \in Entries : holds'[e] # None => holds'[e] \in Objects /\ obj'[holds'[e]] = objects[holds'[e]]
  BY KeptObjects
<1>5. OneWatcher'
  BY <1>2, <1>3 DEF OneWatcher
<1>6. \A e \in Entries : holds'[e] # None => obj[holds'[e]].login # None
  BY LifecycleAssumption DEF Named, TypeOK
<1>7. Named'
  <2>1. \A l \in Logins : table'[l] # None => obj'[table'[l]].login = l
    BY <1>3 DEF Named
  <2>2. \A e \in Entries : holds'[e] # None => obj'[holds'[e]].login # None
    BY <1>4, <1>6
  <2> QED
    BY <2>1, <2>2 DEF Named
<1> QED
  BY <1>1, <1>5, <1>7

-----------------------------------------------------------------------------
LEMMA InitInv == Init => Inv
<1> SUFFICES ASSUME Init PROVE Inv
  OBVIOUS
<1>1. TypeOK
  <2>1. obj \in [Objects -> ObjectType] /\ portal \in [Logins -> Passwords]
        /\ password \in [Entries -> Passwords]
    BY PasswordExists, GoneTyped DEF Init
  <2>2. events \in 0..MaxEvents
    BY LifecycleAssumption DEF Init
  <2> QED
    BY <2>1, <2>2 DEF Init, TypeOK, States
<1>2. OneWatcher /\ Named
  BY GoneTyped DEF Init, OneWatcher, Named
<1> QED
  BY <1>1, <1>2 DEF Inv

(* What concerns the entries, or the portal, alone.                         *)
LEMMA UntouchedAccounts ==
    ASSUME OneWatcher, Named, UNCHANGED <<table, obj, holds>>
    PROVE  OneWatcher' /\ Named'
  BY DEF OneWatcher, Named

LEMMA EventCounted == ASSUME TypeOK, Unasked PROVE events' \in 0..MaxEvents
  BY LifecycleAssumption DEF TypeOK, Unasked

LEMMA AddInv ==
    ASSUME Inv, NEW e \in Entries, NEW l \in Logins, Add(e, l)
    PROVE  Inv'
<1> USE DEF Inv
<1>1. state' \in [Entries -> States] /\ login' \in [Entries -> Logins \cup {None}]
      /\ password' \in [Entries -> Passwords]
  BY DEF Add, TypeOK, States
<1>2. \A x \in Entries : /\ state'[x] = "absent" <=> login'[x] = None
                         /\ state'[x] \in {"setting_up", "loaded"} => holds'[x] # None
  BY LifecycleAssumption DEF Add, TypeOK
<1>3. TypeOK'
  BY <1>1, <1>2 DEF Add, TypeOK, shared
<1> QED
  BY <1>3, UntouchedAccounts DEF Add, shared

LEMMA CredentialsInv ==
    ASSUME Inv, NEW e \in Entries, NEW l \in Logins, UpdateCredentials(e, l), events' \in 0..MaxEvents
    PROVE  Inv'
<1> USE DEF Inv
<1>1. login' \in [Entries -> Logins \cup {None}] /\ password' \in [Entries -> Passwords]
      /\ asked' \subseteq Entries
  BY DEF UpdateCredentials, TypeOK
<1>2. state' \in [Entries -> States] /\ state'[e] # "absent" /\ state'[e] \notin {"setting_up", "loaded"}
  BY DEF UpdateCredentials, Reload, TypeOK, States, Listed, Unloads
<1>3. \A x \in Entries \ {e} : state'[x] = state[x] /\ login'[x] = login[x]
  BY DEF UpdateCredentials, Reload, TypeOK
<1>4. \A x \in Entries : /\ state'[x] = "absent" <=> login'[x] = None
                         /\ state'[x] \in {"setting_up", "loaded"} => holds'[x] # None
  BY <1>2, <1>3, LifecycleAssumption DEF UpdateCredentials, TypeOK
<1>5. TypeOK'
  BY <1>1, <1>2, <1>4 DEF UpdateCredentials, TypeOK, shared
<1> QED
  BY <1>5, UntouchedAccounts DEF UpdateCredentials, shared

LEMMA StateInv ==
    ASSUME Inv, NEW e \in Entries,
           BeginUnload(e) \/ WithoutUnload(e) \/ Enable(e) \/ UnloadFails(e)
    PROVE  Inv'
<1> USE DEF Inv
<1>1. UNCHANGED <<login, password, holds, asked, shared, portal>> /\ events' \in 0..MaxEvents
  BY EventCounted DEF BeginUnload, WithoutUnload, Enable, UnloadFails
<1>2. /\ state' \in [Entries -> States]
      /\ state[e] # "absent" /\ state'[e] \notin {"absent", "setting_up", "loaded"}
      /\ \A x \in Entries \ {e} : state'[x] = state[x]
  BY DEF BeginUnload, WithoutUnload, Enable, UnloadFails, TypeOK, States, Unloads
<1>3. TypeOK'
  BY <1>1, <1>2 DEF TypeOK, shared
<1> QED
  BY <1>1, <1>3, UntouchedAccounts DEF shared

LEMMA PortalInv ==
    ASSUME Inv, (\E l \in Logins : ChangePassword(l)) \/ Expire
    PROVE  Inv'
<1> USE DEF Inv
<1>1. ASSUME NEW l \in Logins, ChangePassword(l) PROVE Inv'
  <2>1. portal' \in [Logins -> Passwords] /\ events' \in 0..MaxEvents
    BY <1>1, EventCounted DEF ChangePassword, TypeOK
  <2>2. TypeOK'
    BY <1>1, <2>1 DEF ChangePassword, TypeOK, entryVars, shared
  <2> QED
    BY <1>1, <2>2, UntouchedAccounts DEF ChangePassword, entryVars, shared
<1>2. CASE Expire
  <2>1. /\ obj' \in [Objects -> ObjectType]
        /\ \A o \in Objects : obj'[o].login = obj[o].login /\ obj'[o].watching = obj[o].watching
    <3>1. \A o \in Objects : obj[o] \in ObjectType
      BY DEF TypeOK
    <3>2. obj' = [o \in Objects |-> [obj[o] EXCEPT !.logged = FALSE]]
      BY <1>2 DEF Expire
    <3> QED
      BY <3>1, <3>2, LoggedOut
  <2>2. UNCHANGED <<table, holds>>
    BY <1>2 DEF Expire, entryVars
  <2>3. OneWatcher' /\ Named'
    BY <2>1, <2>2, SameAccounts DEF TypeOK
  <2>4. TypeOK'
    BY <1>2, <2>1, EventCounted DEF Expire, TypeOK, entryVars
  <2> QED
    BY <2>3, <2>4
<1> QED
  BY <1>1, <1>2

-----------------------------------------------------------------------------
(* Setting an entry up. *)

LEMMA ReuseInv ==
    ASSUME Inv, NEW e \in Entries, NEW o \in Objects, login[e] # None, o = table[login[e]], Reuse(e, o)
    PROVE  /\ obj' \in [Objects -> ObjectType] /\ table' \in [Logins -> Objects \cup {None}]
           /\ holds' \in [Entries -> Objects \cup {None}] /\ holds'[e] # None
           /\ \A x \in Entries \ {e} : holds'[x] = holds[x]
           /\ OneWatcher' /\ Named'
<1> USE DEF Inv
<1>1. /\ WithPassword(obj[o], password[e]) \in ObjectType
      /\ WithPassword(obj[o], password[e]).login = obj[o].login
      /\ WithPassword(obj[o], password[e]).watching = obj[o].watching
  <2>1. obj[o] \in ObjectType /\ password[e] \in Passwords
    BY DEF TypeOK
  <2> QED
    BY <2>1, NewPassword
<1>2. /\ obj' \in [Objects -> ObjectType]
      /\ \A x \in Objects : obj'[x].login = obj[x].login /\ obj'[x].watching = obj[x].watching
  BY <1>1 DEF Reuse, TypeOK
<1>3. /\ holds' \in [Entries -> Objects \cup {None}] /\ holds'[e] = o /\ o # None
      /\ \A x \in Entries \ {e} : holds'[x] = holds[x]
  BY LifecycleAssumption DEF Reuse, TypeOK
<1>4. login[e] \in Logins
  BY DEF TypeOK
<1>5. \A x \in Entries : holds'[x] \in {holds[x], None} \cup {table[l] : l \in Logins}
  BY <1>3, <1>4
<1>6. UNCHANGED table
  BY DEF Reuse
<1>7. OneWatcher' /\ Named'
  BY <1>2, <1>3, <1>5, <1>6, SameAccounts
<1> QED
  BY <1>2, <1>3, <1>6, <1>7 DEF TypeOK

(* The object taken for the new account is one nobody uses.                 *)
LEMMA ReplaceInv ==
    ASSUME Inv, NEW e \in Entries, NEW new \in Objects, obj[new] = Gone, login[e] # None,
           Replace(e, table[login[e]], new)
    PROVE  /\ obj' \in [Objects -> ObjectType] /\ table' \in [Logins -> Objects \cup {None}]
           /\ holds' \in [Entries -> Objects \cup {None}] /\ holds'[e] # None
           /\ \A x \in Entries \ {e} : holds'[x] = holds[x]
           /\ OneWatcher' /\ Named'
<1> USE DEF Inv
<1> DEFINE old == table[login[e]]
           unwatched == [o \in Objects |->
                            IF o = old THEN [obj[o] EXCEPT !.watching = FALSE] ELSE obj[o]]
           objects == [unwatched EXCEPT ![new] = NewAccount(e)]
<1>1. login[e] \in Logins /\ new # None
  BY LifecycleAssumption DEF TypeOK
<1>2. NewAccount(e) \in ObjectType /\ NewAccount(e).login = login[e] /\ NewAccount(e).watching
  BY <1>1 DEF NewAccount, ObjectType, TypeOK
<1>3. /\ table' = [table EXCEPT ![login[e]] = new] /\ table' \in [Logins -> Objects \cup {None}]
      /\ holds' = [holds EXCEPT ![e] = new] /\ holds' \in [Entries -> Objects \cup {None}]
  BY DEF Replace, TypeOK
<1>4. \A l \in Logins : table[l] # None => table[l] # new
  BY GoneTyped, LifecycleAssumption DEF Named
<1>5. \A x \in Entries : holds[x] # new
  BY <1>1, GoneTyped DEF Named
<1>6. /\ objects \in [Objects -> ObjectType]
      /\ objects[new] = NewAccount(e)
      /\ \A o \in Objects \ {new} : /\ objects[o].login = obj[o].login
                                    /\ o # old => objects[o] = obj[o]
                                    /\ o = old => ~objects[o].watching
  <2>1. \A o \in Objects : obj[o] \in ObjectType
    BY DEF TypeOK
  <2>2. \A o \in Objects : /\ [obj[o] EXCEPT !.watching = FALSE] \in ObjectType
                            /\ [obj[o] EXCEPT !.watching = FALSE].login = obj[o].login
                            /\ ~[obj[o] EXCEPT !.watching = FALSE].watching
    BY <2>1, Unwatched
  <2>3. \A o \in Objects : objects[o] = IF o = new THEN NewAccount(e)
                                         ELSE IF o = old THEN [obj[o] EXCEPT !.watching = FALSE]
                                         ELSE obj[o]
    OBVIOUS
  <2>4. objects \in [Objects -> ObjectType]
    BY <1>2, <2>1, <2>2, <2>3
  <2> QED
    BY <1>2, <2>1, <2>2, <2>3, <2>4
<1>7. obj' = Kept(objects, table', holds')
  BY DEF Replace
<1> HIDE DEF objects
<1>8. obj' \in [Objects -> ObjectType]
  BY <1>6, <1>7, KeptObjects
<1>9. \A l \in Logins : table'[l] # None => table'[l] \in Objects /\ obj'[table'[l]] = objects[table'[l]]
  <2> SUFFICES ASSUME NEW l \in Logins, table'[l] # None
               PROVE  table'[l] \in Objects /\ obj'[table'[l]] = objects[table'[l]]
    OBVIOUS
  <2>1. table'[l] \in Objects
    BY <1>3
  <2>2. Kept(objects, table', holds')[table'[l]] = objects[table'[l]]
    BY <1>6, <2>1, KeptObjects
  <2> QED
    BY <1>7, <2>1, <2>2
<1>10. \A x \in Entries : holds'[x] # None => holds'[x] \in Objects /\ obj'[holds'[x]] = objects[holds'[x]]
  <2> SUFFICES ASSUME NEW x \in Entries, holds'[x] # None
               PROVE  holds'[x] \in Objects /\ obj'[holds'[x]] = objects[holds'[x]]
    OBVIOUS
  <2>1. holds'[x] \in Objects
    BY <1>3
  <2>2. Kept(objects, table', holds')[holds'[x]] = objects[holds'[x]]
    BY <1>6, <2>1, KeptObjects
  <2> QED
    BY <1>7, <2>1, <2>2
<1>11. \A o \in Objects : obj'[o].watching => obj'[o] = objects[o]
  BY <1>6, <1>7, KeptObjects
<1>12. \A l \in Logins \ {login[e]} : table[l] # None => table[l] # old
  BY <1>1 DEF Named
<1>13. OneWatcher'
  <2>1. ASSUME NEW o \in Objects, obj'[o].watching
        PROVE  obj'[o].login # None /\ table'[obj'[o].login] = o
    <3>1. CASE o = new
      BY <1>1, <1>2, <1>3, <1>6, <1>11, <2>1, <3>1 DEF TypeOK
    <3>2. CASE o # new
      <4>1. o # old /\ obj'[o] = obj[o]
        BY <1>6, <1>11, <2>1, <3>2
      <4>2. obj[o].login # None /\ table[obj[o].login] = o
        BY <2>1, <4>1 DEF OneWatcher
      <4>3. obj[o].login # login[e]
        BY <4>1, <4>2
      <4>4. obj[o].login \in Logins
        BY <4>2 DEF TypeOK, ObjectType
      <4> QED
        BY <1>3, <4>1, <4>2, <4>3, <4>4 DEF TypeOK
    <3> QED
      BY <3>1, <3>2
  <2>2. ASSUME NEW l \in Logins, table'[l] # None PROVE obj'[table'[l]].watching
    <3>1. CASE l = login[e]
      BY <1>2, <1>3, <1>6, <1>9, <2>2, <3>1 DEF TypeOK
    <3>2. CASE l # login[e]
      <4>1. table'[l] = table[l] /\ table[l] # None
        BY <1>3, <2>2, <3>2 DEF TypeOK
      <4>2. table[l] # new /\ table[l] # old /\ table[l] \in Objects
        BY <1>4, <1>12, <3>2, <4>1 DEF TypeOK
      <4> QED
        BY <1>6, <1>9, <4>1, <4>2 DEF OneWatcher
    <3> QED
      BY <3>1, <3>2
  <2> QED
    BY <2>1, <2>2 DEF OneWatcher
<1>14. Named'
  <2>1. \A l \in Logins : table'[l] # None => obj'[table'[l]].login = l
    BY <1>2, <1>3, <1>4, <1>6, <1>9 DEF Named, TypeOK
  <2>2. \A x \in Entries : holds'[x] # None => obj'[holds'[x]].login # None
    BY <1>1, <1>2, <1>3, <1>5, <1>6, <1>10, LifecycleAssumption DEF Named, TypeOK
  <2> QED
    BY <2>1, <2>2 DEF Named
<1> QED
  BY <1>1, <1>3, <1>8, <1>13, <1>14 DEF TypeOK

LEMMA SetUpInv ==
    ASSUME Inv, NEW e \in Entries, SetUp(e)
    PROVE  Inv'
<1> USE DEF Inv
<1>1. login[e] # None /\ login[e] \in Logins
  BY DEF SetUp, TypeOK
<1>2. /\ obj' \in [Objects -> ObjectType] /\ table' \in [Logins -> Objects \cup {None}]
      /\ holds' \in [Entries -> Objects \cup {None}] /\ holds'[e] # None
      /\ \A x \in Entries \ {e} : holds'[x] = holds[x]
      /\ OneWatcher' /\ Named'
  <2>1. CASE table[login[e]] # None /\ obj[table[login[e]]].open
    <3>1. table[login[e]] \in Objects /\ Reuse(e, table[login[e]])
      BY <1>1, <2>1 DEF SetUp, TypeOK
    <3> QED
      BY <1>1, <3>1, ReuseInv
  <2>2. CASE ~(table[login[e]] # None /\ obj[table[login[e]]].open)
    <3>1. PICK new \in Objects : obj[new] = Gone /\ Replace(e, table[login[e]], new)
      BY <2>2 DEF SetUp
    <3> QED
      BY <1>1, <3>1, ReplaceInv
  <2> QED
    BY <2>1, <2>2
<1>3. state' \in [Entries -> States] /\ state[e] # "absent" /\ state' = [state EXCEPT ![e] = "setting_up"]
  BY DEF SetUp, TypeOK, States
<1>4. TypeOK'
  <2>1. \A x \in Entries : /\ state'[x] = "absent" <=> login'[x] = None
                           /\ state'[x] \in {"setting_up", "loaded"} => holds'[x] # None
    BY <1>2, <1>3 DEF SetUp, TypeOK
  <2> QED
    BY <1>2, <1>3, <2>1 DEF SetUp, TypeOK
<1> QED
  BY <1>2, <1>4

-----------------------------------------------------------------------------
(* Refreshes, failed setups, unloading and removal. *)

LEMMA RefreshedInv ==
    ASSUME Inv, NEW e \in Entries, state[e] \in {"setting_up", "loaded"}, Refreshed(e),
           UNCHANGED <<table, holds>>
    PROVE  obj' \in [Objects -> ObjectType] /\ seen' \subseteq Logins /\ OneWatcher' /\ Named'
<1> USE DEF Inv
<1>1. holds[e] \in Objects /\ holds[e] # None
  BY DEF TypeOK
<1>2. obj[holds[e]].login \in Logins
  BY <1>1 DEF Named, TypeOK, ObjectType
<1>3. /\ obj' \in [Objects -> ObjectType]
      /\ \A o \in Objects : obj'[o].login = obj[o].login /\ obj'[o].watching = obj[o].watching
  <2>1. obj \in [Objects -> ObjectType] /\ obj[holds[e]] \in ObjectType
    BY <1>1 DEF TypeOK
  <2>2. obj' = [obj EXCEPT ![holds[e]] = [obj[holds[e]] EXCEPT !.logged = TRUE]]
    BY DEF Refreshed
  <2> QED
    BY <1>1, <2>1, <2>2, LoggedIn
<1>4. OneWatcher' /\ Named'
  BY <1>3, SameAccounts DEF TypeOK
<1> QED
  BY <1>2, <1>3, <1>4 DEF Refreshed, TypeOK

LEMMA SetUpDoneInv ==
    ASSUME Inv, NEW e \in Entries, SetUpDone(e)
    PROVE  Inv'
<1> USE DEF Inv
<1>1. obj' \in [Objects -> ObjectType] /\ seen' \subseteq Logins /\ OneWatcher' /\ Named'
  BY RefreshedInv DEF SetUpDone
<1>2. state' \in [Entries -> States] /\ state' = [state EXCEPT ![e] = "loaded"]
  BY DEF SetUpDone, TypeOK, States
<1>3. TypeOK'
  BY <1>1, <1>2 DEF SetUpDone, TypeOK
<1> QED
  BY <1>1, <1>3

LEMMA RefreshInv ==
    ASSUME Inv, NEW e \in Entries, Refresh(e)
    PROVE  Inv'
<1> USE DEF Inv
<1>1. CASE Refreshed(e) /\ UNCHANGED asked
  <2>1. obj' \in [Objects -> ObjectType] /\ seen' \subseteq Logins /\ OneWatcher' /\ Named'
    BY <1>1, RefreshedInv DEF Refresh
  <2>2. TypeOK'
    BY <1>1, <2>1 DEF Refresh, TypeOK
  <2> QED
    BY <2>1, <2>2
<1>2. CASE asked' = asked \cup {e} /\ UNCHANGED <<obj, seen>>
  <2>1. TypeOK'
    BY <1>2 DEF Refresh, TypeOK
  <2> QED
    BY <1>2, <2>1, UntouchedAccounts DEF Refresh
<1> QED
  BY <1>1, <1>2 DEF Refresh

LEMMA SetUpEndsInv ==
    ASSUME Inv, NEW e \in Entries, NEW outcome \in {"rejected", "retry"}, SetUpEnds(e, outcome),
           asked' \subseteq Entries, events' \in 0..MaxEvents
    PROVE  Inv'
<1> USE DEF Inv
<1>1. holds' \in [Entries -> Objects \cup {None}] /\ holds' = [holds EXCEPT ![e] = None]
  BY DEF SetUpEnds, TypeOK
<1>2. /\ CloseSessions(e, obj) \in [Objects -> ObjectType]
      /\ \A o \in Objects : /\ CloseSessions(e, obj)[o].login = obj[o].login
                            /\ CloseSessions(e, obj)[o].watching = obj[o].watching
  BY ClosedObjects DEF TypeOK
<1>3. obj' = Kept(CloseSessions(e, obj), table', holds') /\ UNCHANGED table
  BY DEF SetUpEnds
<1>4. \A x \in Entries : holds'[x] \in {holds[x], None} \cup {table[l] : l \in Logins}
  BY <1>1 DEF TypeOK
<1>5. obj' \in [Objects -> ObjectType] /\ OneWatcher' /\ Named'
  BY <1>1, <1>2, <1>3, <1>4, SameAccounts
<1>6. state' \in [Entries -> States] /\ state' = [state EXCEPT ![e] = outcome] /\ state[e] # "absent"
  BY DEF SetUpEnds, TypeOK, States
<1>7. \A x \in Entries : /\ state'[x] = "absent" <=> login'[x] = None
                         /\ state'[x] \in {"setting_up", "loaded"} => holds'[x] # None
  BY <1>1, <1>6 DEF SetUpEnds, TypeOK
<1>8. TypeOK'
  BY <1>1, <1>5, <1>6, <1>7 DEF SetUpEnds, TypeOK
<1> QED
  BY <1>5, <1>8

LEMMA RemoveInv ==
    ASSUME Inv, NEW e \in Entries, Remove(e)
    PROVE  Inv'
<1> USE DEF Inv
<1>1. holds' \in [Entries -> Objects \cup {None}] /\ holds' = [holds EXCEPT ![e] = None]
  BY DEF Remove, TypeOK
<1>2. obj' = Kept(obj, table', holds') /\ UNCHANGED table
  BY DEF Remove
<1>3. \A x \in Entries : holds'[x] \in {holds[x], None} \cup {table[l] : l \in Logins}
  BY <1>1 DEF TypeOK
<1>4. obj' \in [Objects -> ObjectType] /\ OneWatcher' /\ Named'
  BY <1>1, <1>2, <1>3, SameAccounts DEF TypeOK
<1>5. /\ state' \in [Entries -> States] /\ state' = [state EXCEPT ![e] = "absent"]
      /\ login' \in [Entries -> Logins \cup {None}] /\ login' = [login EXCEPT ![e] = None]
  BY DEF Remove, TypeOK, States
<1>6. seen' \subseteq Logins /\ asked' \subseteq Entries
  BY DEF Remove, TypeOK
<1>7. \A x \in Entries : /\ state'[x] = "absent" <=> login'[x] = None
                         /\ state'[x] \in {"setting_up", "loaded"} => holds'[x] # None
  BY <1>1, <1>5 DEF TypeOK
<1>8. TypeOK'
  BY <1>1, <1>4, <1>5, <1>6, <1>7 DEF Remove, TypeOK
<1> QED
  BY <1>4, <1>8

(* The account that leaves the table stops watching; the other logins'      *)
(* accounts are other objects.                                              *)
LEMMA FinishUnloadInv ==
    ASSUME Inv, NEW e \in Entries, FinishUnload(e)
    PROVE  Inv'
<1> USE DEF Inv
<1> DEFINE left == table[login[e]]
           unwatched == [o \in Objects |->
                            IF o = left /\ ~IsShared(e) THEN [obj[o] EXCEPT !.watching = FALSE] ELSE obj[o]]
           objects == CloseSessions(e, unwatched)
<1>1. login[e] \in Logins /\ login[e] # None /\ state[e] # "absent"
  BY DEF FinishUnload, Unloads, TypeOK
<1>2. /\ unwatched \in [Objects -> ObjectType]
      /\ \A o \in Objects : /\ unwatched[o].login = obj[o].login
                            /\ unwatched[o].watching <=> obj[o].watching /\ ~(o = left /\ ~IsShared(e))
  <2>1. \A o \in Objects : obj[o] \in ObjectType
    BY DEF TypeOK
  <2>2. \A o \in Objects : /\ [obj[o] EXCEPT !.watching = FALSE] \in ObjectType
                            /\ [obj[o] EXCEPT !.watching = FALSE].login = obj[o].login
                            /\ ~[obj[o] EXCEPT !.watching = FALSE].watching
    BY <2>1, Unwatched
  <2> QED
    BY <2>1, <2>2
<1>3. obj' = Kept(objects, table', holds')
  BY DEF FinishUnload
<1> HIDE DEF unwatched
<1>4. /\ objects \in [Objects -> ObjectType]
      /\ \A o \in Objects : /\ objects[o].login = obj[o].login
                            /\ objects[o].watching <=> obj[o].watching /\ ~(o = left /\ ~IsShared(e))
  BY <1>2, ClosedObjects
<1> HIDE DEF objects
<1>5. /\ holds' \in [Entries -> Objects \cup {None}] /\ holds' = [holds EXCEPT ![e] = None]
      /\ table' \in [Logins -> Objects \cup {None}]
      /\ table' = [table EXCEPT ![login[e]] = IF IsShared(e) THEN @ ELSE None]
  BY DEF FinishUnload, TypeOK
<1>6. obj' \in [Objects -> ObjectType]
  BY <1>3, <1>4, KeptObjects
<1>7. \A l \in Logins : table'[l] # None =>
          /\ table'[l] = table[l] /\ table'[l] \in Objects
          /\ ~(table[l] = left /\ ~IsShared(e))
          /\ obj'[table'[l]] = objects[table'[l]]
  <2> SUFFICES ASSUME NEW l \in Logins, table'[l] # None
               PROVE  /\ table'[l] = table[l] /\ table'[l] \in Objects
                      /\ ~(table[l] = left /\ ~IsShared(e))
                      /\ obj'[table'[l]] = objects[table'[l]]
    OBVIOUS
  <2>1. table'[l] = table[l] /\ table'[l] \in Objects /\ (l = login[e] => IsShared(e))
    BY <1>1, <1>5 DEF TypeOK
  <2>2. Kept(objects, table', holds')[table'[l]] = objects[table'[l]]
    BY <1>4, <2>1, KeptObjects
  <2>3. l # login[e] => table[l] # left
    BY <1>1, <2>1 DEF Named
  <2> QED
    BY <1>3, <2>1, <2>2, <2>3
<1>8. \A x \in Entries : holds'[x] # None =>
          holds'[x] = holds[x] /\ holds'[x] \in Objects /\ obj'[holds'[x]] = objects[holds'[x]]
  <2> SUFFICES ASSUME NEW x \in Entries, holds'[x] # None
               PROVE  holds'[x] = holds[x] /\ holds'[x] \in Objects /\ obj'[holds'[x]] = objects[holds'[x]]
    OBVIOUS
  <2>1. holds'[x] = holds[x] /\ holds'[x] \in Objects
    BY <1>5 DEF TypeOK
  <2>2. Kept(objects, table', holds')[holds'[x]] = objects[holds'[x]]
    BY <1>4, <2>1, KeptObjects
  <2> QED
    BY <1>3, <2>1, <2>2
<1>9. OneWatcher'
  <2>1. ASSUME NEW o \in Objects, obj'[o].watching
        PROVE  obj'[o].login # None /\ table'[obj'[o].login] = o
    <3>1. obj'[o] = objects[o]
      BY <1>3, <1>4, <2>1, KeptObjects
    <3>2. obj[o].watching /\ ~(o = left /\ ~IsShared(e)) /\ obj'[o].login = obj[o].login
      BY <1>4, <2>1, <3>1
    <3>3. obj[o].login # None /\ table[obj[o].login] = o /\ obj[o].login \in Logins
      BY <3>2 DEF OneWatcher, TypeOK, ObjectType
    <3>4. obj[o].login = login[e] => IsShared(e)
      BY <3>2, <3>3
    <3> QED
      BY <1>5, <3>2, <3>3, <3>4 DEF TypeOK
  <2>2. ASSUME NEW l \in Logins, table'[l] # None PROVE obj'[table'[l]].watching
    BY <1>4, <1>7, <2>2 DEF OneWatcher
  <2> QED
    BY <2>1, <2>2 DEF OneWatcher
<1>10. Named'
  BY <1>4, <1>7, <1>8 DEF Named
<1>11. state' \in [Entries -> States] /\ state'[e] \notin {"absent", "setting_up", "loaded"}
  <2>1. /\ state[e] = "reloading" => state'[e] = "not_loaded"
        /\ state[e] = "disabling" => state'[e] = "disabled"
        /\ state[e] = "deleting" => state'[e] = "removing"
    BY DEF FinishUnload, TypeOK
  <2>2. state[e] \in {"reloading", "disabling", "deleting"}
    BY DEF FinishUnload, Unloads
  <2>3. state'[e] \in {"not_loaded", "disabled", "removing"}
    BY <2>1, <2>2
  <2>4. \E s : state' = [state EXCEPT ![e] = s]
    BY DEF FinishUnload
  <2> QED
    BY <2>3, <2>4 DEF TypeOK, States
<1>12. \A x \in Entries \ {e} : state'[x] = state[x]
  BY DEF FinishUnload, TypeOK
<1>13. \A x \in Entries : /\ state'[x] = "absent" <=> login'[x] = None
                          /\ state'[x] \in {"setting_up", "loaded"} => holds'[x] # None
  BY <1>1, <1>5, <1>11, <1>12 DEF FinishUnload, TypeOK
<1>14. services' \in BOOLEAN
  BY DEF FinishUnload
<1>15. TypeOK'
  BY <1>5, <1>6, <1>11, <1>13, <1>14 DEF FinishUnload, TypeOK
<1> QED
  BY <1>9, <1>10, <1>15

-----------------------------------------------------------------------------
LEMMA NextInv == Inv /\ [Next]_vars => Inv'
<1> SUFFICES ASSUME Inv, [Next]_vars PROVE Inv'
  OBVIOUS
<1>1. CASE UNCHANGED vars
  BY <1>1, UntouchedAccounts DEF Inv, vars, entryVars, shared, TypeOK
<1>2. ASSUME NEW e \in Entries, FromEntry(e) PROVE Inv'
  <2>1. CASE Reauthenticate(e)
    <3>1. e \in Listed /\ login[e] \in Logins
      BY <2>1 DEF Reauthenticate, UpdateCredentials, Listed, Inv, TypeOK
    <3> QED
      BY <2>1, <3>1, CredentialsInv DEF Reauthenticate, Inv, TypeOK
  <2>2. CASE Reconfigure(e)
    BY <2>2, CredentialsInv, EventCounted DEF Reconfigure, Inv
  <2>3. CASE SetUpRejected(e)
    <3>1. asked' \subseteq Entries /\ events' \in 0..MaxEvents
      BY <2>3 DEF SetUpRejected, Inv, TypeOK
    <3> QED
      BY <2>3, <3>1, SetUpEndsInv DEF SetUpRejected
  <2>4. CASE SetUpOnClosed(e)
    <3>1. asked' \subseteq Entries /\ events' \in 0..MaxEvents
      BY <2>4 DEF SetUpOnClosed, Inv, TypeOK
    <3> QED
      BY <2>4, <3>1, SetUpEndsInv DEF SetUpOnClosed
  <2>5. CASE SetUpFails(e)
    <3>1. asked' \subseteq Entries /\ events' \in 0..MaxEvents
      BY <2>5, EventCounted DEF SetUpFails, Inv, TypeOK
    <3> QED
      BY <2>5, <3>1, SetUpEndsInv DEF SetUpFails
  <2> QED
    BY <1>2, <2>1, <2>2, <2>3, <2>4, <2>5, AddInv, StateInv, SetUpInv, SetUpDoneInv, RefreshInv,
       FinishUnloadInv, RemoveInv DEF FromEntry
<1> QED
  BY <1>1, <1>2, PortalInv DEF Next

(* Every variable keeps its type; an entry that is set up or loaded holds   *)
(* an account, whose login is known when its messages are saved             *)
(* (__init__.py:83-206).                                                    *)
THEOREM LifecycleTyped == Spec => []TypeOK
  BY InitInv, NextInv, PTL DEF Spec, Inv

(* Exactly the accounts of the table watch dismissals, one for each login,  *)
(* whatever entries come, go and change their login (__init__.py:97-102,    *)
(* 195-199).                                                                *)
THEOREM LoginsHaveOneWatcher == Spec => []OneWatcher
  BY InitInv, NextInv, PTL DEF Spec, Inv

-----------------------------------------------------------------------------
(* Only a removal forgets messages, and it looks at every listed entry.     *)
LEMMA OnlyRemoveForgets ==
    ASSUME [Next]_vars, NEW l \in seen \ seen'
    PROVE  \A e \in Entries : state[e] \in {"absent", "removing"} \/ login[e] # l
<1>1. PICK e \in Entries : Remove(e)
  BY DEF Next, FromEntry, vars, entryVars, shared, Add, UpdateCredentials, Reauthenticate, Reconfigure,
         BeginUnload, WithoutUnload, Enable, SetUp, SetUpDone, Refreshed, SetUpEnds, SetUpRejected,
         SetUpOnClosed, SetUpFails, Refresh, FinishUnload, UnloadFails, ChangePassword, Expire
<1>2. l = login[e] /\ ~\E x \in Listed : login[x] = login[e]
  BY <1>1 DEF Remove
<1> QED
  BY <1>2 DEF Listed

(* The messages seen are forgotten only when no entry of the login is left  *)
(* (__init__.py:209-223).                                                   *)
THEOREM MessagesAreKept == Spec => MessagesKept
<1>1. [Next]_vars =>
          [\A l \in seen \ seen' : \A e \in Entries : state[e] \in {"absent", "removing"} \/ login[e] # l]_vars
  BY OnlyRemoveForgets
<1> QED
  BY <1>1, PTL DEF Spec, MessagesKept
=============================================================================
