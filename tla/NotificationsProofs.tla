------------------------ MODULE NotificationsProofs ------------------------
(***************************************************************************)
(* Proofs about Notifications, for every set of messages and meters: the    *)
(* type and safety invariants, NotifiedOnce, and that the store keeps the   *)
(* ledger of MessageLedger.                                                 *)
(*                                                                         *)
(* The inductive invariant is TypeOK /\ Safe.  Safe adds to the safety      *)
(* invariants what relates the copies of the account: the store never knows *)
(* of a message the loaded object has not seen (Ahead), and a check holds,  *)
(* from its answer on, every message it will vouch for (AnswerIsWhole).     *)
(***************************************************************************)
EXTENDS Notifications, TLAPS

\* Before the first load nothing but the store has content.
Fresh ==
    ~loaded => /\ mem = NewAccount /\ task = NoTask
               /\ screen = {} /\ sends = 0

\* A message is on screen or waits for its "read", not both, and was seen.
Tidy(account) ==
    /\ account.shown \cup account.readToSend \subseteq account.seen
    /\ account.shown \cap account.readToSend = {}

\* No day noted lies in the future.
Dated == /\ mem.checkedUntil =< today
         /\ store.checkedUntil =< today
         /\ task.day =< today

\* An answer holds every message of the days and meters it will vouch for.
AnswerIsWhole ==
    /\ task.foundRead \subseteq read
    /\ (task.kind = "update" /\ task.step = "apply") =>
          \A m \in Messages :
              (/\ received[m] # 0 /\ Owner[m] \in task.meters
               /\ received[m] < task.day) => m \in mem.seen \cup task.found

\* The loaded object is ahead of the store, by steps the ledger allows.
Ahead ==
    loaded =>
        /\ store.seen \subseteq mem.seen
        /\ store.shown \subseteq mem.shown \cup mem.readToSend \cup read
        /\ store.readToSend \subseteq mem.readToSend \cup read
        /\ mem.shown \cap store.seen \subseteq store.shown
        /\ mem.readToSend \cap store.seen
               \subseteq store.shown \cup store.readToSend

Safe ==
    /\ Fresh /\ ScreenIsWatched
    /\ Tidy(mem) /\ Tidy(store)
    /\ Dated /\ AnswerIsWhole /\ Ahead
    /\ SeenIsHandled /\ NothingMissed /\ OnlyDismissedMarked

-----------------------------------------------------------------------------
(* The operators the actions are built from. *)

\* The two constant records are of their types.
LEMMA NoTaskType ==
    /\ NoTask \in Tasks /\ NewAccount \in Account
    /\ NoTask.toMark = {} /\ NoTask.foundRead = {} /\ NoTask.day = 0
    /\ NoTask.step # "apply" /\ NoTask.kind = "none"
BY NotificationsAssumption DEF NoTask, Tasks, Steps, NewAccount, Account

\* The task left with only the save holds no answer any more.
LEMMA SavingType ==
    ASSUME NEW t \in Tasks
    PROVE  /\ Saving(t) \in Tasks
           /\ Saving(t).toMark = {} /\ Saving(t).foundRead = {}
           /\ Saving(t).day = 0 /\ Saving(t).step = "save"
           /\ Saving(t).kind = t.kind
<1>1. t.kind \in {"none", "update", "send"}
  BY DEF Tasks
<1>2. Saving(t) \in Tasks
  BY <1>1, NoTaskType DEF Saving, Tasks, Steps
<1>3. Saving(t).toMark = {} /\ Saving(t).foundRead = {} /\ Saving(t).day = 0
  BY <1>1 DEF Saving, NoTask
<1>4. Saving(t).step = "save" /\ Saving(t).kind = t.kind
  BY <1>1 DEF Saving, NoTask
<1> QED
  BY <1>2, <1>3, <1>4

\* Continue changes a task's place and list, and never makes up an answer.
LEMMA ContinueType ==
    ASSUME NEW t \in Tasks, NEW left \in SUBSET Messages
    PROVE  /\ Continue(t, left) \in Tasks
           /\ Continue(t, left).toMark = left
           /\ Continue(t, left).foundRead \in {t.foundRead, {}}
           /\ Continue(t, left).day \in {t.day, 0}
           /\ Continue(t, left).step # "apply"
<1>1. CASE left # {}
  <2>1. Continue(t, left) = [t EXCEPT !.step = "mark", !.toMark = left]
    BY <1>1 DEF Continue
  <2>2. [t EXCEPT !.step = "mark", !.toMark = left] \in Tasks
    BY DEF Tasks, Steps
  <2> QED
    BY <2>1, <2>2 DEF Tasks
<1>2. CASE left = {} /\ t.kind = "update"
  <2>1. Continue(t, left) = [t EXCEPT !.step = "fetch", !.toMark = {}]
    BY <1>2 DEF Continue
  <2>2. [t EXCEPT !.step = "fetch", !.toMark = {}] \in Tasks
    BY DEF Tasks, Steps
  <2> QED
    BY <1>2, <2>1, <2>2 DEF Tasks
<1>3. CASE left = {} /\ t.kind # "update"
  <2>1. Continue(t, left) = Saving(t)
    BY <1>3 DEF Continue
  <2> QED
    BY <1>3, <2>1, SavingType
<1> QED
  BY <1>1, <1>2, <1>3

-----------------------------------------------------------------------------
(* Type correctness. *)

\* The initial state is typed.
LEMMA InitType == Init => TypeOK
<1> SUFFICES ASSUME Init PROVE TypeOK
  OBVIOUS
<1>1. /\ store \in Account /\ mem \in Account /\ task \in Tasks
      /\ loaded \in BOOLEAN /\ recent \in BOOLEAN
  BY NoTaskType DEF Init
<1>2. /\ today \in Days /\ received \in [Messages -> 0 .. MaxDay]
      /\ read \subseteq Messages /\ expired \subseteq Messages
      /\ enabled \subseteq Meters /\ screen \subseteq Messages
  BY NotificationsAssumption DEF Init, Days
<1>3. /\ updates \in Nat /\ sends \in Nat /\ stops \in Nat
      /\ dismissed \subseteq Messages
  BY DEF Init
<1> QED
  BY <1>1, <1>2, <1>3 DEF TypeOK

\* No step takes a variable out of its type.
LEMMA NextType == TypeOK /\ [Next]_vars => TypeOK'
<1> SUFFICES ASSUME TypeOK, [Next]_vars PROVE TypeOK'
  OBVIOUS
<1> USE NotificationsAssumption DEF TypeOK, Days
<1>1. ASSUME NEW m \in Messages, Receive(m) PROVE TypeOK'
  BY <1>1 DEF Receive
<1>2. ASSUME NEW m \in Messages, ReadInPortal(m) PROVE TypeOK'
  BY <1>2 DEF ReadInPortal
<1>3. ASSUME NEW m \in Messages, Expire(m) PROVE TypeOK'
  BY <1>3 DEF Expire
<1>4. CASE Midnight
  BY <1>4 DEF Midnight
<1>5. CASE IntervalPasses
  BY <1>5 DEF IntervalPasses, portal
<1>6. ASSUME NEW S \in SUBSET Meters, ChangeOptions(S) PROVE TypeOK'
  BY <1>6 DEF ChangeOptions
<1>7. CASE CallUpdate
  BY <1>7 DEF CallUpdate, portal
<1>8. CASE StartUpdate
  <2> DEFINE t == [NoTask EXCEPT !.kind = "update", !.meters = enabled,
                                 !.day = today]
  <2>1. t \in Tasks
    <3>1. enabled \in SUBSET Meters /\ today \in 0 .. MaxDay
      OBVIOUS
    <3> HIDE DEF TypeOK, Days
    <3> QED
      BY <3>1, NoTaskType DEF Tasks, Steps
  <2>2. Opened \in Account /\ Opened.readToSend \in SUBSET Messages
    BY DEF Opened, Account
  <2>3. Continue(t, ToMarkAtUpdate(Opened)) \in Tasks
    BY <2>1, <2>2, ContinueType DEF ToMarkAtUpdate
  <2>4. task' \in Tasks
    BY <1>8, <2>3, NoTaskType DEF StartUpdate
  <2>5. screen' \subseteq Messages
    BY <1>8 DEF StartUpdate, PutBack, Account
  <2> QED
    BY <1>8, <2>2, <2>4, <2>5 DEF StartUpdate, portal
<1>9. CASE StartSend
  <2>1. [NoTask EXCEPT !.kind = "send"] \in Tasks
    BY NoTaskType DEF NoTask, Tasks, Steps
  <2>2. mem.readToSend \in SUBSET Messages
    BY DEF Account
  <2>3. task' \in Tasks
    BY <1>9, <2>1, <2>2, ContinueType DEF StartSend
  <2> QED
    BY <1>9, <2>3 DEF StartSend, CanSend, portal
<1>10. ASSUME NEW m \in Messages, MarkRead(m) PROVE TypeOK'
  <2>1. task.toMark \ {m} \in SUBSET Messages
    BY DEF Tasks
  <2>2. task' \in Tasks
    BY <1>10, <2>1, ContinueType DEF MarkRead
  <2>3. mem' \in Account
    BY <1>10 DEF MarkRead, Account
  <2> QED
    BY <1>10, <2>2, <2>3 DEF MarkRead
<1>11. ASSUME NEW m \in Messages, MarkFails(m) PROVE TypeOK'
  <2>1. task' \in Tasks
    BY <1>11, ContinueType DEF MarkFails
  <2> QED
    BY <1>11, <2>1 DEF MarkFails, TriedAgain
<1>12. CASE FetchAnswered
  <2>1. Answer \in SUBSET Messages
    BY DEF Answer
  <2>2. task' \in Tasks
    BY <1>12, <2>1 DEF FetchAnswered, Tasks, Steps
  <2> QED
    BY <1>12, <2>2 DEF FetchAnswered, portal
<1>13. CASE FetchFails
  <2>1. task' \in Tasks
    BY <1>13, SavingType DEF FetchFails
  <2> QED
    BY <1>13, <2>1 DEF FetchFails, portal
<1>14. CASE Apply
  <2>1. task' \in Tasks
    BY <1>14, SavingType DEF Apply
  <2>2. mem' \in Account
    BY <1>14 DEF Apply, FoundNew, Account, Tasks
  <2>3. screen' \in SUBSET Messages
    BY <1>14 DEF Apply, FoundNew, Tasks
  <2> QED
    BY <1>14, <2>1, <2>2, <2>3 DEF Apply, portal
<1>15. CASE Save
  BY <1>15, NoTaskType DEF Save, portal
<1>16. CASE CancelUpdate
  BY <1>16, NoTaskType DEF CancelUpdate, portal
<1>17. ASSUME NEW S \in SUBSET Messages, Dismiss(S) PROVE TypeOK'
  <2>1. mem' \in Account
    BY <1>17 DEF Dismiss, Account
  <2> QED
    BY <1>17, <2>1 DEF Dismiss, portal
<1>18. CASE Restart
  <2>1. loaded' \in BOOLEAN /\ recent' \in BOOLEAN
    BY <1>18 DEF Restart
  <2>2. mem' \in Account /\ task' \in Tasks
    BY <1>18, NoTaskType DEF Restart
  <2>3. UNCHANGED <<portal, store, dismissed>> /\ stops' = stops + 1
    BY <1>18 DEF Restart
  <2>4. screen' = {} /\ updates' = 0 /\ sends' = 0
    BY <1>18 DEF Restart
  <2> QED
    BY <2>1, <2>2, <2>3, <2>4 DEF portal
<1>19. CASE UNCHANGED vars
  BY <1>19 DEF vars, portal
<1> QED
  BY <1>1, <1>2, <1>3, <1>4, <1>5, <1>6, <1>7, <1>8, <1>9, <1>10, <1>11,
     <1>12, <1>13, <1>14, <1>15, <1>16, <1>17, <1>18, <1>19
  DEF Next, LockedStep

\* Every reachable state is type correct.
THEOREM TypeCorrect == Spec => []TypeOK
<1>1. Init => TypeOK
  BY InitType
<1>2. TypeOK /\ [Next]_vars => TypeOK'
  BY NextType
<1> QED
  BY <1>1, <1>2, PTL DEF Spec

-----------------------------------------------------------------------------
(* The inductive invariant is kept. *)

\* The initial state is safe: nothing has been received.
LEMMA InitSafe == Init => Safe
<1> SUFFICES ASSUME Init PROVE Safe
  OBVIOUS
<1> USE DEF Init
<1>1. Fresh /\ ScreenIsWatched /\ Ahead
  BY DEF Fresh, ScreenIsWatched, Ahead
<1>2. Tidy(mem) /\ Tidy(store)
  BY DEF Tidy, NewAccount
<1>3. Dated
  BY DEF Dated, NewAccount, NoTask
<1>4. AnswerIsWhole
  BY NoTaskType DEF AnswerIsWhole
<1>5. SeenIsHandled
  BY DEF SeenIsHandled, Handled, NewAccount
<1>6. NothingMissed
  BY DEF NothingMissed, Complete, NewAccount
<1>7. OnlyDismissedMarked
  BY NoTaskType DEF OnlyDismissedMarked, NewAccount
<1> QED
  BY <1>1, <1>2, <1>3, <1>4, <1>5, <1>6, <1>7 DEF Safe

\* What the portal, the calendar and the options can do to the account.
PortalMoves ==
    /\ UNCHANGED <<screen, store, loaded, mem, task, dismissed>>
    /\ sends' = sends
    /\ read \subseteq read' /\ expired \subseteq expired'
    /\ today =< today'
    /\ \A m \in Messages :
          received'[m] = received[m] \/ (received[m] = 0 /\ received'[m] = today)

\* The portal, the calendar and the user break nothing.
LEMMA PortalSafe == TypeOK /\ TypeOK' /\ Safe /\ PortalMoves => Safe'
<1> SUFFICES ASSUME TypeOK, TypeOK', Safe, PortalMoves PROVE Safe'
  OBVIOUS
<1> USE DEF PortalMoves
<1>1. (Fresh /\ ScreenIsWatched)'
  BY DEF Safe, Fresh, ScreenIsWatched
<1>2. (Tidy(mem) /\ Tidy(store))'
  BY DEF Safe, Tidy
<1>3. Dated'
  <2>1. today \in Int /\ today' \in Int
    BY DEF TypeOK, Days
  <2>2. mem.checkedUntil \in Int /\ store.checkedUntil \in Int
        /\ task.day \in Int
    BY DEF TypeOK, Account, Tasks
  <2> QED
    BY <2>1, <2>2 DEF Safe, Dated
<1>4. AnswerIsWhole'
  <2> SUFFICES ASSUME task.kind = "update", task.step = "apply",
                      NEW m \in Messages, received'[m] # 0,
                      Owner[m] \in task.meters, received'[m] < task.day
               PROVE  m \in mem.seen \cup task.found
    BY DEF Safe, AnswerIsWhole
  <2>1. received'[m] # today
    <3>1. today \in Int /\ task.day \in Int /\ task.day =< today
      BY DEF Safe, Dated, TypeOK, Days, Tasks
    <3> QED
      BY <3>1
  <2>2. received'[m] = received[m]
    BY <2>1
  <2> QED
    BY <2>2 DEF Safe, AnswerIsWhole
<1>5. Ahead'
  BY DEF Safe, Ahead
<1>6. SeenIsHandled'
  BY DEF Safe, SeenIsHandled, Handled, Current
<1>7. NothingMissed'
  <2>1. ASSUME NEW account \in Account, account.checkedUntil =< today,
               Complete(account),
               NEW m \in Messages, received'[m] # 0,
               Owner[m] \in account.meters, received'[m] < account.checkedUntil
        PROVE  m \in account.seen
    <3>1. today \in Int /\ account.checkedUntil \in Int
      BY <2>1 DEF TypeOK, Days, Account
    <3>2. received'[m] # today
      BY <2>1, <3>1
    <3>3. received'[m] = received[m]
      BY <2>1, <3>2
    <3> QED
      BY <2>1, <3>3 DEF Complete
  <2>2. mem \in Account /\ store \in Account
    BY DEF TypeOK
  <2> QED
    BY <2>1, <2>2 DEF Safe, Dated, NothingMissed, Complete
<1>8. OnlyDismissedMarked'
  BY DEF Safe, OnlyDismissedMarked
<1> QED
  BY <1>1, <1>2, <1>3, <1>4, <1>5, <1>6, <1>7, <1>8 DEF Safe

\* A load, or the start of a check without one.
LEMMA StartUpdateSafe == TypeOK /\ TypeOK' /\ Safe /\ StartUpdate => Safe'
<1> SUFFICES ASSUME TypeOK, TypeOK', Safe, StartUpdate PROVE Safe'
  OBVIOUS
<1> DEFINE t == [NoTask EXCEPT !.kind = "update", !.meters = enabled,
                               !.day = today]
<1>1. /\ mem' = Opened /\ loaded' = TRUE /\ screen' = PutBack
      /\ UNCHANGED <<today, received, read, expired, store, dismissed, sends>>
      /\ task' = NoTask \/ task' = Continue(t, Opened.readToSend)
  BY DEF StartUpdate, portal, ToMarkAtUpdate
<1>2. t \in Tasks /\ t.foundRead = {} /\ t.day = today
  <2>1. enabled \in SUBSET Meters /\ today \in 0 .. MaxDay
    BY DEF TypeOK, Days
  <2> QED
    BY <2>1, NoTaskType DEF Tasks, Steps, NoTask
<1>3. Opened \in Account /\ Opened.readToSend \in SUBSET Messages
  BY DEF Opened, Account, TypeOK
<1>4. /\ task'.toMark \subseteq Opened.readToSend
      /\ task'.foundRead = {} /\ task'.step # "apply"
      /\ task'.day \in {0, today}
  <2>1. CASE task' = NoTask
    BY <2>1, NoTaskType
  <2>2. CASE task' = Continue(t, Opened.readToSend)
    <3> HIDE DEF t
    <3> QED
      BY <2>2, <1>2, <1>3, ContinueType
  <2> QED
    BY <1>1, <2>1, <2>2
<1> HIDE DEF t
<1>5. Opened \in {mem, store}
  BY DEF Opened
<1>6. (Fresh /\ ScreenIsWatched)'
  BY <1>1 DEF Safe, Fresh, ScreenIsWatched, PutBack, Opened
<1>7. (Tidy(mem) /\ Tidy(store))'
  BY <1>1, <1>5 DEF Safe, Tidy
<1>8. Dated'
  <2>1. today \in Int /\ 0 =< today
    BY DEF TypeOK, Days
  <2>2. task'.day =< today
    BY <1>4, <2>1
  <2> QED
    BY <1>1, <1>5, <2>2 DEF Safe, Dated
<1>9. AnswerIsWhole'
  BY <1>1, <1>4 DEF AnswerIsWhole
<1>10. Ahead'
  <2>1. CASE loaded
    BY <1>1, <2>1 DEF Safe, Ahead, Opened
  <2>2. CASE ~loaded
    <3>1. mem' = store /\ store' = store
      BY <1>1, <2>2 DEF Opened
    <3> QED
      BY <3>1 DEF Ahead
  <2> QED
    BY <2>1, <2>2
<1>11. SeenIsHandled'
  BY <1>1, <1>5 DEF Safe, SeenIsHandled, Handled, Current
<1>12. NothingMissed'
  BY <1>1, <1>5 DEF Safe, NothingMissed, Complete
<1>13. OnlyDismissedMarked'
  BY <1>1, <1>4, <1>5 DEF Safe, OnlyDismissedMarked
<1> QED
  BY <1>6, <1>7, <1>8, <1>9, <1>10, <1>11, <1>12, <1>13 DEF Safe

\* A step of the task holding the lock that leaves the account alone.
TaskMoves ==
    /\ loaded
    /\ UNCHANGED <<today, received, expired, screen, store, loaded, mem,
                   dismissed>>
    /\ read \subseteq read'
    /\ task'.toMark \subseteq task.toMark \cup mem.readToSend
    /\ task'.foundRead \subseteq task.foundRead
    /\ task'.day \in {0, task.day}
    /\ task'.step # "apply"

\* The steps of the checks and of the senders break nothing.
LEMMA TaskSafe == TypeOK /\ Safe /\ TaskMoves => Safe'
<1> SUFFICES ASSUME TypeOK, Safe, TaskMoves PROVE Safe'
  OBVIOUS
<1> USE DEF TaskMoves
<1>1. (Fresh /\ ScreenIsWatched)'
  BY DEF Safe, Fresh, ScreenIsWatched
<1>2. (Tidy(mem) /\ Tidy(store))'
  BY DEF Safe, Tidy
<1>3. Dated'
  <2>1. today \in Int /\ 0 =< today
    BY DEF TypeOK, Days
  <2> QED
    BY <2>1 DEF Safe, Dated
<1>4. AnswerIsWhole'
  BY DEF Safe, AnswerIsWhole
<1>5. Ahead'
  BY DEF Safe, Ahead
<1>6. SeenIsHandled'
  BY DEF Safe, SeenIsHandled, Handled, Current
<1>7. NothingMissed'
  BY DEF Safe, NothingMissed, Complete
<1>8. OnlyDismissedMarked'
  BY DEF Safe, OnlyDismissedMarked
<1> QED
  BY <1>1, <1>2, <1>3, <1>4, <1>5, <1>6, <1>7, <1>8 DEF Safe

\* A dismissal that starts to be sent breaks nothing.
LEMMA StartSendSafe == TypeOK /\ Safe /\ StartSend => Safe'
<1> SUFFICES ASSUME TypeOK, Safe, StartSend PROVE TaskMoves
  BY TaskSafe
<1> DEFINE t == [NoTask EXCEPT !.kind = "send"]
<1>1. t \in Tasks /\ t.foundRead = {} /\ t.day = 0
  BY NoTaskType DEF Tasks, Steps, NoTask
<1>2. mem.readToSend \in SUBSET Messages
  BY DEF TypeOK, Account
<1>3. task' = Continue(t, mem.readToSend)
  BY DEF StartSend
<1> HIDE DEF t
<1>4. /\ task'.toMark = mem.readToSend /\ task'.foundRead = {}
      /\ task'.day = 0 /\ task'.step # "apply"
  BY <1>1, <1>2, <1>3, ContinueType
<1>5. sends # 0
  BY DEF StartSend, CanSend, TypeOK
<1>6. loaded
  BY <1>5 DEF Safe, Fresh
<1> QED
  BY <1>4, <1>6 DEF TaskMoves, StartSend, portal

\* A refused dismissal stays among those to send.
LEMMA MarkFailsSafe ==
    ASSUME TypeOK, Safe, NEW m \in Messages, MarkFails(m) PROVE Safe'
<1> SUFFICES TaskMoves
  BY TaskSafe
<1>1. task \in Tasks /\ {} \in SUBSET Messages
  BY DEF TypeOK
<1>2. /\ task'.toMark = {} /\ task'.foundRead \in {task.foundRead, {}}
      /\ task'.day \in {task.day, 0} /\ task'.step # "apply"
  BY <1>1, ContinueType DEF MarkFails
<1>3. loaded
  BY NoTaskType DEF Safe, Fresh, MarkFails
<1> QED
  BY <1>2, <1>3 DEF TaskMoves, MarkFails, TriedAgain

\* A check the portal does not answer breaks nothing.
LEMMA FetchFailsSafe == TypeOK /\ Safe /\ FetchFails => Safe'
<1> SUFFICES ASSUME TypeOK, Safe, FetchFails PROVE TaskMoves
  BY TaskSafe
<1>1. /\ task'.toMark = {} /\ task'.foundRead = {}
      /\ task'.day = 0 /\ task'.step # "apply"
  BY SavingType DEF FetchFails, TypeOK
<1>2. loaded
  BY NoTaskType DEF Safe, Fresh, FetchFails
<1> QED
  BY <1>1, <1>2 DEF TaskMoves, FetchFails, portal

\* A cancelled check breaks nothing.
LEMMA CancelUpdateSafe == TypeOK /\ Safe /\ CancelUpdate => Safe'
<1> SUFFICES ASSUME TypeOK, Safe, CancelUpdate PROVE TaskMoves
  BY TaskSafe
<1>1. loaded
  BY NoTaskType DEF Safe, Fresh, CancelUpdate
<1> QED
  BY <1>1, NoTaskType DEF TaskMoves, CancelUpdate, portal

\* The portal took a "read": the message leaves the list.
LEMMA MarkReadSafe ==
    ASSUME TypeOK, TypeOK', Safe, NEW m \in Messages, MarkRead(m) PROVE Safe'
<1>1. /\ UNCHANGED <<today, received, expired, screen, store, loaded,
                     dismissed>>
      /\ read' = read \cup {m}
  BY DEF MarkRead
<1>2. /\ mem'.readToSend = mem.readToSend \ {m}
      /\ mem'.seen = mem.seen /\ mem'.shown = mem.shown
      /\ mem'.meters = mem.meters /\ mem'.checkedUntil = mem.checkedUntil
  BY DEF MarkRead, TypeOK, Account
<1>3. /\ task'.toMark = task.toMark \ {m}
      /\ task'.foundRead \in {task.foundRead, {}}
      /\ task'.day \in {task.day, 0} /\ task'.step # "apply"
  <2>1. task \in Tasks /\ task.toMark \ {m} \in SUBSET Messages
    BY DEF TypeOK, Tasks
  <2> QED
    BY <2>1, ContinueType DEF MarkRead
<1>4. loaded
  BY NoTaskType DEF Safe, Fresh, MarkRead
<1>5. (Fresh /\ ScreenIsWatched)'
  BY <1>1, <1>2, <1>4 DEF Safe, Fresh, ScreenIsWatched
<1>6. (Tidy(mem) /\ Tidy(store))'
  BY <1>1, <1>2 DEF Safe, Tidy
<1>7. Dated'
  <2>1. today \in Int /\ 0 =< today
    BY DEF TypeOK, Days
  <2> QED
    BY <1>1, <1>2, <1>3, <2>1 DEF Safe, Dated
<1>8. AnswerIsWhole'
  BY <1>1, <1>3 DEF Safe, AnswerIsWhole
<1>9. Ahead'
  BY <1>1, <1>2 DEF Safe, Ahead
<1>10. SeenIsHandled'
  BY <1>1, <1>2 DEF Safe, SeenIsHandled, Handled, Current
<1>11. NothingMissed'
  BY <1>1, <1>2 DEF Safe, NothingMissed, Complete
<1>12. OnlyDismissedMarked'
  BY <1>1, <1>2, <1>3 DEF Safe, OnlyDismissedMarked
<1> QED
  BY <1>5, <1>6, <1>7, <1>8, <1>9, <1>10, <1>11, <1>12 DEF Safe

\* The portal answers: what the answer leaves out was seen before.
LEMMA FetchAnsweredSafe == TypeOK /\ Safe /\ FetchAnswered => Safe'
<1> SUFFICES ASSUME TypeOK, Safe, FetchAnswered PROVE Safe'
  OBVIOUS
<1>1. /\ UNCHANGED <<today, received, read, expired, screen, store, loaded,
                     mem, dismissed, sends>>
  BY DEF FetchAnswered, portal
<1>2. /\ task'.toMark = task.toMark /\ task'.found = Answer
      /\ task'.foundRead = Answer \cap read /\ task'.day = task.day
      /\ task'.meters = task.meters
  BY DEF FetchAnswered, TypeOK, Tasks
<1>3. loaded
  BY NoTaskType DEF Safe, Fresh, FetchAnswered
<1>4. AnswerIsWhole'
  <2> SUFFICES ASSUME NEW m \in Messages, received[m] # 0,
                      Owner[m] \in task.meters, received[m] < task.day
               PROVE  m \in mem.seen \cup Answer
    BY <1>1, <1>2 DEF AnswerIsWhole
  <2>1. received[m] \in Int /\ task.day \in Int /\ mem.checkedUntil \in Int
    BY DEF TypeOK, Tasks, Account
  <2>2. CASE Whole
    BY <2>2 DEF Answer
  <2>3. CASE ~Whole /\ received[m] < mem.checkedUntil
    <3>1. task.meters \subseteq mem.meters
      BY <2>3 DEF Whole
    <3> QED
      BY <2>3, <3>1 DEF Safe, NothingMissed, Complete
  <2>4. CASE ~Whole /\ ~(received[m] < mem.checkedUntil)
    <3>1. mem.checkedUntil < task.day
      BY <2>1, <2>4
    <3>2. received[m] \in mem.checkedUntil .. task.day
      BY <2>1, <2>4
    <3> QED
      BY <3>1, <3>2 DEF Answer
  <2> QED
    BY <2>2, <2>3, <2>4
<1>5. (Fresh /\ ScreenIsWatched)'
  BY <1>1, <1>3 DEF Safe, Fresh, ScreenIsWatched
<1>6. (Tidy(mem) /\ Tidy(store) /\ Dated /\ Ahead)'
  BY <1>1, <1>2 DEF Safe, Tidy, Dated, Ahead
<1>7. (SeenIsHandled /\ NothingMissed)'
  BY <1>1 DEF Safe, SeenIsHandled, Handled, Current, NothingMissed, Complete
<1>8. OnlyDismissedMarked'
  BY <1>1, <1>2 DEF Safe, OnlyDismissedMarked
<1> QED
  BY <1>4, <1>5, <1>6, <1>7, <1>8 DEF Safe

\* A check comes to its end: seen messages are shown, and the day is noted.
LEMMA ApplySafe == TypeOK /\ TypeOK' /\ Safe /\ Apply => Safe'
<1> SUFFICES ASSUME TypeOK, TypeOK', Safe, Apply PROVE Safe'
  OBVIOUS
<1> DEFINE show == {m \in FoundNew : ShouldShow(m, task.foundRead)}
<1>1. /\ UNCHANGED <<today, received, read, expired, store, loaded, dismissed,
                     sends>>
      /\ screen' = screen \cup show
      /\ task.kind = "update" /\ task.step = "apply"
  BY DEF Apply, portal
<1>2. /\ mem'.seen = mem.seen \cup FoundNew /\ mem'.shown = mem.shown \cup show
      /\ mem'.readToSend = mem.readToSend
      /\ mem'.checkedUntil = task.day /\ mem'.meters = task.meters
  BY DEF Apply, TypeOK, Account
<1>3. /\ task'.toMark = {} /\ task'.foundRead = {}
      /\ task'.day = 0 /\ task'.step # "apply"
  BY SavingType DEF Apply, TypeOK
<1>4. loaded
  BY <1>1, NoTaskType DEF Safe, Fresh
<1>5. FoundNew = task.found \ mem.seen /\ show \subseteq FoundNew
  BY DEF FoundNew
<1>6. \A m \in FoundNew : m \notin read \cup expired => m \in show
  BY DEF Safe, AnswerIsWhole, ShouldShow
<1> HIDE DEF show
<1>7. (Fresh /\ ScreenIsWatched)'
  BY <1>1, <1>2, <1>4 DEF Safe, Fresh, ScreenIsWatched
<1>8. (Tidy(mem) /\ Tidy(store))'
  BY <1>1, <1>2, <1>5 DEF Safe, Tidy
<1>9. Dated'
  <2>1. today \in Int /\ 0 =< today
    BY DEF TypeOK, Days
  <2> QED
    BY <1>1, <1>2, <1>3, <2>1 DEF Safe, Dated
<1>10. AnswerIsWhole'
  BY <1>3 DEF AnswerIsWhole
<1>11. Ahead'
  BY <1>1, <1>2, <1>4, <1>5 DEF Safe, Ahead
<1>12. SeenIsHandled'
  BY <1>1, <1>2, <1>6 DEF Safe, SeenIsHandled, Handled, Current
<1>13. Complete(mem)'
  <2> SUFFICES ASSUME NEW m \in Messages, received[m] # 0,
                      Owner[m] \in task.meters, received[m] < task.day
               PROVE  m \in mem.seen \cup FoundNew
    BY <1>1, <1>2 DEF Complete
  <2>1. m \in mem.seen \cup task.found
    BY <1>1 DEF Safe, AnswerIsWhole
  <2> QED
    BY <1>5, <2>1
<1>14. NothingMissed'
  BY <1>1, <1>13 DEF Safe, NothingMissed, Complete
<1>15. OnlyDismissedMarked'
  BY <1>1, <1>2, <1>3 DEF Safe, OnlyDismissedMarked
<1> QED
  BY <1>7, <1>8, <1>9, <1>10, <1>11, <1>12, <1>14, <1>15 DEF Safe

\* What a check stores is what it found.
LEMMA SaveSafe == TypeOK /\ Safe /\ Save => Safe'
<1> SUFFICES ASSUME TypeOK, Safe, Save PROVE Safe'
  OBVIOUS
<1>1. /\ UNCHANGED <<today, received, read, expired, screen, loaded, mem,
                     dismissed, sends>>
      /\ store' = mem /\ task' = NoTask
  BY DEF Save, portal
<1>2. loaded
  BY NoTaskType DEF Safe, Fresh, Save
<1>3. (Fresh /\ ScreenIsWatched /\ Ahead)'
  BY <1>1, <1>2 DEF Safe, Fresh, ScreenIsWatched, Ahead
<1>4. (Tidy(mem) /\ Tidy(store))'
  BY <1>1 DEF Safe, Tidy
<1>5. Dated'
  <2>1. today \in Int /\ 0 =< today
    BY DEF TypeOK, Days
  <2> QED
    BY <1>1, <2>1, NoTaskType DEF Safe, Dated
<1>6. AnswerIsWhole'
  BY <1>1, NoTaskType DEF AnswerIsWhole
<1>7. (SeenIsHandled /\ NothingMissed)'
  BY <1>1 DEF Safe, SeenIsHandled, Handled, Current, NothingMissed, Complete
<1>8. OnlyDismissedMarked'
  BY <1>1, NoTaskType DEF Safe, OnlyDismissedMarked
<1> QED
  BY <1>3, <1>4, <1>5, <1>6, <1>7, <1>8 DEF Safe

\* A dismissal the integration hears of is noted.
LEMMA DismissSafe ==
    ASSUME TypeOK, Safe, NEW S \in SUBSET Messages, Dismiss(S) PROVE Safe'
<1>1. /\ UNCHANGED <<today, received, read, expired, store, loaded, task>>
      /\ screen' = screen \ S /\ dismissed' = dismissed \cup S
      /\ S # {} /\ S \subseteq screen
  BY DEF Dismiss, portal
<1>2. /\ mem'.shown = mem.shown \ S
      /\ mem'.readToSend = mem.readToSend \cup (S \cap mem.shown)
      /\ mem'.seen = mem.seen /\ mem'.meters = mem.meters
      /\ mem'.checkedUntil = mem.checkedUntil
  BY DEF Dismiss, TypeOK, Account
<1>3. loaded
  BY <1>1 DEF Safe, Fresh
<1>4. (Fresh /\ ScreenIsWatched)'
  BY <1>1, <1>2, <1>3 DEF Safe, Fresh, ScreenIsWatched
<1>5. (Tidy(mem) /\ Tidy(store))'
  BY <1>1, <1>2 DEF Safe, Tidy
<1>6. (Dated /\ AnswerIsWhole)'
  BY <1>1, <1>2 DEF Safe, Dated, AnswerIsWhole
<1>7. Ahead'
  BY <1>1, <1>2 DEF Safe, Ahead
<1>8. (SeenIsHandled /\ NothingMissed)'
  BY <1>1, <1>2
  DEF Safe, SeenIsHandled, Handled, Current, NothingMissed, Complete
<1>9. OnlyDismissedMarked'
  BY <1>1, <1>2 DEF Safe, OnlyDismissedMarked
<1> QED
  BY <1>4, <1>5, <1>6, <1>7, <1>8, <1>9 DEF Safe

\* A restart falls back on what was stored.
LEMMA RestartSafe == TypeOK /\ Safe /\ Restart => Safe'
<1> SUFFICES ASSUME TypeOK, Safe, Restart PROVE Safe'
  OBVIOUS
<1>1. /\ UNCHANGED <<today, received, read, expired, store, dismissed>>
      /\ screen' = {} /\ mem' = NewAccount /\ loaded' = FALSE
      /\ task' = NoTask /\ sends' = 0
  BY DEF Restart, portal
<1>2. (Fresh /\ ScreenIsWatched /\ Ahead)'
  BY <1>1 DEF Fresh, ScreenIsWatched, Ahead
<1>3. (Tidy(mem) /\ Tidy(store))'
  BY <1>1 DEF Safe, Tidy, NewAccount
<1>4. Dated'
  <2>1. today \in Int /\ 0 =< today
    BY DEF TypeOK, Days
  <2> QED
    BY <1>1, <2>1, NoTaskType DEF Safe, Dated, NewAccount
<1>5. AnswerIsWhole'
  BY <1>1, NoTaskType DEF AnswerIsWhole
<1>6. SeenIsHandled'
  BY <1>1 DEF Safe, SeenIsHandled, Handled, Current, NewAccount
<1>7. NothingMissed'
  BY <1>1 DEF Safe, NothingMissed, Complete, NewAccount
<1>8. OnlyDismissedMarked'
  BY <1>1, NoTaskType DEF Safe, OnlyDismissedMarked, NewAccount
<1> QED
  BY <1>2, <1>3, <1>4, <1>5, <1>6, <1>7, <1>8 DEF Safe

\* The steps of the environment are portal moves.
LEMMA PortalActions ==
    ASSUME TypeOK,
           \/ \E m \in Messages : Receive(m) \/ ReadInPortal(m) \/ Expire(m)
           \/ Midnight \/ IntervalPasses \/ CallUpdate
           \/ \E S \in SUBSET Meters : ChangeOptions(S)
           \/ UNCHANGED vars
    PROVE  PortalMoves
<1>1. today \in Int
  BY DEF TypeOK, Days
<1>2. ASSUME NEW m \in Messages, Receive(m) PROVE PortalMoves
  BY <1>1, <1>2 DEF PortalMoves, Receive, TypeOK
<1>3. ASSUME NEW m \in Messages, ReadInPortal(m) \/ Expire(m) PROVE PortalMoves
  BY <1>1, <1>3 DEF PortalMoves, ReadInPortal, Expire
<1>4. CASE Midnight
  BY <1>1, <1>4 DEF PortalMoves, Midnight
<1>5. CASE IntervalPasses \/ CallUpdate
  BY <1>1, <1>5 DEF PortalMoves, IntervalPasses, CallUpdate, portal
<1>6. ASSUME NEW S \in SUBSET Meters, ChangeOptions(S) PROVE PortalMoves
  BY <1>1, <1>6 DEF PortalMoves, ChangeOptions
<1>7. CASE UNCHANGED vars
  BY <1>1, <1>7 DEF PortalMoves, vars, portal
<1> QED
  BY <1>2, <1>3, <1>4, <1>5, <1>6, <1>7

\* No step at all breaks the invariant.
LEMMA NextSafe == TypeOK /\ Safe /\ [Next]_vars => Safe'
<1> SUFFICES ASSUME TypeOK, Safe, [Next]_vars PROVE Safe'
  OBVIOUS
<1>1. TypeOK'
  BY NextType
<1>2. CASE \/ \E m \in Messages : Receive(m) \/ ReadInPortal(m) \/ Expire(m)
           \/ Midnight \/ IntervalPasses \/ CallUpdate
           \/ \E S \in SUBSET Meters : ChangeOptions(S)
           \/ UNCHANGED vars
  BY <1>1, <1>2, PortalActions, PortalSafe
<1>3. CASE StartUpdate
  BY <1>1, <1>3, StartUpdateSafe
<1>4. CASE StartSend
  BY <1>4, StartSendSafe
<1>5. CASE LockedStep
  <2>1. ASSUME NEW m \in Messages, MarkRead(m) PROVE Safe'
    BY <1>1, <2>1, MarkReadSafe
  <2>2. ASSUME NEW m \in Messages, MarkFails(m) PROVE Safe'
    BY <2>2, MarkFailsSafe
  <2> QED
    BY <1>1, <1>5, <2>1, <2>2, FetchAnsweredSafe, FetchFailsSafe, ApplySafe,
       SaveSafe, CancelUpdateSafe DEF LockedStep
<1>6. ASSUME NEW S \in SUBSET Messages, Dismiss(S) PROVE Safe'
  BY <1>6, DismissSafe
<1>7. CASE Restart
  BY <1>7, RestartSafe
<1> QED
  BY <1>2, <1>3, <1>4, <1>5, <1>6, <1>7 DEF Next

\* The invariant holds in every reachable state.
LEMMA Invariance == Spec => [](TypeOK /\ Safe)
<1>1. Init => TypeOK /\ Safe
  BY InitType, InitSafe
<1>2. TypeOK /\ Safe /\ [Next]_vars => (TypeOK /\ Safe)'
  BY NextType, NextSafe
<1> QED
  BY <1>1, <1>2, PTL DEF Spec

-----------------------------------------------------------------------------
(* The properties. *)

\* A seen message is on screen or waits for its "read" as long as the portal
\* would present it, in memory and on disk.
THEOREM SeenMessagesAreHandled == Spec => []SeenIsHandled
<1>1. TypeOK /\ Safe => SeenIsHandled
  BY DEF Safe
<1> QED
  BY <1>1, Invariance, PTL

\* No message received before the day checked last is missed.
THEOREM NoMessageIsMissed == Spec => []NothingMissed
<1>1. TypeOK /\ Safe => NothingMissed
  BY DEF Safe
<1> QED
  BY <1>1, Invariance, PTL

\* Only dismissed notifications are marked read in the portal.
THEOREM OnlyDismissalsAreSent == Spec => []OnlyDismissedMarked
<1>1. TypeOK /\ Safe => OnlyDismissedMarked
  BY DEF Safe
<1> QED
  BY <1>1, Invariance, PTL

\* The notifications on screen are the ones whose dismissal is acted on.
THEOREM DismissalsAreNoticed == Spec => []ScreenIsWatched
<1>1. TypeOK /\ Safe => ScreenIsWatched
  BY DEF Safe
<1> QED
  BY <1>1, Invariance, PTL

\* What NotifiedOnce says of one step.
OnceStep == \A m \in screen' \ screen : m \in store.seen => ~loaded

\* A message the store has as seen appears on screen by a load only.
THEOREM NotifiedAtMostOnce == Spec => NotifiedOnce
<1>1. TypeOK /\ Safe /\ [Next]_vars => [OnceStep]_vars
  <2> SUFFICES ASSUME TypeOK, Safe, [Next]_vars,
                      NEW m \in screen' \ screen, m \in store.seen, loaded
               PROVE  FALSE
    BY DEF OnceStep
  <2>1. CASE Apply
    BY <2>1 DEF Apply, FoundNew, Safe, Ahead
  <2>2. CASE StartUpdate
    BY <2>2 DEF StartUpdate, PutBack
  <2>3. ASSUME NEW S \in SUBSET Messages, Dismiss(S) PROVE FALSE
    BY <2>3 DEF Dismiss
  <2>4. CASE Restart
    BY <2>4 DEF Restart
  <2>5. screen' # screen
    OBVIOUS
  <2> QED
    BY <2>1, <2>2, <2>3, <2>4, <2>5
    DEF Next, LockedStep, Receive, ReadInPortal, Expire, Midnight,
        IntervalPasses, CallUpdate, ChangeOptions, StartSend, MarkRead,
        MarkFails, FetchAnswered, FetchFails, Save, CancelUpdate, vars
<1> QED
  BY <1>1, Invariance, PTL DEF Spec, NotifiedOnce, OnceStep

-----------------------------------------------------------------------------
(* The store keeps the ledger. *)

Statuses == [m \in Messages |-> Status(m)]

\* A save moves each message along the ledger.
LEMMA SaveSteps ==
    ASSUME TypeOK, Safe, Save, NEW m \in Messages
    PROVE  Ledger!Step(m, Status(m), Status(m)')
<1>1. store' = mem /\ read' = read /\ expired' = expired
  BY DEF Save, portal
<1>2. loaded
  BY NoTaskType DEF Safe, Fresh, Save
<1>3. CASE m \notin store.seen
  <2>1. Status(m) = "new"
    BY <1>3 DEF Status, Safe, Tidy
  <2>2. Status(m)' = "done" => m \in read \cup expired
    BY <1>1 DEF Status, Safe, SeenIsHandled, Handled, Current
  <2> QED
    BY <2>1, <2>2 DEF Ledger!Step, Ledger!Presented
<1>4. CASE m \in store.seen /\ m \in store.shown
  <2>1. Status(m) = "open" /\ m \in mem.seen
    BY <1>2, <1>4 DEF Status, Safe, Ahead
  <2>2. m \in mem.shown \/ m \in mem.readToSend \/ m \in read
    BY <1>2, <1>4 DEF Safe, Ahead
  <2>3. \/ Status(m)' = "open" \/ Status(m)' = "closing"
        \/ Status(m)' = "done" /\ m \in read
    BY <1>1, <2>1, <2>2 DEF Status
  <2> QED
    BY <2>1, <2>3 DEF Ledger!Step
<1>5. CASE m \in store.seen /\ m \notin store.shown /\ m \in store.readToSend
  <2>1. Status(m) = "closing" /\ m \in mem.seen /\ m \notin mem.shown
    BY <1>2, <1>5 DEF Status, Safe, Ahead
  <2>2. m \in mem.readToSend \/ m \in read
    BY <1>2, <1>5 DEF Safe, Ahead
  <2>3. Status(m)' = "closing" \/ (Status(m)' = "done" /\ m \in read)
    BY <1>1, <2>1, <2>2 DEF Status
  <2> QED
    BY <2>1, <2>3 DEF Ledger!Step
<1>6. CASE m \in store.seen /\ m \notin store.shown
           /\ m \notin store.readToSend
  <2>1. /\ Status(m) = "done" /\ m \in mem.seen
        /\ m \notin mem.shown /\ m \notin mem.readToSend
    BY <1>2, <1>6 DEF Status, Safe, Ahead
  <2>2. Status(m)' = "done"
    BY <1>1, <2>1 DEF Status
  <2> QED
    BY <2>1, <2>2 DEF Ledger!Step
<1> QED
  BY <1>3, <1>4, <1>5, <1>6

\* Only a save changes the store, and messages are never unread.
LEMMA OtherSteps ==
    ASSUME TypeOK, [Next]_vars, ~Save
    PROVE  store' = store /\ read \subseteq read' /\ expired \subseteq expired'
<1> USE DEF portal
<1>1. ASSUME NEW m \in Messages,
             Receive(m) \/ ReadInPortal(m) \/ Expire(m) \/ MarkRead(m)
             \/ MarkFails(m)
      PROVE  store' = store /\ read \subseteq read' /\ expired \subseteq expired'
  BY <1>1 DEF Receive, ReadInPortal, Expire, MarkRead, MarkFails
<1>2. ASSUME NEW S, ChangeOptions(S) \/ Dismiss(S)
      PROVE  store' = store /\ read' = read /\ expired' = expired
  BY <1>2 DEF ChangeOptions, Dismiss
<1>3. ASSUME \/ Midnight \/ IntervalPasses \/ CallUpdate \/ StartUpdate
             \/ StartSend \/ FetchAnswered \/ FetchFails \/ Apply
             \/ CancelUpdate \/ Restart \/ UNCHANGED vars
      PROVE  store' = store /\ read' = read /\ expired' = expired
  BY <1>3
  DEF Midnight, IntervalPasses, CallUpdate, StartUpdate, StartSend,
      FetchAnswered, FetchFails, Apply, CancelUpdate, Restart, vars
<1> QED
  BY <1>1, <1>2, <1>3 DEF Next, LockedStep

\* Every step is a step of the ledger, or leaves it alone.
LEMMA LedgerNext ==
    TypeOK /\ TypeOK' /\ Safe /\ [Next]_vars => [Ledger!Next]_(Ledger!vars)
<1> SUFFICES ASSUME TypeOK, TypeOK', Safe, [Next]_vars
             PROVE  Ledger!Next \/ UNCHANGED Ledger!vars
  OBVIOUS
<1>1. CASE Save
  <2>1. UNCHANGED <<read, expired>>
    BY <1>1 DEF Save, portal
  <2>2. \A m \in Messages : Status(m)' \in Ledger!Status
    BY DEF Status, Ledger!Status
  <2>3. Statuses' \in [Messages -> Ledger!Status]
    BY <2>2 DEF Statuses
  <2>4. \A m \in Messages : Ledger!Step(m, Statuses[m], Statuses'[m])
    BY <1>1, SaveSteps DEF Statuses
  <2> QED
    BY <2>1, <2>3, <2>4 DEF Ledger!Next, Ledger!Save, Statuses
<1>2. CASE ~Save
  <2>1. store' = store /\ read \subseteq read' /\ expired \subseteq expired'
    BY <1>2, OtherSteps
  <2>2. \A m \in Messages : Status(m)' = Status(m)
    BY <2>1 DEF Status
  <2>3. Statuses' = Statuses
    BY <2>2 DEF Statuses
  <2>4. read' \in SUBSET Messages /\ expired' \in SUBSET Messages
    BY DEF TypeOK
  <2> QED
    BY <2>1, <2>3, <2>4 DEF Ledger!Next, Ledger!Portal, Statuses
<1> QED
  BY <1>1, <1>2

\* Whatever is interrupted, what reaches the disk follows the ledger.
THEOREM StoreKeepsLedger == Spec => KeepsLedger
<1>1. Init => Ledger!Init
  BY DEF Init, Ledger!Init, Status, NewAccount
<1>2. TypeOK /\ TypeOK' /\ Safe /\ [Next]_vars => [Ledger!Next]_(Ledger!vars)
  BY LedgerNext
<1> QED
  BY <1>1, <1>2, Invariance, PTL DEF Spec, KeepsLedger, Ledger!Spec

\* A message the ledger is done with is one the portal would not present: whatever
\* is interrupted, the store never lets go of a message before its time.
THEOREM LedgerDropsNothing == Ledger!Spec => [](Ledger!TypeOK /\ Ledger!NothingDropped)
<1>1. Ledger!Init => Ledger!TypeOK /\ Ledger!NothingDropped
  BY DEF Ledger!Init, Ledger!TypeOK, Ledger!NothingDropped, Ledger!Status
<1>2. Ledger!TypeOK /\ Ledger!NothingDropped /\ [Ledger!Next]_(Ledger!vars)
        => (Ledger!TypeOK /\ Ledger!NothingDropped)'
  <2> SUFFICES ASSUME Ledger!TypeOK, Ledger!NothingDropped, [Ledger!Next]_(Ledger!vars)
               PROVE  (Ledger!TypeOK /\ Ledger!NothingDropped)'
    OBVIOUS
  <2>1. CASE Ledger!Save
    <3>1. ASSUME NEW m \in Messages, Status(m)' = "done"
          PROVE  m \in read \cup expired
      <4>1. Ledger!Step(m, Statuses[m], Statuses'[m])
        BY <2>1 DEF Ledger!Save, Statuses
      <4>2. Ledger!Step(m, Status(m), "done")
        BY <3>1, <4>1 DEF Statuses
      <4> QED
        BY <4>2 DEF Ledger!Step, Ledger!NothingDropped, Ledger!Presented
    <3>2. UNCHANGED <<read, expired>> /\ Statuses' \in [Messages -> Ledger!Status]
      BY <2>1 DEF Ledger!Save, Statuses
    <3> QED
      BY <3>1, <3>2 DEF Ledger!TypeOK, Ledger!NothingDropped, Ledger!Presented, Statuses
  <2>2. CASE Ledger!Portal
    BY <2>2 DEF Ledger!Portal, Ledger!TypeOK, Ledger!NothingDropped, Ledger!Presented
  <2>3. CASE UNCHANGED Ledger!vars
    BY <2>3 DEF Ledger!vars, Ledger!TypeOK, Ledger!NothingDropped, Ledger!Presented
  <2> QED
    BY <2>1, <2>2, <2>3 DEF Ledger!Next
<1> QED
  BY <1>1, <1>2, PTL DEF Ledger!Spec
=============================================================================
