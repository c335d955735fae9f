--------------------------- MODULE Notifications ---------------------------
(***************************************************************************)
(* The portal messages of one account (notifications.py): EneaNotifications *)
(* checks the portal for messages, turns the new ones into Home Assistant   *)
(* notifications, and tells the portal about the ones the user dismissed.   *)
(*                                                                         *)
(* Several refreshes, the user and the portal act on it at once.  Its tasks *)
(* are serialised by an asyncio lock, but every await inside the lock lets  *)
(* dismissals, option changes and the portal in, and Home Assistant may     *)
(* stop at any of them.  The model is one EneaNotifications object and its  *)
(* successors over restarts; the account keeps at least one loaded meter.   *)
(*                                                                         *)
(* Days are numbered from 1; 0 stands for the code's None.                  *)
(***************************************************************************)
EXTENDS Integers, FiniteSets

CONSTANTS
    Messages,       \* the messages the portal may ever send
    Meters,         \* the account's meters
    Owner,          \* the meter each message is addressed to
    EveryLogin,     \* the messages flagged presentedAfterEveryLogin
    MaxDay,         \* bound: the last day of the calendar
    MaxWaiting,     \* bound: refreshes waiting for the lock
    MaxStops        \* bound: how often Home Assistant stops

ASSUME NotificationsAssumption ==
    /\ Owner \in [Messages -> Meters]
    /\ EveryLogin \subseteq Messages
    /\ MaxDay \in Nat \ {0}
    /\ MaxWaiting \in Nat \ {0}
    /\ MaxStops \in Nat

VARIABLES
    today,      \* the calendar
    received,   \* the day the portal received each message, 0 before
    read,       \* the messages the portal has as read
    expired,    \* the messages past their expiry date or maximum age
    enabled,    \* the meters whose entries have the messages on
    screen,     \* the messages whose notification is on screen
    store,      \* the account's store on disk
    loaded,     \* _loaded
    mem,        \* _seen, _meters, _shown, _read_to_send and checked_until
    recent,     \* _last_check lies within NOTIFICATIONS_MIN_INTERVAL
    task,       \* the task holding _lock
    updates,    \* async_update calls waiting for _lock
    sends,      \* _async_send_read tasks waiting for _lock
    dismissed,  \* history: every message the user ever dismissed
    stops       \* how often Home Assistant has stopped

portal == <<today, received, read, expired, enabled>>
vars == <<portal, screen, store, loaded, mem, recent, task, updates, sends,
          dismissed, stops>>

Days == 1 .. MaxDay

\* The dictionary _async_save writes, also the fields of the object.
Account == [checkedUntil : 0 .. MaxDay, meters : SUBSET Meters,
            seen : SUBSET Messages, shown : SUBSET Messages,
            readToSend : SUBSET Messages]

NewAccount == [checkedUntil |-> 0, meters |-> {}, seen |-> {}, shown |-> {},
               readToSend |-> {}]

Steps == {"mark", "fetch", "apply", "save"}

Tasks == [kind : {"none", "update", "send"}, step : Steps,
          meters : SUBSET Meters, day : 0 .. MaxDay,
          toMark : SUBSET Messages, found : SUBSET Messages,
          foundRead : SUBSET Messages]

NoTask == [kind |-> "none", step |-> "mark", meters |-> {}, day |-> 0,
           toMark |-> {}, found |-> {}, foundRead |-> {}]

Init ==
    /\ today = 1
    /\ received = [m \in Messages |-> 0]
    /\ read = {} /\ expired = {}
    /\ enabled = Meters
    /\ screen = {}
    /\ store = NewAccount /\ mem = NewAccount
    /\ loaded = FALSE /\ recent = FALSE
    /\ task = NoTask /\ updates = 0 /\ sends = 0
    /\ dismissed = {} /\ stops = 0

-----------------------------------------------------------------------------
(* The portal, the calendar and the options. *)

Receive(m) ==
    /\ received[m] = 0
    /\ received' = [received EXCEPT ![m] = today]
    /\ UNCHANGED <<today, read, expired, enabled, screen, store, loaded, mem,
                   recent, task, updates, sends, dismissed, stops>>

ReadInPortal(m) ==
    /\ received[m] # 0 /\ m \notin read
    /\ read' = read \cup {m}
    /\ UNCHANGED <<today, received, expired, enabled, screen, store, loaded,
                   mem, recent, task, updates, sends, dismissed, stops>>

Expire(m) ==
    /\ received[m] # 0 /\ m \notin expired
    /\ expired' = expired \cup {m}
    /\ UNCHANGED <<today, received, read, enabled, screen, store, loaded, mem,
                   recent, task, updates, sends, dismissed, stops>>

Midnight ==
    /\ today < MaxDay
    /\ today' = today + 1
    /\ UNCHANGED <<received, read, expired, enabled, screen, store, loaded,
                   mem, recent, task, updates, sends, dismissed, stops>>

\* An entry is added, disabled, or has its messages option switched.
ChangeOptions(S) ==
    /\ S # enabled
    /\ enabled' = S
    /\ UNCHANGED <<today, received, read, expired, screen, store, loaded, mem,
                   recent, task, updates, sends, dismissed, stops>>

\* NOTIFICATIONS_MIN_INTERVAL has passed since _last_check.
IntervalPasses ==
    /\ recent
    /\ recent' = FALSE
    /\ UNCHANGED <<portal, screen, store, loaded, mem, task, updates, sends,
                   dismissed, stops>>

-----------------------------------------------------------------------------
(* A task holding the lock. *)

\* should_show, with the read flag the portal answered with.
ShouldShow(m, readThen) ==
    m \notin expired /\ (m \in EveryLogin \/ m \notin readThen)

\* Mutant: the task ends without saving.
SavingNothing(t) == NoTask

\* The rest of a task once only the save is left.
Saving(t) == [NoTask EXCEPT !.kind = t.kind, !.step = "save"]

\* The task goes on: after its last "read" comes the check, or the save.
Continue(t, left) ==
    IF left # {} THEN [t EXCEPT !.step = "mark", !.toMark = left]
    ELSE IF t.kind = "update" THEN [t EXCEPT !.step = "fetch", !.toMark = {}]
    ELSE Saving(t)

\* A refresh of one of the account's meters calls async_update.
CallUpdate ==
    /\ updates < MaxWaiting
    /\ updates' = updates + 1
    /\ UNCHANGED <<portal, screen, store, loaded, mem, recent, task, sends,
                   dismissed, stops>>

\* Mutant: an update never sends the reads left from before.
UnsentAtUpdate(account) == {}

\* Mutant: what was put on screen counts as read.
ShownAtUpdate(account) == account.readToSend \cup account.shown

\* What _async_mark_read of an update goes through.
ToMarkAtUpdate(account) == account.readToSend

\* Mutant: the notifications of the store are not created again.
PutBackNone == screen

\* _async_load shows the stored notifications, once.
PutBack == IF loaded THEN screen ELSE screen \cup store.shown

\* Mutant: the load leaves out the reads still to be sent.
OpenedWithoutReads == IF loaded THEN mem ELSE [store EXCEPT !.readToSend = {}]

\* The object's fields once the store has been read.
Opened == IF loaded THEN mem ELSE store

\* async_update gets the lock: load once, then check or return at once.
StartUpdate ==
    LET skip == enabled = {} \/ (recent /\ enabled \subseteq Opened.meters)
    IN  /\ task.kind = "none" /\ updates > 0
        /\ updates' = updates - 1
        /\ mem' = Opened /\ loaded' = TRUE
        /\ screen' = PutBack
        /\ task' = IF skip THEN NoTask
                   ELSE Continue([NoTask EXCEPT !.kind = "update",
                                                !.meters = enabled,
                                                !.day = today],
                                 ToMarkAtUpdate(Opened))
        /\ UNCHANGED <<portal, store, recent, sends, dismissed, stops>>

\* Mutant: a send runs though no dismissal asked for it.
LockFree == task.kind = "none"

\* A send task is waiting and the lock is free.
CanSend == task.kind = "none" /\ sends > 0

\* _async_send_read gets the lock.
StartSend ==
    /\ CanSend
    /\ sends' = sends - 1
    /\ task' = Continue([NoTask EXCEPT !.kind = "send"], mem.readToSend)
    /\ UNCHANGED <<portal, screen, store, loaded, mem, recent, updates,
                   dismissed, stops>>

\* mark_notification_read succeeds.
MarkRead(m) ==
    /\ task.kind # "none" /\ task.step = "mark" /\ m \in task.toMark
    /\ read' = read \cup {m}
    /\ mem' = [mem EXCEPT !.readToSend = @ \ {m}]
    /\ task' = Continue(task, task.toMark \ {m})
    /\ UNCHANGED <<today, received, expired, enabled, screen, store, loaded,
                   recent, updates, sends, dismissed, stops>>

\* Mutant: a message is taken off the list before its request is answered.
TriedOnce(m) == [mem EXCEPT !.readToSend = @ \ {m}]

\* A failed request leaves the message on the list.
TriedAgain(m) == mem

\* mark_notification_read fails, before or after the portal has taken it:
\* the rest waits for the next check.
MarkFails(m) ==
    /\ task.kind # "none" /\ task.step = "mark" /\ m \in task.toMark
    /\ read' \in {read, read \cup {m}}
    /\ mem' = TriedAgain(m)
    /\ task' = Continue(task, {})
    /\ UNCHANGED <<today, received, expired, enabled, screen, store, loaded,
                   recent, updates, sends, dismissed, stops>>

\* Mutant: a meter that joins the account is asked about from now on only.
WholeAtFirst == mem.checkedUntil = 0

\* A first check, or a meter never checked before: the whole history.
Whole == mem.checkedUntil = 0 \/ ~(task.meters \subseteq mem.meters)

\* The messages the portal answers with: its whole history, or the days
\* since the last check, that day included.
Answer ==
    LET from == IF mem.checkedUntil < task.day THEN mem.checkedUntil
                                               ELSE task.day
    IN  {m \in Messages :
            /\ received[m] # 0 /\ Owner[m] \in task.meters
            /\ Whole \/ received[m] \in from .. task.day}

FetchAnswered ==
    /\ task.kind = "update" /\ task.step = "fetch"
    /\ task' = [task EXCEPT !.step = "apply", !.found = Answer,
                            !.foundRead = Answer \cap read]
    /\ UNCHANGED <<portal, screen, store, loaded, mem, recent, updates, sends,
                   dismissed, stops>>

\* get_notifications raises: kept as the error, nothing else changes.
FetchFails ==
    /\ task.kind = "update" /\ task.step = "fetch"
    /\ task' = Saving(task)
    /\ UNCHANGED <<portal, screen, store, loaded, mem, recent, updates, sends,
                   dismissed, stops>>

\* Mutant: the check does not ask whether a message was seen before.
FoundAgain == task.found

\* The messages the check has not seen before.
FoundNew == task.found \ mem.seen

\* The loop of _async_check over the answer, and what async_update notes.
Apply ==
    LET show == {m \in FoundNew : ShouldShow(m, task.foundRead)}
    IN  /\ task.kind = "update" /\ task.step = "apply"
        /\ mem' = [mem EXCEPT !.seen = @ \cup FoundNew, !.shown = @ \cup show,
                              !.checkedUntil = task.day,
                              !.meters = task.meters]
        /\ screen' = screen \cup show
        /\ recent' = TRUE
        /\ task' = Saving(task)
        /\ UNCHANGED <<portal, store, loaded, updates, sends, dismissed, stops>>

\* _async_save, which ends either task and releases the lock.
Save ==
    /\ task.kind # "none" /\ task.step = "save"
    /\ store' = mem
    /\ task' = NoTask
    /\ UNCHANGED <<portal, screen, loaded, mem, recent, updates, sends,
                   dismissed, stops>>

\* The entry whose refresh runs the check is unloaded: the refresh is
\* cancelled at an await, and nothing is saved.
CancelUpdate ==
    /\ task.kind = "update"
    /\ task' = NoTask
    /\ UNCHANGED <<portal, screen, store, loaded, mem, recent, updates, sends,
                   dismissed, stops>>

-----------------------------------------------------------------------------
(* The user and Home Assistant. *)

\* The user dismisses notifications; _async_notifications_changed runs.
Dismiss(S) ==
    /\ S # {} /\ S \subseteq screen
    /\ screen' = screen \ S
    /\ dismissed' = dismissed \cup S
    /\ mem' = [mem EXCEPT !.shown = @ \ S,
                          !.readToSend = @ \cup (S \cap mem.shown)]
    /\ sends' = IF S \cap mem.shown = {} THEN sends ELSE sends + 1
    /\ UNCHANGED <<portal, store, loaded, recent, task, updates, stops>>

\* Home Assistant stops and starts: only the store and the portal are left.
Restart ==
    /\ stops < MaxStops
    /\ stops' = stops + 1
    /\ screen' = {} /\ mem' = NewAccount
    /\ loaded' = FALSE /\ recent' = FALSE
    /\ task' = NoTask /\ updates' = 0 /\ sends' = 0
    /\ UNCHANGED <<portal, store, dismissed>>

LockedStep ==
    \/ \E m \in Messages : MarkRead(m) \/ MarkFails(m)
    \/ FetchAnswered \/ FetchFails \/ Apply \/ Save \/ CancelUpdate

Next ==
    \/ \E m \in Messages : Receive(m) \/ ReadInPortal(m) \/ Expire(m)
    \/ Midnight \/ IntervalPasses
    \/ \E S \in SUBSET Meters : ChangeOptions(S)
    \/ CallUpdate \/ StartUpdate \/ StartSend \/ LockedStep
    \/ \E S \in SUBSET Messages : Dismiss(S)
    \/ Restart

Spec == Init /\ [][Next]_vars

(***************************************************************************)
(* What is sure to happen: refreshes go on (the coordinator's timer), the   *)
(* lock is handed to every waiter in turn (asyncio.Lock is first in, first  *)
(* out), a request made again and again is answered in the end, and a task  *)
(* that is resumed runs.  A refresh may be cancelled at any await, so these *)
(* are strong.                                                              *)
(***************************************************************************)
Fairness ==
    /\ WF_vars(CallUpdate) /\ WF_vars(IntervalPasses)
    /\ SF_vars(StartUpdate) /\ SF_vars(StartSend)
    /\ \A m \in Messages : SF_vars(MarkRead(m))
    /\ SF_vars(FetchAnswered) /\ SF_vars(Apply) /\ SF_vars(Save)

LiveSpec == Spec /\ Fairness

-----------------------------------------------------------------------------
(* Type and safety. *)

\* Every variable holds a value of its kind.
TypeOK ==
    /\ today \in Days /\ received \in [Messages -> 0 .. MaxDay]
    /\ read \subseteq Messages /\ expired \subseteq Messages
    /\ enabled \subseteq Meters /\ screen \subseteq Messages
    /\ store \in Account /\ mem \in Account
    /\ loaded \in BOOLEAN /\ recent \in BOOLEAN
    /\ task \in Tasks
    /\ updates \in Nat /\ sends \in Nat /\ stops \in Nat
    /\ dismissed \subseteq Messages

\* The portal would still present m to the user.
Current(m) == m \notin read \cup expired

Handled(account) ==
    \A m \in account.seen :
        Current(m) => m \in account.shown \cup account.readToSend

(***************************************************************************)
(* A message noted as seen, which no later check looks at again, is never   *)
(* forgotten while the portal would still present it: it is on screen, or   *)
(* its "read" is still to be sent.  In memory and in the store, whatever    *)
(* was interrupted: the ids are noted in one step of _async_check and the   *)
(* notification is created in another, dismissed in a callback, and its     *)
(* "read" taken off the list after an answer that may never come.           *)
(***************************************************************************)
SeenIsHandled == Handled(mem) /\ Handled(store)

Complete(account) ==
    \A m \in Messages :
        (/\ received[m] # 0 /\ Owner[m] \in account.meters
         /\ received[m] < account.checkedUntil) => m \in account.seen

(***************************************************************************)
(* "The last day checked, so no message is missed while Home Assistant was  *)
(* off" (the class's docstring): every message received before the day      *)
(* checked last, for a meter checked then, has been seen.  The day and the  *)
(* meters of a check are fixed before its requests, midnight and option     *)
(* changes come in between, and meters join and leave the account.          *)
(***************************************************************************)
NothingMissed == Complete(mem) /\ Complete(store)

(***************************************************************************)
(* Only messages whose notification the user dismissed are ever marked read *)
(* in the portal on the user's behalf, also from a store read back after a  *)
(* restart.                                                                 *)
(***************************************************************************)
OnlyDismissedMarked ==
    mem.readToSend \cup store.readToSend \cup task.toMark \subseteq dismissed

(***************************************************************************)
(* Once the store is loaded, the notifications on screen are exactly the    *)
(* ones whose dismissal is acted on, so no dismissal goes unnoticed.        *)
(***************************************************************************)
ScreenIsWatched == screen = IF loaded THEN mem.shown ELSE {}

(***************************************************************************)
(* "A message is notified about once": a notification that appears for a    *)
(* message the store already has as seen is one the first load puts back.   *)
(***************************************************************************)
NotifiedOnce ==
    [][\A m \in screen' \ screen : m \in store.seen => ~loaded]_vars

(***************************************************************************)
(* README.md:199, "Zamknięte powiadomienie nie wraca": a dismissed          *)
(* notification does not come back.                                         *)
(***************************************************************************)
DismissedStaysAway == [][\A m \in screen' \ screen : m \notin dismissed]_vars

-----------------------------------------------------------------------------
(* Liveness. *)

(***************************************************************************)
(* A "read" that was stored because the portal did not take it is sent in   *)
(* the end, over restarts too, provided some meter keeps its messages on:   *)
(* async_update returns before _async_mark_read when none does.             *)
(***************************************************************************)
PendingReadIsSent ==
    \A m \in Messages :
        <>[](enabled # {}) => (m \in store.readToSend ~> m \in read)

(***************************************************************************)
(* A message received for a meter that keeps its messages on is noticed and *)
(* stored in the end, whatever checks failed or were cancelled before.      *)
(***************************************************************************)
MessageIsNoticed ==
    \A m \in Messages :
        <>[](Owner[m] \in enabled) => (received[m] # 0 ~> m \in store.seen)

-----------------------------------------------------------------------------
(* The store keeps the ledger of MessageLedger. *)

Status(m) ==
    CASE m \in store.shown -> "open"
      [] m \in store.readToSend \ store.shown -> "closing"
      [] m \in store.seen \ (store.shown \cup store.readToSend) -> "done"
      [] OTHER -> "new"

Ledger == INSTANCE MessageLedger WITH status <- [m \in Messages |-> Status(m)]

(***************************************************************************)
(* What reaches the disk follows the ledger: no save takes a dismissal back *)
(* or closes a message that the portal was not told about.                  *)
(***************************************************************************)
KeepsLedger == Ledger!Spec
=============================================================================
