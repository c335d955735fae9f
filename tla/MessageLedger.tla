--------------------------- MODULE MessageLedger ---------------------------
(***************************************************************************)
(* What the portal messages of one account promise, told from the          *)
(* account's store alone: the account keeps a ledger with one status per    *)
(* message, and a message leaves the ledger's care only once the portal     *)
(* itself has nothing more to present.                                      *)
(*                                                                         *)
(*   "new"      not seen by any check that was saved                        *)
(*   "open"     its notification is on screen, or is put back on screen     *)
(*              when Home Assistant starts                                  *)
(*   "closing"  its notification was dismissed, the portal still has to be  *)
(*              told that the message was read                              *)
(*   "done"     nothing left to do                                          *)
(***************************************************************************)
CONSTANT Messages

VARIABLES
    status,     \* the ledger
    read,       \* the messages the portal has as read
    expired     \* the messages too old to present

vars == <<status, read, expired>>

Status == {"new", "open", "closing", "done"}

\* The portal would still present m: closing it would lose it for the user.
Presented(m) == m \notin read \cup expired

TypeOK ==
    /\ status \in [Messages -> Status]
    /\ read \subseteq Messages
    /\ expired \subseteq Messages

Init ==
    /\ status = [m \in Messages |-> "new"]
    /\ read = {}
    /\ expired = {}

(***************************************************************************)
(* The steps of one message when the ledger is saved.  Several of them may  *)
(* happen between two saves, so a message can skip a status.                *)
(***************************************************************************)
Step(m, old, new) ==
    \/ new = old
    \/ old = "new" /\ (new = "done" => ~Presented(m))
    \/ old = "open" /\ new = "closing"
    \/ old \in {"open", "closing"} /\ new = "done" /\ m \in read

Save ==
    /\ status' \in [Messages -> Status]
    /\ \A m \in Messages : Step(m, status[m], status'[m])
    /\ UNCHANGED <<read, expired>>

\* Messages are read in the portal or grow old; neither is ever undone.
Portal ==
    /\ read' \in SUBSET Messages /\ read \subseteq read'
    /\ expired' \in SUBSET Messages /\ expired \subseteq expired'
    /\ UNCHANGED status

Next == Save \/ Portal

Spec == Init /\ [][Next]_vars

(***************************************************************************)
(* A message the ledger is done with is one the portal would not present.   *)
(***************************************************************************)
NothingDropped == \A m \in Messages : status[m] = "done" => ~Presented(m)
=============================================================================
