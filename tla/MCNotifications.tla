-------------------------- MODULE MCNotifications --------------------------
(* Small instances of Notifications for TLC. *)
EXTENDS Notifications, TLC

CONSTANTS m1, a, b

\* A single message, for meter a.
OneMessage == m1 :> a
=============================================================================
