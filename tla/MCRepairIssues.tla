--------------------------- MODULE MCRepairIssues ---------------------------
(* RepairIssues on small instances; the configurations choose them. *)
EXTENDS RepairIssues
=============================================================================
