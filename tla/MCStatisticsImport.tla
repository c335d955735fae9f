------------------------- MODULE MCStatisticsImport -------------------------
(* Small instances of StatisticsImport for TLC. *)
EXTENDS StatisticsImport
=============================================================================
