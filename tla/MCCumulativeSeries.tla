------------------------- MODULE MCCumulativeSeries -------------------------
(* Small instances of CumulativeSeries for TLC. *)
EXTENDS CumulativeSeries
=============================================================================
