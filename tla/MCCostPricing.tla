---------------------------- MODULE MCCostPricing ----------------------------
(* Small instances of CostPricing for TLC. *)
EXTENDS CostPricing, TLC

CONSTANTS low, high, day, night

\* Each of the two prices has a zone of its own.
TwoZones == (low :> night) @@ (high :> day)
=============================================================================
