------------------------- MODULE MCAccountLifecycle -------------------------
(* AccountLifecycle on small instances; the configurations choose them. *)
EXTENDS AccountLifecycle
=============================================================================
