---------------------------- MODULE MCApiSession ----------------------------
(* A small instance of ApiSession for TLC. *)
EXTENDS ApiSession
=============================================================================
