---------------------------- MODULE MCTrapPath ----------------------------
(* TrapPath with a few process slots, for TLC. *)
EXTENDS TrapPath
=============================================================================
