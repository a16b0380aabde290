------------------------------ MODULE MCShell ------------------------------
(* Shell on a small table, for TLC. *)
EXTENDS Shell
=============================================================================
