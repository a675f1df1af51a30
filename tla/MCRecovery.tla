---------------------------- MODULE MCRecovery ----------------------------
(* Instances of Recovery for TLC. *)
EXTENDS Recovery
CONSTANTS t1, t2, x, y, v
=============================================================================
