---------------------------- MODULE MCLogManager ----------------------------
(* Instances of LogManager for TLC. *)
EXTENDS LogManager, TLC

WorkerSymmetry == Permutations(Workers)
=============================================================================
