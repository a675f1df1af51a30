----------------------------- MODULE MCKVStore -----------------------------
(* Instances of KVStore for TLC. *)
EXTENDS KVStore, TLC

Symmetric == Permutations(Threads) \cup Permutations(Keys) \cup Permutations(Values)
=============================================================================
