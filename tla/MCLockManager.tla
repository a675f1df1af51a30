--------------------------- MODULE MCLockManager ---------------------------
(* Instances of LockManager for TLC. *)
EXTENDS LockManager, TLC

CONSTANTS t1, t2, t3, c1, c2, c3, c4, a, b

\* One thread per transaction.
OwnThread == [th \in Threads |-> th]

\* Two threads for each of t1 and t2.
SharedThread == [th \in Threads |->
  CASE th \in {c1, c2} -> t1 [] th \in {c3, c4} -> t2]

\* Every mode is asked for, of rows too.
AllModes == [l \in Locks |-> Modes]

\* Lock a is taken to read, to write and upgraded; b is taken to write.
ReadOrWriteA == [l \in Locks |-> IF l = a THEN {S, X} ELSE {X}]

\* The permutations that keep the threads of a transaction together.
TxnSymmetry ==
  {p \in Permutations(Txns \cup Threads) :
     \A th \in Threads : p[th] \in Threads /\ TxnOf[p[th]] = p[TxnOf[th]]}
=============================================================================
