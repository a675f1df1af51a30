--------------------------- MODULE AbstractLocks ---------------------------
(***************************************************************************)
(* What the lock manager promises: two-phase locking with lock modes.      *)
(* A transaction that is growing may take or strengthen a lock no other    *)
(* transaction holds in a conflicting mode; a transaction that gave up a   *)
(* lock, or was told to abort, never takes one again.  There are no        *)
(* queues, waits, flags or threads here.                                   *)
(***************************************************************************)
CONSTANTS Txns,        \* transactions
          Locks,       \* lockable items
          Modes,       \* lock modes
          NoMode,      \* the mode of a lock that is not held
          Conflict     \* pairs of modes two transactions may not hold together

VARIABLES held,    \* the mode in which a transaction holds an item
          growing  \* the transactions that may still take locks

absvars == <<held, growing>>

AbsInit ==
  /\ held = [l \in Locks |-> [t \in Txns |-> NoMode]]
  /\ growing = Txns

\* A growing transaction takes l in mode m, or changes to m the mode it has.
Take(t, l, m) ==
  /\ t \in growing
  /\ \A u \in Txns \ {t} : <<held[l][u], m>> \notin Conflict
  /\ held' = [held EXCEPT ![l][t] = m]
  /\ UNCHANGED growing

\* A transaction gives up l, if it holds it, and takes no lock from then on.
Drop(t, l) ==
  /\ held' = [held EXCEPT ![l][t] = NoMode]
  /\ growing' = growing \ {t}

\* A transaction is told to abort: it keeps what it holds until it drops it.
Stop(t) ==
  /\ growing' = growing \ {t}
  /\ UNCHANGED held

AbsNext ==
  \E t \in Txns :
    \/ \E l \in Locks, m \in Modes : Take(t, l, m)
    \/ \E l \in Locks : Drop(t, l)
    \/ Stop(t)

AbsSpec == AbsInit /\ [][AbsNext]_absvars
=============================================================================
