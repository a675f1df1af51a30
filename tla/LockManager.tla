---------------------------- MODULE LockManager ----------------------------
(***************************************************************************)
(* The lock manager of src/src/transaction/Lock_manager.cpp with the part  *)
(* of a transaction it reads and writes (state_ and the lock sets of       *)
(* src/include/transaction/Transaction.h) and                              *)
(* TransactionManager::ReleaseLocks, which gives the locks back.           *)
(*                                                                         *)
(* A thread executes calls on behalf of the transaction TxnOf[thread].     *)
(* With TxnOf injective every transaction is driven by one thread; two     *)
(* threads of one transaction arise when a client gives up on a blocked    *)
(* request and finishes the transaction through another one.               *)
(*                                                                         *)
(* A call that takes the latch of a queue is one step: between taking it   *)
(* and returning, or going to sleep on the condition variable, no other    *)
(* call on that queue runs.  checkSameTxnLockRequest answers for any       *)
(* request of the same transaction, so a queue holds at most one request   *)
(* per transaction, and a queue is a function from transactions.           *)
(***************************************************************************)
EXTENDS Naturals, Sequences, FiniteSets

CONSTANTS Txns,        \* transactions
          Threads,     \* threads that make calls
          TxnOf,       \* the transaction a thread works for
          Tables,      \* Lock_data_ids of type TABLE
          Partitions,  \* Lock_data_ids of type PARTITION
          Rows,        \* Lock_data_ids of type ROW
          AskedModes,  \* the modes clients ask for, by lock
          NoWait       \* enable_no_wait_

Locks == Tables \cup Partitions \cup Rows

\* LockMode
IS  == "INTENTION_SHARED"
IX  == "INTENTION_EXCLUSIVE"
S   == "SHARED"
SIX == "S_IX"
X   == "EXLUCSIVE"
Modes == {IS, IX, S, SIX, X}
RowModes == {S, X}
NoMode == "NONE"

ASSUME LockAssumption ==
  /\ TxnOf \in [Threads -> Txns]
  /\ AskedModes \in [Locks -> SUBSET Modes]
  /\ NoWait \in BOOLEAN
  /\ Tables \cap Partitions = {}
  /\ Tables \cap Rows = {}
  /\ Partitions \cap Rows = {}

\* TransactionState
TransactionState ==
  {"DEFAULT", "GROWING", "SHRINKING", "COMMITTED", "ABORTED", "PREPARED"}

\* LockRequest; a transaction without a request has status "none".
LockRequest == [mode : Modes \cup {NoMode}, status : {"none", "waiting", "granted"}]
NoRequest == [mode |-> NoMode, status |-> "none"]

\* Where a lock call sleeps: on its new request, on the pending request of
\* another call of its transaction, or on an upgrade.
WaitKinds == {"new", "same", "upgrade"}

VARIABLES
  request,    \* lock_map_[l].request_queue_, by transaction
  upgrading,  \* lock_map_[l].upgrading_
  state,      \* Transaction::state_
  lock_set,   \* Transaction::*_lock_set_, by mode
  pc,         \* where a thread is
  call,       \* arguments of the lock call a thread is in, and its wait
  woken,      \* a notify_all reached the sleeping thread
  release_at  \* the set ReleaseLocks is iterating

vars == <<request, upgrading, state, lock_set, pc, call, woken, release_at>>

NoCall == [lock |-> NoMode, mode |-> NoMode, wait |-> "new"]

-----------------------------------------------------------------------------
(* Compatibility and upgrades *)

\* The modes a granted request of another transaction may have.
CompatibleWith(target) ==
  CASE target = IS  -> Modes \ {X}
    [] target = IX  -> {IS, IX}
    [] target = S   -> {IS, S}
    [] target = SIX -> {IS}
    [] target = X   -> {}

isLockCompatible(held, target) == held \in CompatibleWith(target)

\* The modes a request of mode held may be upgraded to.
UpgradesOf(held) ==
  CASE held = IS  -> {S, X, IX, SIX}
    [] held = S   -> {X, SIX}
    [] held = IX  -> {X, SIX}
    [] held = SIX -> {X}
    [] held = X   -> {}

isUpdateCompatible(held, target) == target \in UpgradesOf(held)

\* Mutated: looks at the waiting requests.
checkQueueCompatible_Waiting(req, l, t) ==
  \A u \in Txns \ {t} :
    req[l][u].status = "waiting" => isLockCompatible(req[l][u].mode, req[l][t].mode)

\* req is the queue contents the check sees.
checkQueueCompatible(req, l, t) ==
  \A u \in Txns \ {t} :
    req[l][u].status = "granted" => isLockCompatible(req[l][u].mode, req[l][t].mode)

-----------------------------------------------------------------------------
(* Lock calls *)

Init ==
  /\ request = [l \in Locks |-> [t \in Txns |-> NoRequest]]
  /\ upgrading = [l \in Locks |-> FALSE]
  /\ state = [t \in Txns |-> "DEFAULT"]
  /\ lock_set = [t \in Txns |-> [m \in Modes |-> {}]]
  /\ pc = [th \in Threads |-> "idle"]
  /\ call = [th \in Threads |-> NoCall]
  /\ woken = [th \in Threads |-> FALSE]
  /\ release_at = [th \in Threads |-> 1]

\* Mutated: a transaction past GROWING may lock.
LockEntry_AnyState(th, l, m, allowed) ==
  LET t == TxnOf[th] IN
  /\ pc[th] = "idle" /\ m \in allowed
  /\ state' = [state EXCEPT ![t] = IF @ = "DEFAULT" THEN "GROWING" ELSE @]
  /\ pc' = [pc EXCEPT ![th] = "latch"]
  /\ call' = [call EXCEPT ![th] = [lock |-> l, mode |-> m, wait |-> "new"]]
  /\ UNCHANGED <<request, upgrading, lock_set, woken, release_at>>

\* The checks before the latch: the first call moves the transaction to
\* GROWING, a call of a transaction past it aborts it and returns false, as
\* does a mode the kind of lock does not have.
LockEntry(th, l, m, allowed) ==
  LET t == TxnOf[th] IN
  /\ pc[th] = "idle"
  /\ \/ /\ state[t] \in {"DEFAULT", "GROWING"} /\ m \in allowed
        /\ state' = [state EXCEPT ![t] = "GROWING"]
        /\ pc' = [pc EXCEPT ![th] = "latch"]
        /\ call' = [call EXCEPT ![th] = [lock |-> l, mode |-> m, wait |-> "new"]]
     \/ /\ ~(state[t] \in {"DEFAULT", "GROWING"} /\ m \in allowed)
        /\ state' = [state EXCEPT ![t] = "ABORTED"]
        /\ UNCHANGED <<pc, call>>
  /\ UNCHANGED <<request, upgrading, lock_set, woken, release_at>>

LockTable(th, l, m) == l \in Tables /\ LockEntry(th, l, m, Modes)

LockPartition(th, l, m) == l \in Partitions /\ LockEntry(th, l, m, Modes)

LockRow(th, l, m) == l \in Rows /\ LockEntry(th, l, m, RowModes)

Return(th) ==
  /\ pc' = [pc EXCEPT ![th] = "idle"]
  /\ call' = [call EXCEPT ![th] = NoCall]
  /\ woken' = [woken EXCEPT ![th] = FALSE]

add_lock_set(t, m, l) == lock_set' = [lock_set EXCEPT ![t][m] = @ \cup {l}]

\* One evaluation of the predicate of cv_.wait, on the queue contents req and
\* the flag upg, and what the call does when the wait is over.
EvaluateWait(th, wait, req, upg) ==
  LET t == TxnOf[th]
      l == call[th].lock
      m == call[th].mode
      compatible == checkQueueCompatible(req, l, t)
  IN
  \/ /\ compatible /\ state[t] # "ABORTED"
     /\ request' = [req EXCEPT ![l][t].status = "granted"]
     /\ upgrading' = [upg EXCEPT ![l] = IF wait = "upgrade" THEN FALSE ELSE @]
     /\ add_lock_set(t, m, l)
     /\ Return(th)
     /\ UNCHANGED state
  \/ /\ state[t] = "ABORTED" \/ (NoWait /\ ~compatible)
     /\ state' = [state EXCEPT ![t] = "ABORTED"]
     /\ request' = req
     /\ upgrading' = upg
     /\ Return(th)
     /\ UNCHANGED lock_set
  \/ /\ ~NoWait /\ ~compatible /\ state[t] # "ABORTED"
     /\ request' = req
     /\ upgrading' = upg
     /\ pc' = [pc EXCEPT ![th] = "waiting"]
     /\ call' = [call EXCEPT ![th].wait = wait]
     /\ woken' = [woken EXCEPT ![th] = FALSE]
     /\ UNCHANGED <<state, lock_set>>

\* checkSameTxnLockRequest found the lock already granted in this mode.
AlreadyGranted(th) ==
  LET t == TxnOf[th]
      l == call[th].lock
      m == call[th].mode
  IN
  /\ request[l][t].mode = m /\ request[l][t].status = "granted"
  /\ IF state[t] = "ABORTED" THEN UNCHANGED lock_set ELSE add_lock_set(t, m, l)
  /\ Return(th)
  /\ UNCHANGED <<request, upgrading, state>>

\* It found another call of the transaction waiting for the same lock.
JoinPending(th) ==
  LET t == TxnOf[th]
      l == call[th].lock
  IN
  /\ request[l][t].mode = call[th].mode /\ request[l][t].status = "waiting"
  /\ EvaluateWait(th, "same", request, upgrading)

\* It found a request of another mode that may not be upgraded now.
RefuseUpgrade(th) ==
  LET t == TxnOf[th]
      l == call[th].lock
      m == call[th].mode
  IN
  /\ request[l][t].status # "none" /\ request[l][t].mode # m
  /\ upgrading[l] \/ ~isUpdateCompatible(request[l][t].mode, m)
  /\ state' = [state EXCEPT ![t] = "ABORTED"]
  /\ Return(th)
  /\ UNCHANGED <<request, upgrading, lock_set>>

\* Mutated: the upgrade ends like a new request, without resetting the flag.
Upgrade_FlagKept(th) ==
  LET t == TxnOf[th]
      l == call[th].lock
      m == call[th].mode
  IN
  /\ request[l][t].status # "none" /\ request[l][t].mode # m
  /\ ~upgrading[l] /\ isUpdateCompatible(request[l][t].mode, m)
  /\ EvaluateWait(th, "new",
                  [request EXCEPT ![l][t] = [mode |-> m, status |-> "waiting"]],
                  [upgrading EXCEPT ![l] = TRUE])

\* It upgrades the request: the old mode is given up before the wait.
Upgrade(th) ==
  LET t == TxnOf[th]
      l == call[th].lock
      m == call[th].mode
  IN
  /\ request[l][t].status # "none" /\ request[l][t].mode # m
  /\ ~upgrading[l] /\ isUpdateCompatible(request[l][t].mode, m)
  /\ EvaluateWait(th, "upgrade",
                  [request EXCEPT ![l][t] = [mode |-> m, status |-> "waiting"]],
                  [upgrading EXCEPT ![l] = TRUE])

\* No request of the transaction: a new one is appended to the queue.
NewRequest(th) ==
  LET t == TxnOf[th]
      l == call[th].lock
      m == call[th].mode
  IN
  /\ request[l][t].status = "none"
  /\ EvaluateWait(th, "new",
                  [request EXCEPT ![l][t] = [mode |-> m, status |-> "waiting"]],
                  upgrading)

\* The part of a lock call under the latch, up to the first sleep or return.
Acquire(th) ==
  /\ pc[th] = "latch"
  /\ \/ AlreadyGranted(th)
     \/ JoinPending(th)
     \/ RefuseUpgrade(th)
     \/ Upgrade(th)
     \/ NewRequest(th)
  /\ UNCHANGED release_at

\* A sleeping thread that was notified evaluates its predicate again.
Wake(th) ==
  /\ pc[th] = "waiting" /\ woken[th]
  /\ EvaluateWait(th, call[th].wait, request, upgrading)
  /\ UNCHANGED release_at

\* A condition variable may also wake without a notification.
SpuriousWake(th) ==
  /\ pc[th] = "waiting" /\ ~woken[th]
  /\ EvaluateWait(th, call[th].wait, request, upgrading)
  /\ UNCHANGED release_at

-----------------------------------------------------------------------------
(* Unlock calls *)

Sleepers(l) == {th \in Threads : pc[th] = "waiting" /\ call[th].lock = l}

\* The request of transaction t on l was erased from the queue.  A sleeping
\* call of the same transaction still refers to the erased list element.
Erased(t, l, th) ==
  [u \in Threads |-> IF u # th /\ u \in Sleepers(l) /\ TxnOf[u] = t
                     THEN "orphan" ELSE pc[u]]

\* Mutated: the lock stays in the sets of the transaction.
Unlock_SetKept(th, l, next) ==
  LET t == TxnOf[th] IN
  /\ request[l][t].status = "granted"
  /\ state' = [state EXCEPT ![t] = IF @ = "GROWING" THEN "SHRINKING" ELSE @]
  /\ request' = [request EXCEPT ![l][t] = NoRequest]
  /\ woken' = [u \in Threads |-> woken[u] \/ u \in Sleepers(l)]
  /\ pc' = [Erased(t, l, th) EXCEPT ![th] = next]
  /\ UNCHANGED <<upgrading, call, lock_set>>

\* Mutated: nobody is notified.
Unlock_NoNotify(th, l, next) ==
  LET t == TxnOf[th] IN
  /\ IF request[l][t].status = "granted"
     THEN /\ state' = [state EXCEPT ![t] = IF @ = "GROWING" THEN "SHRINKING" ELSE @]
          /\ request' = [request EXCEPT ![l][t] = NoRequest]
     ELSE state' = [state EXCEPT ![t] = "ABORTED"] /\ UNCHANGED request
  /\ pc' = [pc EXCEPT ![th] = next]
  /\ lock_set' = [lock_set EXCEPT ![t] = [m \in Modes |-> @[m] \ {l}]]
  /\ UNCHANGED <<upgrading, call, woken>>

\* Unlock, then the erasure of l from the lock sets by its caller; next is
\* where the calling thread is afterwards.
Unlock(th, l, next) ==
  LET t == TxnOf[th] IN
  /\ \/ /\ request[l][t].status = "granted"
        /\ state' = [state EXCEPT ![t] = IF @ = "GROWING" THEN "SHRINKING" ELSE @]
        /\ request' = [request EXCEPT ![l][t] = NoRequest]
        /\ woken' = [u \in Threads |-> woken[u] \/ u \in Sleepers(l)]
        /\ pc' = [Erased(t, l, th) EXCEPT ![th] = next]
     \/ /\ request[l][t].status # "granted"
        /\ state' = [state EXCEPT ![t] = "ABORTED"]
        /\ pc' = [pc EXCEPT ![th] = next]
        /\ UNCHANGED <<request, woken>>
  /\ lock_set' = [lock_set EXCEPT ![t] = [m \in Modes |-> @[m] \ {l}]]
  /\ UNCHANGED <<upgrading, call>>

UnLockTable(th, l) ==
  /\ pc[th] = "idle" /\ l \in Tables
  /\ Unlock(th, l, "idle")
  /\ UNCHANGED release_at

UnLockPartition(th, l) ==
  /\ pc[th] = "idle" /\ l \in Partitions
  /\ Unlock(th, l, "idle")
  /\ UNCHANGED release_at

UnLockRow(th, l) ==
  /\ pc[th] = "idle" /\ l \in Rows
  /\ Unlock(th, l, "idle")
  /\ UNCHANGED release_at

\* granted_ = true through a reference into the freed list element: the element
\* may still point to the erased request, which nothing else refers to, or
\* have been reused for any request queued since.
GrantThroughFreed ==
  \/ UNCHANGED request
  \/ \E k \in Locks, u \in Txns :
       /\ request[k][u].status = "waiting"
       /\ request' = [request EXCEPT ![k][u].status = "granted"]

\* The call whose request was erased while it slept.  A call that slept on its
\* new request kept a pointer to it, which stays valid: the request it sees is
\* its own, but no longer in the queue.  The other two waits refer to the
\* freed list element, of which the predicate may read anything.
OrphanReturn(th) ==
  LET t == TxnOf[th]
      l == call[th].lock
      m == call[th].mode
      wait == call[th].wait
  IN
  /\ pc[th] = "orphan"
  /\ \/ /\ state[t] # "ABORTED"
        /\ IF wait = "new"
           THEN /\ \A u \in Txns : request[l][u].status = "granted" =>
                     isLockCompatible(request[l][u].mode, m)
                /\ UNCHANGED request
           ELSE GrantThroughFreed
        /\ upgrading' = [upgrading EXCEPT ![l] = IF wait = "upgrade" THEN FALSE ELSE @]
        /\ add_lock_set(t, m, l)
     \/ /\ state[t] = "ABORTED"
        /\ UNCHANGED <<request, upgrading, lock_set>>
  /\ Return(th)
  /\ UNCHANGED <<state, release_at>>

-----------------------------------------------------------------------------
(* TransactionManager::ReleaseLocks *)

\* Mutated: the exclusive row locks are forgotten.
ReleaseOrder_NoRowX ==
  << <<Rows, S>>,
     <<Partitions, S>>, <<Partitions, IS>>, <<Partitions, IX>>,
     <<Partitions, SIX>>, <<Partitions, X>>,
     <<Tables, S>>, <<Tables, IS>>, <<Tables, IX>>, <<Tables, SIX>>, <<Tables, X>> >>

\* The order in which the lock sets are emptied.
ReleaseOrder ==
  << <<Rows, S>>, <<Rows, X>>,
     <<Partitions, S>>, <<Partitions, IS>>, <<Partitions, IX>>,
     <<Partitions, SIX>>, <<Partitions, X>>,
     <<Tables, S>>, <<Tables, IS>>, <<Tables, IX>>, <<Tables, SIX>>, <<Tables, X>> >>

SetAt(t, i) == lock_set[t][ReleaseOrder[i][2]] \cap ReleaseOrder[i][1]

\* The sets ReleaseLocks still has to visit that are not empty.
Remaining(th) ==
  {i \in DOMAIN ReleaseOrder : i >= release_at[th] /\ SetAt(TxnOf[th], i) # {}}

ReleaseLocks(th) ==
  /\ pc[th] = "idle"
  /\ pc' = [pc EXCEPT ![th] = "releasing"]
  /\ UNCHANGED <<request, upgrading, state, lock_set, call, woken, release_at>>

\* Mutated: goes on behind the set it took an element from.
ReleaseNext_Skips(th) ==
  /\ pc[th] = "releasing"
  /\ \E i \in Remaining(th) :
       /\ \A j \in Remaining(th) : i <= j
       /\ release_at' = [release_at EXCEPT ![th] = i + 1]
       /\ \E l \in SetAt(TxnOf[th], i) : Unlock(th, l, "releasing")

\* One iteration: the next element of the first set that is left.
ReleaseNext(th) ==
  /\ pc[th] = "releasing"
  /\ \E i \in Remaining(th) :
       /\ \A j \in Remaining(th) : i <= j
       /\ release_at' = [release_at EXCEPT ![th] = i]
       /\ \E l \in SetAt(TxnOf[th], i) : Unlock(th, l, "releasing")

ReleaseEnd(th) ==
  /\ pc[th] = "releasing"
  /\ Remaining(th) = {}
  /\ pc' = [pc EXCEPT ![th] = "ended"]
  /\ UNCHANGED <<request, upgrading, state, lock_set, call, woken, release_at>>

\* Every transaction has been finished.
Terminated ==
  /\ \A th \in Threads : pc[th] = "ended"
  /\ UNCHANGED vars

-----------------------------------------------------------------------------

LockCall(th) ==
  \E l \in Locks : \E m \in AskedModes[l] :
    LockTable(th, l, m) \/ LockPartition(th, l, m) \/ LockRow(th, l, m)

UnlockCall(th) ==
  \E l \in Locks : UnLockTable(th, l) \/ UnLockPartition(th, l) \/ UnLockRow(th, l)

Step(th) ==
  \/ LockCall(th)
  \/ Acquire(th)
  \/ Wake(th)
  \/ SpuriousWake(th)
  \/ UnlockCall(th)
  \/ OrphanReturn(th)
  \/ ReleaseLocks(th)
  \/ ReleaseNext(th)
  \/ ReleaseEnd(th)

Next == (\E th \in Threads : Step(th)) \/ Terminated

Spec == Init /\ [][Next]_vars

\* Threads run: a call that holds or can take a latch gets on, a notified
\* sleeper evaluates its predicate, and ReleaseLocks runs to its end.  A client
\* finishes its transaction sooner or later, whatever it locks before.
Fairness ==
  \A th \in Threads :
    /\ WF_vars(Acquire(th))
    /\ WF_vars(Wake(th))
    /\ WF_vars(ReleaseNext(th))
    /\ WF_vars(ReleaseEnd(th))
    /\ SF_vars(ReleaseLocks(th))

FairSpec == Spec /\ Fairness
-----------------------------------------------------------------------------
(* Properties *)

\* Every variable has its type.
TypeOK ==
  /\ request \in [Locks -> [Txns -> LockRequest]]
  /\ upgrading \in [Locks -> BOOLEAN]
  /\ state \in [Txns -> TransactionState]
  /\ lock_set \in [Txns -> [Modes -> SUBSET Locks]]
  /\ pc \in [Threads -> {"idle", "latch", "waiting", "orphan", "releasing", "ended"}]
  /\ call \in [Threads -> [lock : Locks \cup {NoMode}, mode : Modes \cup {NoMode},
                           wait : WaitKinds]]
  /\ woken \in [Threads -> BOOLEAN]
  /\ release_at \in [Threads -> 1..Len(ReleaseOrder)]
  /\ \A th \in Threads : pc[th] \in {"latch", "waiting", "orphan"} =>
       call[th].lock \in Locks /\ call[th].mode \in Modes

Held(l, t) == request[l][t].status = "granted"

ConflictAt(l, t, u) ==
  t # u /\ Held(l, t) /\ Held(l, u) /\ ~isLockCompatible(request[l][t].mode, request[l][u].mode)

\* Two transactions never hold a lock in conflicting modes, whatever calls,
\* upgrades and wake-ups preceded (checkQueueCompatible before every grant).
\* That needs one thread per transaction: see ConflictsOnlyByOrphans.
GrantedCompatible == \A l \in Locks : \A t, u \in Txns : ~ConflictAt(l, t, u)

\* With several threads per transaction two grants come to conflict in one way
\* only: a call whose request was erased while it slept returns and writes
\* granted_ through the freed element of the queue (checkSameTxnLockRequest
\* after its waits).  No other step of any thread makes a conflict, also after
\* such a return has made one elsewhere.
ConflictsOnlyByOrphans ==
  [][(\A th \in Threads : pc[th] = "orphan" => pc'[th] = "orphan") =>
       \A l \in Locks : \A t, u \in Txns : ConflictAt(l, t, u)' => ConflictAt(l, t, u)]_vars

\* Two-phase locking: a lock is granted only to a transaction that is GROWING,
\* also when the grant comes long after the state was checked at the entry of
\* the call.
GrantOnlyWhileGrowing ==
  [][\A l \in Locks, t \in Txns : ~Held(l, t) /\ Held(l, t)' => state'[t] = "GROWING"]_vars

\* What a transaction believes to hold is what the queues say: between calls
\* of a transaction that is not aborted, every entry of a lock set has a granted
\* request of its mode or of one the entry was upgraded to.
LockSetsBacked ==
  \A t \in Txns :
    state[t] # "ABORTED" /\ (\A th \in Threads : TxnOf[th] = t => pc[th] # "waiting") =>
      \A m \in Modes : \A l \in lock_set[t][m] :
        Held(l, t) /\ (request[l][t].mode = m \/ isUpdateCompatible(m, request[l][t].mode))

\* ReleaseLocks finds every lock: a granted request is always recorded in the
\* lock set of its mode, and so none is left once the transaction has ended.
GrantsRecorded ==
  \A t \in Txns, l \in Locks : Held(l, t) =>
    /\ l \in lock_set[t][request[l][t].mode]
    /\ \A th \in Threads : TxnOf[th] = t => pc[th] # "ended"

\* While a transaction is GROWING, no other transaction is granted a mode that
\* conflicts with one it was granted: what it read or wrote under a lock stays
\* protected until it releases.
AcquiredStaysProtected ==
  \A t, u \in Txns : t # u /\ state[t] = "GROWING" =>
    \A m \in Modes : \A l \in lock_set[t][m] :
      Held(l, u) => isLockCompatible(request[l][u].mode, m)

\* upgrading_ says that some call is waiting for an upgrade of a lock in the
\* queue; it does not outlive the upgrade.
UpgradingMeansUpgrade ==
  \A l \in Locks : upgrading[l] =>
    \E th \in Sleepers(l) : call[th].wait = "upgrade"

\* Thread th sleeps because the transaction of v holds its lock.
WaitsFor(th, v) ==
  /\ pc[th] = "waiting" /\ TxnOf[v] # TxnOf[th]
  /\ Held(call[th].lock, TxnOf[v])
  /\ ~isLockCompatible(request[call[th].lock][TxnOf[v]].mode, call[th].mode)

\* th is one of some sleeping threads of which each waits for another.
Deadlocked(th) ==
  \E D \in SUBSET Threads : th \in D /\ \A u \in D : \E v \in D : WaitsFor(u, v)

\* A lock call that sleeps is woken and returns, unless the calls come to wait
\* for each other in a cycle, which nothing in the waits of LockTable,
\* LockPartition and LockRow finds or breaks.
LockCallReturns ==
  \A th \in Threads : pc[th] = "waiting" ~> pc[th] # "waiting" \/ Deadlocked(th)

\* The abstraction: what is granted, and who may still ask.
HeldMode == [l \in Locks |-> [t \in Txns |->
  IF Held(l, t) THEN request[l][t].mode ELSE NoMode]]

ModeConflict == {p \in Modes \X Modes : ~isLockCompatible(p[1], p[2])}

Abstract == INSTANCE AbstractLocks WITH
  Conflict <- ModeConflict,
  held <- HeldMode,
  growing <- {t \in Txns : state[t] \in {"DEFAULT", "GROWING"}}

\* With No-Wait and one thread per transaction the lock manager is a two-phase
\* lock table: every call, successful or not, is one step of AbstractLocks or
\* none.  A failed upgrade loses the lock, but only while aborting.
TwoPhaseLocking == Abstract!AbsSpec

=============================================================================
