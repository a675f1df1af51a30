------------------------- MODULE LockManagerProofs -------------------------
(***************************************************************************)
(* Theorems about LockManager for any number of transactions, threads and  *)
(* locks, with and without No-Wait, proved with TLAPS.                     *)
(***************************************************************************)
EXTENDS LockManager, TLAPS

\* The types of the queues and of the upgrade flags.
Queues == [Locks -> [Txns -> LockRequest]]
Flags == [Locks -> BOOLEAN]

\* isLockCompatible does not depend on who asked first.
LEMMA CompatibleSymmetric ==
  ASSUME NEW m \in Modes, NEW n \in Modes
  PROVE  isLockCompatible(m, n) <=> isLockCompatible(n, m)
BY DEF isLockCompatible, CompatibleWith, Modes, IS, IX, S, SIX, X

\* ReleaseLocks visits twelve sets.
LEMMA ReleaseOrderLen == Len(ReleaseOrder) = 12
BY DEF ReleaseOrder

\* The queue contents and flags that a call hands to the predicate of its wait
\* are well typed.
LEMMA WaitArgsType ==
  ASSUME TypeOK, NEW l \in Locks, NEW t \in Txns, NEW m \in Modes
  PROVE  /\ [request EXCEPT ![l][t] = [mode |-> m, status |-> "waiting"]] \in Queues
         /\ [upgrading EXCEPT ![l] = TRUE] \in Flags
         /\ request \in Queues
         /\ upgrading \in Flags
BY DEF TypeOK, Queues, Flags, LockRequest

\* A returning call leaves the thread variables well typed.
LEMMA ReturnType ==
  ASSUME TypeOK, NEW th \in Threads, Return(th), UNCHANGED release_at,
         request' \in Queues, upgrading' \in Flags,
         state' \in [Txns -> TransactionState],
         lock_set' \in [Txns -> [Modes -> SUBSET Locks]]
  PROVE  TypeOK'
BY DEF TypeOK, Return, NoCall, WaitKinds, Queues, Flags

\* Adding a lock to a lock set keeps its type.
LEMMA AddLockSetType ==
  ASSUME TypeOK, NEW t \in Txns, NEW m \in Modes, NEW l \in Locks, add_lock_set(t, m, l)
  PROVE  lock_set' \in [Txns -> [Modes -> SUBSET Locks]]
BY DEF TypeOK, add_lock_set

\* Whatever the predicate of a wait decides, the types are kept.
LEMMA EvaluateWaitType ==
  ASSUME TypeOK, NEW th \in Threads, NEW STATE wait, wait \in WaitKinds,
         NEW STATE req, req \in Queues, NEW STATE upg, upg \in Flags,
         call[th].lock \in Locks, call[th].mode \in Modes,
         EvaluateWait(th, wait, req, upg), UNCHANGED release_at
  PROVE  TypeOK'
<1> DEFINE t == TxnOf[th]
           l == call[th].lock
           m == call[th].mode
<1>t. t \in Txns
  BY LockAssumption
<1>1. CASE /\ state[t] # "ABORTED"
           /\ request' = [req EXCEPT ![l][t].status = "granted"]
           /\ upgrading' = [upg EXCEPT ![l] = IF wait = "upgrade" THEN FALSE ELSE @]
           /\ add_lock_set(t, m, l)
           /\ Return(th)
           /\ UNCHANGED state
  <2>1. request' \in Queues
    <3>1. req[l][t].mode \in Modes \cup {NoMode}
      BY <1>t DEF Queues, LockRequest
    <3>2. [req[l][t] EXCEPT !.status = "granted"] \in LockRequest
      BY <1>t, <3>1 DEF Queues, LockRequest
    <3> QED
      BY <1>1, <1>t, <3>2 DEF Queues
  <2>2. upgrading' \in Flags
    BY <1>1 DEF Flags
  <2>3. lock_set' \in [Txns -> [Modes -> SUBSET Locks]]
    BY <1>1, <1>t, AddLockSetType
  <2>4. state' \in [Txns -> TransactionState]
    BY <1>1 DEF TypeOK
  <2> QED
    BY <2>1, <2>2, <2>3, <2>4, <1>1, ReturnType
<1>2. CASE /\ state' = [state EXCEPT ![t] = "ABORTED"]
           /\ request' = req
           /\ upgrading' = upg
           /\ Return(th)
           /\ UNCHANGED lock_set
  <2>1. state' \in [Txns -> TransactionState]
    BY <1>2, <1>t DEF TypeOK, TransactionState
  <2>2. lock_set' \in [Txns -> [Modes -> SUBSET Locks]]
    BY <1>2 DEF TypeOK
  <2> QED
    BY <2>1, <2>2, <1>2, ReturnType
<1>3. CASE /\ request' = req
           /\ upgrading' = upg
           /\ pc' = [pc EXCEPT ![th] = "waiting"]
           /\ call' = [call EXCEPT ![th].wait = wait]
           /\ woken' = [woken EXCEPT ![th] = FALSE]
           /\ UNCHANGED <<state, lock_set>>
  BY <1>3 DEF TypeOK, Queues, Flags
<1> QED
  BY <1>1, <1>2, <1>3 DEF EvaluateWait

\* The erasure of a request and of its lock set entries keeps the types.
LEMMA UnlockType ==
  ASSUME TypeOK, NEW th \in Threads, NEW l \in Locks,
         NEW next \in {"idle", "releasing"}, pc[th] \in {"idle", "releasing"},
         Unlock(th, l, next), release_at' \in [Threads -> 1..Len(ReleaseOrder)]
  PROVE  TypeOK'
<1> DEFINE t == TxnOf[th]
<1>t. t \in Txns
  BY LockAssumption
<1>1. request' \in [Locks -> [Txns -> LockRequest]]
  <2>1. NoRequest \in LockRequest
    BY DEF NoRequest, LockRequest
  <2>2. CASE request' = [request EXCEPT ![l][t] = NoRequest]
    BY <1>t, <2>1, <2>2 DEF TypeOK
  <2>3. CASE request' = request
    BY <2>3 DEF TypeOK
  <2> QED
    BY <2>2, <2>3 DEF Unlock
<1>2. state' \in [Txns -> TransactionState]
  BY <1>t DEF Unlock, TypeOK, TransactionState
<1>3. lock_set' \in [Txns -> [Modes -> SUBSET Locks]]
  BY <1>t DEF Unlock, TypeOK
<1>4. woken' \in [Threads -> BOOLEAN]
  <2>1. CASE woken' = [u \in Threads |-> woken[u] \/ u \in Sleepers(l)]
    BY <2>1, Zenon
  <2>2. CASE woken' = woken
    BY <2>2 DEF TypeOK
  <2> QED
    BY <2>1, <2>2 DEF Unlock
<1>5. /\ pc' \in [Threads -> {"idle", "latch", "waiting", "orphan", "releasing", "ended"}]
      /\ \A u \in Threads : pc'[u] \in {"latch", "waiting", "orphan"} =>
           pc[u] \in {"latch", "waiting", "orphan"}
  BY DEF Unlock, Erased, Sleepers, TypeOK
<1> QED
  BY <1>1, <1>2, <1>3, <1>4, <1>5 DEF Unlock, TypeOK

\* The step of a call under the latch keeps the types.
LEMMA AcquireType ==
  ASSUME TypeOK, NEW th \in Threads, Acquire(th)
  PROVE  TypeOK'
<1> DEFINE t == TxnOf[th]
           l == call[th].lock
           m == call[th].mode
<1>t. t \in Txns /\ l \in Locks /\ m \in Modes /\ UNCHANGED release_at
  BY LockAssumption DEF Acquire, TypeOK
<1>0. /\ [request EXCEPT ![l][t] = [mode |-> m, status |-> "waiting"]] \in Queues
      /\ [upgrading EXCEPT ![l] = TRUE] \in Flags
      /\ request \in Queues
      /\ upgrading \in Flags
  BY <1>t, WaitArgsType
<1>1. CASE AlreadyGranted(th)
  <2>1. lock_set' \in [Txns -> [Modes -> SUBSET Locks]]
    BY <1>1, <1>t, AddLockSetType DEF AlreadyGranted, TypeOK
  <2> QED
    BY <1>0, <1>1, <1>t, <2>1, ReturnType DEF AlreadyGranted, TypeOK
<1>2. CASE JoinPending(th)
  BY <1>0, <1>2, <1>t, EvaluateWaitType DEF JoinPending, WaitKinds
<1>3. CASE RefuseUpgrade(th)
  <2>1. state' \in [Txns -> TransactionState]
    BY <1>3, <1>t DEF RefuseUpgrade, TypeOK, TransactionState
  <2> QED
    BY <1>0, <1>3, <1>t, <2>1, ReturnType DEF RefuseUpgrade, TypeOK
<1>4. CASE Upgrade(th)
  BY <1>0, <1>4, <1>t, EvaluateWaitType DEF Upgrade, WaitKinds
<1>5. CASE NewRequest(th)
  BY <1>0, <1>5, <1>t, EvaluateWaitType DEF NewRequest, WaitKinds
<1> QED
  BY <1>1, <1>2, <1>3, <1>4, <1>5 DEF Acquire

\* A grant through a freed element of a queue keeps the types of the queues,
\* their modes, and which requests are queued.
LEMMA OrphanGrant ==
  ASSUME TypeOK, GrantThroughFreed \/ UNCHANGED request
  PROVE  /\ request' \in Queues
         /\ \A l \in Locks, t \in Txns :
              /\ request'[l][t].mode = request[l][t].mode
              /\ request'[l][t].status # "none" <=> request[l][t].status # "none"
<1>1. request \in Queues
  BY DEF TypeOK, Queues
<1>2. ASSUME NEW k \in Locks, NEW u \in Txns, request[k][u].status = "waiting",
             request' = [request EXCEPT ![k][u].status = "granted"]
      PROVE  /\ request' \in Queues
             /\ \A l \in Locks, t \in Txns :
                  /\ request'[l][t].mode = request[l][t].mode
                  /\ request'[l][t].status # "none" <=> request[l][t].status # "none"
  <2> DEFINE g == [request[k][u] EXCEPT !.status = "granted"]
  <2>1. request[k][u] \in LockRequest
    BY <1>1 DEF Queues
  <2>2. g \in LockRequest /\ g.mode = request[k][u].mode /\ g.status = "granted"
    BY <2>1 DEF LockRequest
  <2>3. request' = [request EXCEPT ![k] = [request[k] EXCEPT ![u] = g]]
    BY <1>2
  <2>4. request' \in Queues
    BY <1>1, <2>2, <2>3 DEF Queues
  <2>5. ASSUME NEW l \in Locks, NEW t \in Txns
        PROVE  /\ request'[l][t].mode = request[l][t].mode
               /\ request'[l][t].status # "none" <=> request[l][t].status # "none"
    <3>1. CASE l = k /\ t = u
      BY <1>1, <1>2, <2>2, <2>3, <3>1 DEF Queues
    <3>2. CASE ~(l = k /\ t = u)
      BY <1>1, <2>3, <3>2 DEF Queues
    <3> QED
      BY <3>1, <3>2
  <2> QED
    BY <2>4, <2>5
<1> QED
  BY <1>1, <1>2 DEF GrantThroughFreed

\* So does the return of an orphan.
LEMMA OrphanQueues ==
  ASSUME TypeOK, NEW th \in Threads, OrphanReturn(th)
  PROVE  /\ request' \in Queues
         /\ \A l \in Locks, t \in Txns :
              /\ request'[l][t].mode = request[l][t].mode
              /\ request'[l][t].status # "none" <=> request[l][t].status # "none"
<1>1. GrantThroughFreed \/ UNCHANGED request
  BY DEF OrphanReturn
<1> QED
  BY <1>1, OrphanGrant

\* Every step keeps the types.
LEMMA NextType == TypeOK /\ [Next]_vars => TypeOK'
<1> SUFFICES ASSUME TypeOK, [Next]_vars PROVE TypeOK'
  OBVIOUS
<1>1. ASSUME NEW th \in Threads, LockCall(th) PROVE TypeOK'
  <2>1. PICK l \in Locks, m \in Modes, allowed \in {Modes, RowModes} : LockEntry(th, l, m, allowed)
    BY <1>1, LockAssumption DEF LockCall, LockTable, LockPartition, LockRow
  <2>2. TxnOf[th] \in Txns
    BY LockAssumption
  <2>3. state' \in [Txns -> TransactionState]
    BY <2>1, <2>2 DEF LockEntry, TypeOK, TransactionState
  <2>4. CASE pc' = [pc EXCEPT ![th] = "latch"] /\
             call' = [call EXCEPT ![th] = [lock |-> l, mode |-> m, wait |-> "new"]]
    BY <2>1, <2>3, <2>4 DEF LockEntry, TypeOK, WaitKinds
  <2>5. CASE UNCHANGED <<pc, call>>
    BY <2>1, <2>3, <2>5 DEF LockEntry, TypeOK
  <2> QED
    BY <2>1, <2>4, <2>5 DEF LockEntry
<1>2. ASSUME NEW th \in Threads, Acquire(th) PROVE TypeOK'
  BY <1>2, AcquireType
<1>3. ASSUME NEW th \in Threads, Wake(th) \/ SpuriousWake(th) PROVE TypeOK'
  <2>1. /\ call[th].wait \in WaitKinds /\ call[th].lock \in Locks /\ call[th].mode \in Modes
        /\ request \in Queues /\ upgrading \in Flags
    BY <1>3 DEF Wake, SpuriousWake, TypeOK, Queues, Flags
  <2> QED
    BY <1>3, <2>1, EvaluateWaitType DEF Wake, SpuriousWake
<1>4. ASSUME NEW th \in Threads, UnlockCall(th) PROVE TypeOK'
  <2>1. PICK l \in Locks : Unlock(th, l, "idle") /\ pc[th] = "idle" /\ UNCHANGED release_at
    BY <1>4 DEF UnlockCall, UnLockTable, UnLockPartition, UnLockRow
  <2>2. release_at' \in [Threads -> 1..Len(ReleaseOrder)]
    BY <2>1 DEF TypeOK
  <2> QED
    BY <2>1, <2>2, UnlockType
<1>5. ASSUME NEW th \in Threads, OrphanReturn(th) PROVE TypeOK'
  <2>1. TxnOf[th] \in Txns /\ call[th].lock \in Locks /\ call[th].mode \in Modes
    BY <1>5, LockAssumption DEF OrphanReturn, TypeOK
  <2>2. lock_set' \in [Txns -> [Modes -> SUBSET Locks]]
    BY <1>5, <2>1, AddLockSetType DEF OrphanReturn, TypeOK
  <2>3. request' \in Queues
    BY <1>5, OrphanQueues DEF OrphanReturn
  <2>4. upgrading' \in Flags
    BY <1>5, <2>1 DEF OrphanReturn, TypeOK, Flags
  <2>5. state' \in [Txns -> TransactionState]
    BY <1>5 DEF OrphanReturn, TypeOK
  <2> QED
    BY <1>5, <2>2, <2>3, <2>4, <2>5, ReturnType DEF OrphanReturn
<1>6. ASSUME NEW th \in Threads, ReleaseLocks(th) \/ ReleaseEnd(th) PROVE TypeOK'
  BY <1>6 DEF ReleaseLocks, ReleaseEnd, TypeOK
<1>7. ASSUME NEW th \in Threads, ReleaseNext(th) PROVE TypeOK'
  <2>1. PICK i \in Remaining(th) :
          /\ release_at' = [release_at EXCEPT ![th] = i]
          /\ \E l \in SetAt(TxnOf[th], i) : Unlock(th, l, "releasing")
    BY <1>7 DEF ReleaseNext
  <2>2. i \in 1..Len(ReleaseOrder)
    BY <2>1, ReleaseOrderLen DEF Remaining, ReleaseOrder
  <2>3. PICK l \in SetAt(TxnOf[th], i) : Unlock(th, l, "releasing")
    BY <2>1
  <2>4. ReleaseOrder[i][2] \in Modes
    BY <2>2, ReleaseOrderLen DEF ReleaseOrder, Modes
  <2>5. l \in Locks
    BY <2>3, <2>4, LockAssumption DEF SetAt, TypeOK
  <2>6. release_at' \in [Threads -> 1..Len(ReleaseOrder)]
    BY <2>1, <2>2 DEF TypeOK
  <2>7. pc[th] = "releasing"
    BY <1>7 DEF ReleaseNext
  <2> QED
    BY <2>3, <2>5, <2>6, <2>7, UnlockType
<1>8. CASE UNCHANGED vars
  BY <1>8 DEF vars, TypeOK
<1> QED
  BY <1>1, <1>2, <1>3, <1>4, <1>5, <1>6, <1>7, <1>8 DEF Next, Step, Terminated

\* TypeOK is an invariant of the lock manager (LockTable ... ReleaseLocks).
THEOREM TypeCorrect == Spec => []TypeOK
<1>1. Init => TypeOK
  BY ReleaseOrderLen DEF Init, TypeOK, NoRequest, NoCall, LockRequest, TransactionState, WaitKinds
<1>2. QED
  BY <1>1, NextType, PTL DEF Spec

-----------------------------------------------------------------------------
(* Conflicts between granted locks *)

\* Every request in a queue has a mode.
ModesKnown(q) ==
  \A l \in Locks, t \in Txns : q[l][t].status # "none" => q[l][t].mode \in Modes

\* ConflictAt for the queue contents q.
ConflictIn(q, l, t, u) ==
  /\ t # u /\ q[l][t].status = "granted" /\ q[l][u].status = "granted"
  /\ ~isLockCompatible(q[l][t].mode, q[l][u].mode)

\* Every conflict of r is one of q.
NoNewConflict(q, r) ==
  \A l \in Locks : \A t, u \in Txns : ConflictIn(r, l, t, u) => ConflictIn(q, l, t, u)

Compatible(q) == \A l \in Locks : \A t, u \in Txns : ~ConflictIn(q, l, t, u)

QueueOK(q) == ModesKnown(q) /\ Compatible(q)

\* Making a request wait, be it new or an upgrade, endangers nothing.
LEMMA WaitingOK ==
  ASSUME NEW q \in Queues, ModesKnown(q), NEW l \in Locks, NEW t \in Txns, NEW m \in Modes
  PROVE  /\ ModesKnown([q EXCEPT ![l][t] = [mode |-> m, status |-> "waiting"]])
         /\ NoNewConflict(q, [q EXCEPT ![l][t] = [mode |-> m, status |-> "waiting"]])
BY DEF ModesKnown, NoNewConflict, ConflictIn, Queues

\* Nor does erasing one.
LEMMA ErasedOK ==
  ASSUME NEW q \in Queues, ModesKnown(q), NEW l \in Locks, NEW t \in Txns
  PROVE  /\ ModesKnown([q EXCEPT ![l][t] = NoRequest])
         /\ NoNewConflict(q, [q EXCEPT ![l][t] = NoRequest])
BY DEF ModesKnown, NoNewConflict, ConflictIn, Queues, NoRequest

\* Granting a request is safe after checkQueueCompatible.
LEMMA GrantOK ==
  ASSUME NEW q \in Queues, ModesKnown(q), NEW l \in Locks, NEW t \in Txns,
         q[l][t].status # "none", checkQueueCompatible(q, l, t)
  PROVE  /\ ModesKnown([q EXCEPT ![l][t].status = "granted"])
         /\ NoNewConflict(q, [q EXCEPT ![l][t].status = "granted"])
<1> DEFINE r == [q EXCEPT ![l][t].status = "granted"]
<1>1. /\ r[l][t].mode = q[l][t].mode
      /\ \A k \in Locks, u \in Txns : r[k][u].mode = q[k][u].mode
      /\ \A k \in Locks, u \in Txns : <<k, u>> # <<l, t>> => r[k][u] = q[k][u]
  BY DEF Queues, LockRequest
<1>2. ModesKnown(r)
  BY <1>1 DEF ModesKnown
<1>3. ASSUME NEW k \in Locks, NEW v \in Txns, NEW u \in Txns, ConflictIn(r, k, v, u)
      PROVE  ConflictIn(q, k, v, u)
  <2>1. ~(k = l /\ u = t)
    BY <1>1, <1>3 DEF checkQueueCompatible, ConflictIn
  <2>2. ~(k = l /\ v = t)
    <3>1. ASSUME k = l, v = t PROVE isLockCompatible(r[k][u].mode, r[k][v].mode)
      BY <3>1, <1>1, <1>3 DEF checkQueueCompatible, ConflictIn
    <3>2. r[k][u].mode \in Modes /\ r[k][v].mode \in Modes
      BY <1>2, <1>3 DEF ModesKnown, ConflictIn
    <3> QED
      BY <3>1, <3>2, <1>3, CompatibleSymmetric DEF ConflictIn
  <2> QED
    BY <2>1, <2>2, <1>1, <1>3 DEF ConflictIn
<1> QED
  BY <1>2, <1>3 DEF NoNewConflict

\* A wait that ends or goes on makes no conflict.
LEMMA EvaluateWaitOK ==
  ASSUME NEW th \in Threads, NEW STATE wait, NEW STATE req, req \in Queues, NEW STATE upg,
         call[th].lock \in Locks, ModesKnown(req), NoNewConflict(request, req),
         req[call[th].lock][TxnOf[th]].status # "none",
         EvaluateWait(th, wait, req, upg)
  PROVE  ModesKnown(request') /\ NoNewConflict(request, request')
<1> DEFINE t == TxnOf[th]
           l == call[th].lock
<1>1. t \in Txns
  BY LockAssumption
<1>2. CASE request' = req
  BY <1>2
<1>3. CASE checkQueueCompatible(req, l, t) /\ request' = [req EXCEPT ![l][t].status = "granted"]
  <2>1. ModesKnown(request') /\ NoNewConflict(req, request')
    BY <1>1, <1>3, GrantOK
  <2> QED
    BY <2>1 DEF NoNewConflict
<1> QED
  BY <1>2, <1>3 DEF EvaluateWait

\* Unlock makes none.
LEMMA UnlockOK ==
  ASSUME TypeOK, ModesKnown(request), NEW th \in Threads, NEW l \in Locks, NEW next,
         Unlock(th, l, next)
  PROVE  ModesKnown(request') /\ NoNewConflict(request, request')
<1>1. TxnOf[th] \in Txns /\ request \in Queues
  BY LockAssumption DEF TypeOK, Queues
<1>2. CASE request' = [request EXCEPT ![l][TxnOf[th]] = NoRequest]
  BY <1>1, <1>2, ErasedOK
<1>3. CASE request' = request
  BY <1>3 DEF NoNewConflict
<1> QED
  BY <1>2, <1>3 DEF Unlock

\* A sleeping call, unless it is an orphan, has its request in the queue.
SleeperQueued ==
  \A th \in Threads : pc[th] = "waiting" => request[call[th].lock][TxnOf[th]].status # "none"

\* The inductive invariant for any number of threads per transaction.
QueueInv == TypeOK /\ ModesKnown(request) /\ SleeperQueued

\* The one behind GrantedCompatible.
LockInv == TypeOK /\ QueueOK(request) /\ SleeperQueued

\* A call that sleeps or returns keeps its own and all other requests queued.
LEMMA EvaluateWaitQueued ==
  ASSUME TypeOK, SleeperQueued, NEW th \in Threads, NEW STATE wait,
         NEW STATE req, req \in Queues, NEW STATE upg,
         call[th].lock \in Locks,
         req[call[th].lock][TxnOf[th]].status # "none",
         \A l \in Locks, t \in Txns : request[l][t].status # "none" => req[l][t].status # "none",
         EvaluateWait(th, wait, req, upg)
  PROVE  SleeperQueued'
<1> DEFINE t == TxnOf[th]
           l == call[th].lock
<1>1. \A u \in Threads : TxnOf[u] \in Txns
  BY LockAssumption
<1>2. \A k \in Locks, v \in Txns : request[k][v].status # "none" => request'[k][v].status # "none"
  <2>1. CASE request' = req
    BY <2>1
  <2>2. CASE request' = [req EXCEPT ![l][t].status = "granted"]
    BY <1>1, <2>2 DEF Queues, LockRequest
  <2> QED
    BY <2>1, <2>2 DEF EvaluateWait
<1>3. ASSUME NEW u \in Threads, u # th, pc'[u] = "waiting"
      PROVE  request'[call'[u].lock][TxnOf[u]].status # "none"
  <2>1. pc[u] = "waiting" /\ call'[u] = call[u]
    BY <1>3 DEF EvaluateWait, Return, TypeOK
  <2> QED
    BY <1>1, <1>2, <2>1 DEF SleeperQueued, TypeOK
<1>4. ASSUME pc'[th] = "waiting"
      PROVE  request'[call'[th].lock][TxnOf[th]].status # "none"
  <2>1. request' = req /\ call' = [call EXCEPT ![th].wait = wait]
    BY <1>4 DEF EvaluateWait, Return, TypeOK
  <2>2. call'[th].lock = call[th].lock
    BY <2>1 DEF TypeOK
  <2> QED
    BY <2>1, <2>2
<1> QED
  BY <1>3, <1>4 DEF SleeperQueued

\* Unlock turns the sleepers on the request it erases into orphans.
LEMMA UnlockQueued ==
  ASSUME TypeOK, SleeperQueued, NEW th \in Threads, NEW l \in Locks,
         NEW next \in {"idle", "releasing"}, Unlock(th, l, next)
  PROVE  SleeperQueued'
<1> SUFFICES ASSUME NEW u \in Threads, pc'[u] = "waiting"
             PROVE  request'[call'[u].lock][TxnOf[u]].status # "none"
  BY DEF SleeperQueued
<1>1. TxnOf[u] \in Txns /\ TxnOf[th] \in Txns
  BY LockAssumption
<1>2. pc[u] = "waiting" /\ call' = call /\ u # th
  BY DEF Unlock, Erased, TypeOK
<1>3. call[u].lock \in Locks /\ request[call[u].lock][TxnOf[u]].status # "none"
  BY <1>2 DEF SleeperQueued, TypeOK
<1>4. CASE request' = request
  BY <1>2, <1>3, <1>4
<1>5. CASE /\ request' = [request EXCEPT ![l][TxnOf[th]] = NoRequest]
           /\ pc' = [Erased(TxnOf[th], l, th) EXCEPT ![th] = next]
  <2>1. ~(call[u].lock = l /\ TxnOf[u] = TxnOf[th])
    BY <1>2, <1>5 DEF Erased, Sleepers
  <2> QED
    BY <1>1, <1>2, <1>3, <1>5, <2>1 DEF TypeOK
<1> QED
  BY <1>4, <1>5 DEF Unlock

\* The step of a call under the latch keeps QueueInv and makes no conflict.
LEMMA AcquireInv ==
  ASSUME QueueInv, NEW th \in Threads, Acquire(th)
  PROVE  ModesKnown(request') /\ NoNewConflict(request, request') /\ SleeperQueued'
<1> DEFINE t == TxnOf[th]
           l == call[th].lock
           m == call[th].mode
           w == [request EXCEPT ![l][t] = [mode |-> m, status |-> "waiting"]]
<1>t. t \in Txns /\ l \in Locks /\ m \in Modes
  BY LockAssumption DEF Acquire, QueueInv, TypeOK
<1>0. w \in Queues /\ request \in Queues
  BY <1>t, WaitArgsType DEF QueueInv
<1>w. /\ ModesKnown(w) /\ NoNewConflict(request, w)
      /\ ModesKnown(request) /\ NoNewConflict(request, request)
  BY <1>0, <1>t, WaitingOK DEF QueueInv, NoNewConflict
<1>v. /\ w[l][t].status # "none"
      /\ \A k \in Locks, u \in Txns : request[k][u].status # "none" => w[k][u].status # "none"
  BY <1>0, <1>t DEF Queues
<1>1. CASE AlreadyGranted(th) \/ RefuseUpgrade(th)
  <2>1. request' = request /\ Return(th)
    BY <1>1 DEF AlreadyGranted, RefuseUpgrade
  <2>2. SleeperQueued'
    BY <2>1 DEF QueueInv, SleeperQueued, Return, TypeOK
  <2> QED
    BY <1>w, <2>1, <2>2
<1>2. CASE JoinPending(th)
  BY <1>0, <1>2, <1>t, <1>w, EvaluateWaitOK, EvaluateWaitQueued DEF JoinPending, QueueInv
<1>3. CASE Upgrade(th)
  BY <1>0, <1>3, <1>t, <1>v, <1>w, EvaluateWaitOK, EvaluateWaitQueued DEF Upgrade, QueueInv
<1>4. CASE NewRequest(th)
  BY <1>0, <1>4, <1>t, <1>v, <1>w, EvaluateWaitOK, EvaluateWaitQueued DEF NewRequest, QueueInv
<1> QED
  BY <1>1, <1>2, <1>3, <1>4 DEF Acquire

\* Every step keeps QueueInv, and only the return of an orphan makes a conflict.
LEMMA NextQueue ==
  ASSUME QueueInv, [Next]_vars
  PROVE  /\ QueueInv'
         /\ \/ NoNewConflict(request, request')
            \/ \E th \in Threads : OrphanReturn(th)
<1> DEFINE Fine == QueueInv' /\ NoNewConflict(request, request')
<1> USE DEF QueueInv
<1>0. TypeOK'
  BY NextType
<1>1. ASSUME NEW th \in Threads, LockCall(th) PROVE Fine
  <2>1. PICK l \in Locks, m \in Modes, allowed \in {Modes, RowModes} : LockEntry(th, l, m, allowed)
    BY <1>1, LockAssumption DEF LockCall, LockTable, LockPartition, LockRow
  <2>2. SleeperQueued'
    BY <2>1 DEF LockEntry, SleeperQueued, TypeOK
  <2> QED
    BY <1>0, <2>1, <2>2 DEF LockEntry, NoNewConflict
<1>2. ASSUME NEW th \in Threads, Acquire(th) PROVE Fine
  BY <1>0, <1>2, AcquireInv
<1>3. ASSUME NEW th \in Threads, Wake(th) \/ SpuriousWake(th) PROVE Fine
  <2>1. /\ call[th].lock \in Locks
        /\ request \in Queues
        /\ request[call[th].lock][TxnOf[th]].status # "none"
        /\ EvaluateWait(th, call[th].wait, request, upgrading)
    BY <1>3 DEF Wake, SpuriousWake, TypeOK, Queues, SleeperQueued
  <2>2. NoNewConflict(request, request)
    BY DEF NoNewConflict
  <2> QED
    BY <1>0, <2>1, <2>2, EvaluateWaitOK, EvaluateWaitQueued
<1>4. ASSUME NEW th \in Threads, UnlockCall(th) PROVE Fine
  <2>1. PICK l \in Locks : Unlock(th, l, "idle")
    BY <1>4 DEF UnlockCall, UnLockTable, UnLockPartition, UnLockRow
  <2> QED
    BY <1>0, <2>1, UnlockOK, UnlockQueued
<1>5. ASSUME NEW th \in Threads, OrphanReturn(th) PROVE QueueInv'
  <2>1. ModesKnown(request')
    BY <1>5, OrphanQueues DEF ModesKnown
  <2>2. ASSUME NEW u \in Threads, pc'[u] = "waiting"
        PROVE  request'[call'[u].lock][TxnOf[u]].status # "none"
    <3>1. pc[u] = "waiting" /\ call'[u] = call[u]
      BY <1>5, <2>2 DEF OrphanReturn, Return, TypeOK
    <3>2. call[u].lock \in Locks /\ TxnOf[u] \in Txns
      BY <3>1, LockAssumption DEF TypeOK
    <3> QED
      BY <1>5, <3>1, <3>2, OrphanQueues DEF SleeperQueued
  <2> QED
    BY <1>0, <2>1, <2>2 DEF SleeperQueued
<1>6. ASSUME NEW th \in Threads, ReleaseLocks(th) \/ ReleaseEnd(th) PROVE Fine
  BY <1>0, <1>6 DEF ReleaseLocks, ReleaseEnd, SleeperQueued, TypeOK, NoNewConflict
<1>7. ASSUME NEW th \in Threads, ReleaseNext(th) PROVE Fine
  <2>1. PICK i \in Remaining(th) : \E l \in SetAt(TxnOf[th], i) : Unlock(th, l, "releasing")
    BY <1>7 DEF ReleaseNext
  <2>2. PICK l \in SetAt(TxnOf[th], i) : Unlock(th, l, "releasing")
    BY <2>1
  <2>3. ReleaseOrder[i][2] \in Modes
    BY <2>1, ReleaseOrderLen DEF Remaining, ReleaseOrder, Modes
  <2>4. l \in Locks
    BY <2>2, <2>3, LockAssumption DEF SetAt, TypeOK
  <2> QED
    BY <1>0, <2>2, <2>4, UnlockOK, UnlockQueued
<1>8. CASE UNCHANGED vars
  BY <1>0, <1>8 DEF vars, SleeperQueued, NoNewConflict
<1> QED
  BY <1>1, <1>2, <1>3, <1>4, <1>5, <1>6, <1>7, <1>8 DEF Next, Step, Terminated

\* QueueInv holds in the beginning, when there is nothing to conflict.
LEMMA InitQueue == Init => QueueInv /\ LockInv
<1>1. Init => TypeOK
  BY ReleaseOrderLen DEF Init, TypeOK, NoRequest, NoCall, LockRequest, TransactionState, WaitKinds
<1>2. Init => QueueOK(request) /\ SleeperQueued
  BY DEF Init, QueueOK, ModesKnown, Compatible, ConflictIn, NoRequest, SleeperQueued
<1> QED
  BY <1>1, <1>2 DEF QueueInv, LockInv, QueueOK

\* Two transactions come to hold a lock in conflicting modes only when a call
\* whose request was erased while it slept writes granted_ through the freed
\* element of the queue: checkQueueCompatible guards every other grant, for any
\* number of threads per transaction and with or without No-Wait.
THEOREM OnlyOrphansConflict == Spec => ConflictsOnlyByOrphans
<1>1. QueueInv /\ [Next]_vars => QueueInv'
  BY NextQueue
<1>2. QueueInv /\ [Next]_vars =>
        [(\A th \in Threads : pc[th] = "orphan" => pc'[th] = "orphan") =>
           \A l \in Locks : \A t, u \in Txns : ConflictAt(l, t, u)' => ConflictAt(l, t, u)]_vars
  <2> SUFFICES ASSUME QueueInv, [Next]_vars,
                      \A th \in Threads : pc[th] = "orphan" => pc'[th] = "orphan",
                      NEW l \in Locks, NEW t \in Txns, NEW u \in Txns, ConflictAt(l, t, u)'
               PROVE  ConflictAt(l, t, u)
    OBVIOUS
  <2>1. ASSUME NEW th \in Threads, OrphanReturn(th) PROVE FALSE
    BY <2>1 DEF OrphanReturn, Return, QueueInv, TypeOK
  <2>2. NoNewConflict(request, request')
    BY <2>1, NextQueue
  <2>3. ConflictIn(request', l, t, u)
    BY DEF ConflictAt, ConflictIn, Held
  <2> QED
    BY <2>2, <2>3 DEF NoNewConflict, ConflictAt, ConflictIn, Held
<1> QED
  BY <1>1, <1>2, InitQueue, PTL DEF Spec, ConflictsOnlyByOrphans

OneThreadPerTxn == \A th, u \in Threads : TxnOf[th] = TxnOf[u] => th = u

\* No call has lost its request.
NoOrphan == \A th \in Threads : pc[th] # "orphan"

\* While no call has lost its request, every step keeps LockInv.
LEMMA NextInv ==
  ASSUME LockInv, NoOrphan, [Next]_vars
  PROVE  LockInv'
<1>1. QueueInv
  BY DEF LockInv, QueueInv, QueueOK
<1>2. QueueInv' /\ NoNewConflict(request, request')
  BY <1>1, NextQueue DEF OrphanReturn, NoOrphan
<1>3. Compatible(request')
  BY <1>2 DEF NoNewConflict, LockInv, QueueOK, Compatible
<1> QED
  BY <1>2, <1>3 DEF LockInv, QueueInv, QueueOK

\* Only another thread of the same transaction can erase the request of a call.
LEMMA NextOrphan ==
  ASSUME OneThreadPerTxn, TypeOK, NoOrphan, [Next]_vars
  PROVE  NoOrphan'
<1> USE DEF TypeOK, NoOrphan
<1>1. ASSUME NEW th \in Threads, NEW l, NEW next \in {"idle", "releasing"}, Unlock(th, l, next)
      PROVE  NoOrphan'
  <2>1. Erased(TxnOf[th], l, th) = pc
    BY DEF Erased, OneThreadPerTxn
  <2> QED
    BY <1>1, <2>1 DEF Unlock
<1>2. ASSUME NEW th \in Threads, NEW STATE wait, NEW STATE req, NEW STATE upg,
             EvaluateWait(th, wait, req, upg)
      PROVE  NoOrphan'
  BY <1>2 DEF EvaluateWait, Return
<1>3. ASSUME NEW th \in Threads, Acquire(th) PROVE NoOrphan'
  BY <1>2, <1>3
     DEF Acquire, AlreadyGranted, JoinPending, RefuseUpgrade, Upgrade, NewRequest, Return
<1>4. ASSUME NEW th \in Threads, Wake(th) \/ SpuriousWake(th) PROVE NoOrphan'
  BY <1>2, <1>4 DEF Wake, SpuriousWake
<1>5. ASSUME NEW th \in Threads, UnlockCall(th) \/ ReleaseNext(th) PROVE NoOrphan'
  BY <1>1, <1>5 DEF UnlockCall, UnLockTable, UnLockPartition, UnLockRow, ReleaseNext
<1>6. ASSUME NEW th \in Threads,
             LockCall(th) \/ OrphanReturn(th) \/ ReleaseLocks(th) \/ ReleaseEnd(th)
      PROVE  NoOrphan'
  BY <1>6 DEF LockCall, LockTable, LockPartition, LockRow, LockEntry, OrphanReturn,
              ReleaseLocks, ReleaseEnd
<1>7. CASE UNCHANGED vars
  BY <1>7 DEF vars
<1> QED
  BY <1>3, <1>4, <1>5, <1>6, <1>7 DEF Next, Step, Terminated

\* With one thread per transaction no call loses its request.
LEMMA NoOrphanEver ==
  ASSUME OneThreadPerTxn
  PROVE  Spec => []NoOrphan
<1>1. Init => NoOrphan
  BY DEF Init, NoOrphan
<1>2. TypeOK /\ NoOrphan /\ [Next]_vars => NoOrphan'
  BY NextOrphan
<1> QED
  BY <1>1, <1>2, TypeCorrect, PTL DEF Spec

\* With one thread per transaction no call loses its request, and transactions
\* never hold a lock in conflicting modes, with or without No-Wait.
THEOREM GrantedLocksCompatible ==
  ASSUME OneThreadPerTxn
  PROVE  Spec => []GrantedCompatible
<1>1. LockInv /\ NoOrphan /\ [Next]_vars => LockInv'
  BY NextInv
<1>2. LockInv => GrantedCompatible
  BY DEF LockInv, QueueOK, Compatible, ConflictIn, GrantedCompatible, ConflictAt, Held
<1> QED
  BY <1>1, <1>2, InitQueue, NoOrphanEver, PTL DEF Spec

-----------------------------------------------------------------------------
(* Two-phase locking with one thread per transaction *)

\* A transaction whose lock call is under way has not left its growing phase,
\* unless the call has aborted it.
CallGrowing ==
  \A th \in Threads : pc[th] \in {"latch", "waiting"} => state[TxnOf[th]] \in {"GROWING", "ABORTED"}

\* Nothing a thread does changes the state or the calls of other transactions.
LEMMA OtherTxn ==
  ASSUME TypeOK, OneThreadPerTxn, NEW th \in Threads, Step(th), NEW u \in Threads, u # th
  PROVE  state'[TxnOf[u]] = state[TxnOf[u]] /\ pc'[u] = pc[u]
<1>1. TxnOf[u] \in Txns /\ TxnOf[th] \in Txns /\ TxnOf[u] # TxnOf[th]
  BY LockAssumption DEF OneThreadPerTxn
<1> USE DEF TypeOK
<1>2. CASE LockCall(th)
  BY <1>1, <1>2 DEF LockCall, LockTable, LockPartition, LockRow, LockEntry
<1>3. ASSUME NEW STATE wait, NEW STATE req, NEW STATE upg, EvaluateWait(th, wait, req, upg)
      PROVE  state'[TxnOf[u]] = state[TxnOf[u]] /\ pc'[u] = pc[u]
  BY <1>1, <1>3 DEF EvaluateWait, Return
<1>4. CASE Acquire(th)
  BY <1>1, <1>3, <1>4
     DEF Acquire, AlreadyGranted, JoinPending, RefuseUpgrade, Upgrade, NewRequest, Return
<1>5. CASE Wake(th) \/ SpuriousWake(th)
  BY <1>3, <1>5 DEF Wake, SpuriousWake
<1>6. ASSUME NEW l, NEW next, Unlock(th, l, next)
      PROVE  state'[TxnOf[u]] = state[TxnOf[u]] /\ pc'[u] = pc[u]
  BY <1>1, <1>6 DEF Unlock, Erased
<1>7. CASE UnlockCall(th)
  BY <1>6, <1>7 DEF UnlockCall, UnLockTable, UnLockPartition, UnLockRow
<1>8. CASE OrphanReturn(th)
  BY <1>1, <1>8 DEF OrphanReturn, Return
<1>9. CASE ReleaseLocks(th) \/ ReleaseEnd(th)
  BY <1>9 DEF ReleaseLocks, ReleaseEnd
<1>10. CASE ReleaseNext(th)
  BY <1>6, <1>10 DEF ReleaseNext
<1> QED
  BY <1>2, <1>4, <1>5, <1>7, <1>8, <1>9, <1>10 DEF Step

\* The thread that takes a step keeps CallGrowing for itself.
LEMMA OwnCallGrowing ==
  ASSUME TypeOK, CallGrowing, NEW th \in Threads, Step(th),
         pc'[th] \in {"latch", "waiting"}
  PROVE  state'[TxnOf[th]] \in {"GROWING", "ABORTED"}
<1>1. TxnOf[th] \in Txns
  BY LockAssumption
<1> USE DEF TypeOK
<1>2. CASE LockCall(th)
  BY <1>1, <1>2 DEF LockCall, LockTable, LockPartition, LockRow, LockEntry
<1>3. ASSUME NEW STATE wait, NEW STATE req, NEW STATE upg, EvaluateWait(th, wait, req, upg),
             pc[th] \in {"latch", "waiting"}
      PROVE  state'[TxnOf[th]] \in {"GROWING", "ABORTED"}
  BY <1>1, <1>3 DEF EvaluateWait, CallGrowing
<1>4. CASE Acquire(th)
  BY <1>1, <1>3, <1>4
     DEF Acquire, AlreadyGranted, JoinPending, RefuseUpgrade, Upgrade, NewRequest, CallGrowing
<1>5. CASE Wake(th) \/ SpuriousWake(th)
  BY <1>3, <1>5 DEF Wake, SpuriousWake
<1>6. CASE UnlockCall(th)
  BY <1>6 DEF UnlockCall, UnLockTable, UnLockPartition, UnLockRow, Unlock, Erased
<1>7. CASE OrphanReturn(th)
  BY <1>7 DEF OrphanReturn, Return
<1>8. CASE ReleaseLocks(th) \/ ReleaseEnd(th)
  BY <1>8 DEF ReleaseLocks, ReleaseEnd
<1>9. CASE ReleaseNext(th)
  BY <1>9 DEF ReleaseNext, Unlock, Erased
<1> QED
  BY <1>2, <1>4, <1>5, <1>6, <1>7, <1>8, <1>9 DEF Step

\* A step that grants a lock is the step of a call of the transaction.
LEMMA GrantGrowing ==
  ASSUME TypeOK, NoOrphan, CallGrowing, NEW th \in Threads, Step(th),
         NEW l \in Locks, NEW t \in Txns, ~Held(l, t), Held(l, t)'
  PROVE  state'[t] = "GROWING"
<1>1. TxnOf[th] \in Txns
  BY LockAssumption
<1>2. request' # request
  BY DEF Held
<1>3. ASSUME NEW STATE wait, NEW STATE req, req \in Queues, NEW STATE upg,
             EvaluateWait(th, wait, req, upg), call[th].lock \in Locks,
             pc[th] \in {"latch", "waiting"}, req[l][t].status # "granted"
      PROVE  state'[t] = "GROWING"
  <2>1. request' = [req EXCEPT ![call[th].lock][TxnOf[th]].status = "granted"]
        /\ state[TxnOf[th]] # "ABORTED" /\ UNCHANGED state
    BY <1>3 DEF EvaluateWait, Held
  <2>2. t = TxnOf[th]
    BY <1>1, <1>3, <2>1 DEF Held, Queues
  <2> QED
    BY <1>3, <2>1, <2>2 DEF CallGrowing
<1>4. CASE Acquire(th)
  <2> DEFINE w == [request EXCEPT ![call[th].lock][TxnOf[th]] =
                     [mode |-> call[th].mode, status |-> "waiting"]]
  <2>1. call[th].lock \in Locks /\ call[th].mode \in Modes /\ pc[th] = "latch"
    BY <1>4 DEF Acquire, TypeOK
  <2>2. w \in Queues /\ request \in Queues
    BY <1>1, <2>1, WaitArgsType
  <2>3. w[l][t].status # "granted" /\ request[l][t].status # "granted"
    BY <1>1, <2>1 DEF Held, TypeOK
  <2>4. CASE JoinPending(th)
    BY <1>3, <2>1, <2>2, <2>3, <2>4 DEF JoinPending
  <2>5. CASE Upgrade(th)
    BY <1>3, <2>1, <2>2, <2>3, <2>5 DEF Upgrade
  <2>6. CASE NewRequest(th)
    BY <1>3, <2>1, <2>2, <2>3, <2>6 DEF NewRequest
  <2> QED
    BY <1>2, <1>4, <2>4, <2>5, <2>6 DEF Acquire, AlreadyGranted, RefuseUpgrade
<1>5. CASE Wake(th) \/ SpuriousWake(th)
  <2>1. call[th].lock \in Locks /\ pc[th] = "waiting" /\ request \in Queues
    BY <1>5 DEF Wake, SpuriousWake, TypeOK, Queues
  <2> QED
    BY <1>3, <1>5, <2>1 DEF Wake, SpuriousWake, Held
<1>6. ASSUME NEW k, NEW next, Unlock(th, k, next) PROVE FALSE
  <2>1. request' = [request EXCEPT ![k][TxnOf[th]] = NoRequest]
    BY <1>2, <1>6 DEF Unlock
  <2> QED
    BY <1>1, <2>1 DEF Held, NoRequest, TypeOK
<1>7. ~OrphanReturn(th)
  BY DEF OrphanReturn, NoOrphan
<1> QED
  BY <1>2, <1>4, <1>5, <1>6, <1>7
     DEF Step, LockCall, LockTable, LockPartition, LockRow, LockEntry, UnlockCall,
         UnLockTable, UnLockPartition, UnLockRow, ReleaseLocks, ReleaseEnd, ReleaseNext

\* With one thread per transaction, no lock is granted outside the growing
\* phase: neither the gap between the state check and the latch nor the sleep
\* lets the transaction leave it.
THEOREM GrantsAreTwoPhase ==
  ASSUME OneThreadPerTxn
  PROVE  Spec => GrantOnlyWhileGrowing
<1>1. Init => CallGrowing
  BY DEF Init, CallGrowing
<1>2. TypeOK /\ CallGrowing /\ [Next]_vars => CallGrowing'
  <2> SUFFICES ASSUME TypeOK, CallGrowing, [Next]_vars PROVE CallGrowing'
    OBVIOUS
  <2>1. ASSUME NEW th \in Threads, Step(th) PROVE CallGrowing'
    BY <2>1, OtherTxn, OwnCallGrowing DEF CallGrowing
  <2>2. CASE UNCHANGED vars
    BY <2>2 DEF vars, CallGrowing
  <2> QED
    BY <2>1, <2>2 DEF Next, Terminated
<1>3. TypeOK /\ NoOrphan /\ CallGrowing /\ [Next]_vars =>
        [\A l \in Locks, t \in Txns : ~Held(l, t) /\ Held(l, t)' => state'[t] = "GROWING"]_vars
  BY GrantGrowing DEF Next, Terminated
<1> QED
  BY <1>1, <1>2, <1>3, TypeCorrect, NoOrphanEver, PTL DEF Spec, GrantOnlyWhileGrowing

(***************************************************************************)
(* The steps of the lock manager with No-Wait, by their effect on queues,  *)
(* transactions and lock sets.                                             *)
(***************************************************************************)

Quiet(t) ==
  /\ UNCHANGED <<request, lock_set>>
  /\ \/ UNCHANGED state
     \/ state' = [state EXCEPT ![t] = "ABORTED"]
     \/ state[t] \in {"DEFAULT", "GROWING"} /\ state' = [state EXCEPT ![t] = "GROWING"]

Granted(t, l, m) ==
  /\ state[t] # "ABORTED" /\ UNCHANGED state
  /\ request[l][t].status = "none" \/ isUpdateCompatible(request[l][t].mode, m)
  /\ \A u \in Txns \ {t} : Held(l, u) => isLockCompatible(request[l][u].mode, m)
  /\ request' = [request EXCEPT ![l][t] = [mode |-> m, status |-> "granted"]]
  /\ add_lock_set(t, m, l)

Repeated(t, l, m) ==
  /\ UNCHANGED <<state, request>>
  /\ Held(l, t) /\ request[l][t].mode = m
  /\ add_lock_set(t, m, l)

Failed(t, l, m) ==
  /\ state' = [state EXCEPT ![t] = "ABORTED"]
  /\ request' = [request EXCEPT ![l][t] = [mode |-> m, status |-> "waiting"]]
  /\ UNCHANGED lock_set

Unlocked(t, l) ==
  /\ \/ /\ Held(l, t)
        /\ request' = [request EXCEPT ![l][t] = NoRequest]
        /\ state' = [state EXCEPT ![t] = IF @ = "GROWING" THEN "SHRINKING" ELSE @]
     \/ ~Held(l, t) /\ UNCHANGED request /\ state' = [state EXCEPT ![t] = "ABORTED"]
  /\ lock_set' = [lock_set EXCEPT ![t] = [m \in Modes |-> @[m] \ {l}]]

\* A call under the latch.
Called(th, l, m) == pc[th] = "latch" /\ l = call[th].lock /\ m = call[th].mode

Effect(th) ==
  \/ Quiet(TxnOf[th])
  \/ \E l \in Locks, m \in Modes : Called(th, l, m) /\ Granted(TxnOf[th], l, m)
  \/ \E l \in Locks, m \in Modes : Called(th, l, m) /\ Repeated(TxnOf[th], l, m)
  \/ \E l \in Locks, m \in Modes : Called(th, l, m) /\ Failed(TxnOf[th], l, m)
  \/ \E l \in Locks : pc[th] \in {"idle", "releasing"} /\ Unlocked(TxnOf[th], l)

(***************************************************************************)
(* The inductive invariant.                                                *)
(***************************************************************************)

\* With No-Wait nobody sleeps, and only an aborted transaction has a request
\* that was not granted.
Awake ==
  /\ \A th \in Threads : pc[th] \notin {"waiting", "orphan"}
  /\ \A t \in Txns, l \in Locks : state[t] # "ABORTED" => request[l][t].status # "waiting"

\* An entry of a lock set has a granted request of its mode or a stronger one.
Backed ==
  \A t \in Txns : state[t] # "ABORTED" => \A m \in Modes : \A l \in lock_set[t][m] :
    Held(l, t) /\ (request[l][t].mode = m \/ isUpdateCompatible(m, request[l][t].mode))

\* A waiting request made by this step.
Wait(l, t, m) == [request EXCEPT ![l][t] = [mode |-> m, status |-> "waiting"]]

\* The same, granted.
WaitOver(l, t, m) == [Wait(l, t, m) EXCEPT ![l][t].status = "granted"]
Holding(l, t, m) == [request EXCEPT ![l][t] = [mode |-> m, status |-> "granted"]]

LEMMA WaitFacts ==
  ASSUME TypeOK, NEW l \in Locks, NEW t \in Txns, NEW m \in Modes
  PROVE  /\ checkQueueCompatible(Wait(l, t, m), l, t) =>
              \A u \in Txns \ {t} : Held(l, u) => isLockCompatible(request[l][u].mode, m)
         /\ WaitOver(l, t, m) = Holding(l, t, m)
<1>0. request \in [Locks -> [Txns -> LockRequest]]
  BY DEF TypeOK
<1>1. /\ Wait(l, t, m)[l][t] = [mode |-> m, status |-> "waiting"]
      /\ \A u \in Txns \ {t} : Wait(l, t, m)[l][u] = request[l][u]
  BY <1>0 DEF Wait
<1>2. checkQueueCompatible(Wait(l, t, m), l, t) =>
        \A u \in Txns \ {t} : Held(l, u) => isLockCompatible(request[l][u].mode, m)
  BY <1>1 DEF checkQueueCompatible, Held
<1>3. WaitOver(l, t, m) = Holding(l, t, m)
  <2> DEFINE g == [Wait(l, t, m) EXCEPT ![l][t].status = "granted"]
             r == [request EXCEPT ![l][t] = [mode |-> m, status |-> "granted"]]
  <2>1. [Wait(l, t, m)[l][t] EXCEPT !.status = "granted"] = [mode |-> m, status |-> "granted"]
    BY <1>1
  <2>2. Wait(l, t, m)[l] = [request[l] EXCEPT ![t] = [mode |-> m, status |-> "waiting"]]
    BY <1>0 DEF Wait
  <2>3. [Wait(l, t, m)[l] EXCEPT ![t] = [mode |-> m, status |-> "granted"]]
          = [request[l] EXCEPT ![t] = [mode |-> m, status |-> "granted"]]
    BY <1>0, <2>2
  <2>4. g = [Wait(l, t, m) EXCEPT ![l] = [Wait(l, t, m)[l] EXCEPT ![t] = [Wait(l, t, m)[l][t] EXCEPT !.status = "granted"]]]
    OBVIOUS
  <2>5. g = [Wait(l, t, m) EXCEPT ![l] = [request[l] EXCEPT ![t] = [mode |-> m, status |-> "granted"]]]
    BY <2>1, <2>3, <2>4
  <2>6. \A c, d : [[request EXCEPT ![l] = c] EXCEPT ![l] = d] = [request EXCEPT ![l] = d]
    BY <1>0
  <2>7. Wait(l, t, m) = [request EXCEPT ![l] = [request[l] EXCEPT ![t] = [mode |-> m, status |-> "waiting"]]]
    BY DEF Wait
  <2>8. r = [request EXCEPT ![l] = [request[l] EXCEPT ![t] = [mode |-> m, status |-> "granted"]]]
    OBVIOUS
  <2> HIDE DEF g, r
  <2>9. g = r
    BY <2>5, <2>6, <2>7, <2>8, Zenon
  <2> QED
    BY <2>9 DEF g, r, WaitOver, Holding
<1> QED
  BY <1>2, <1>3

\* What a wait comes to with No-Wait.
LEMMA WaitEffect ==
  ASSUME TypeOK, NoWait, NEW th \in Threads, NEW STATE wait, NEW STATE upg, Called(th, call[th].lock, call[th].mode),
         EvaluateWait(th, wait, Wait(call[th].lock, TxnOf[th], call[th].mode), upg),
         LET r == request[call[th].lock][TxnOf[th]]
         IN  r.status = "none" \/ isUpdateCompatible(r.mode, call[th].mode)
  PROVE  Granted(TxnOf[th], call[th].lock, call[th].mode) \/ Failed(TxnOf[th], call[th].lock, call[th].mode)
<1> DEFINE t == TxnOf[th]
           l == call[th].lock
           m == call[th].mode
<1>0. t \in Txns /\ l \in Locks /\ m \in Modes
  BY LockAssumption DEF TypeOK, Called
<1>1. CASE /\ checkQueueCompatible(Wait(l, t, m), l, t) /\ state[t] # "ABORTED"
           /\ request' = [Wait(l, t, m) EXCEPT ![l][t].status = "granted"]
           /\ add_lock_set(t, m, l) /\ UNCHANGED state
  <2>1. request' = [request EXCEPT ![l][t] = [mode |-> m, status |-> "granted"]]
    <3>1. request' = WaitOver(l, t, m)
      BY <1>1 DEF WaitOver
    <3>2. request' = Holding(l, t, m)
      BY <1>0, <3>1, WaitFacts
    <3> QED
      BY <3>2 DEF Holding
  <2>2. \A u \in Txns \ {t} : Held(l, u) => isLockCompatible(request[l][u].mode, m)
    BY <1>0, <1>1, WaitFacts
  <2>3. request[l][t].status = "none" \/ isUpdateCompatible(request[l][t].mode, m)
    OBVIOUS
  <2> QED
    BY <1>1, <2>1, <2>2, <2>3 DEF Granted
<1>2. CASE /\ state' = [state EXCEPT ![t] = "ABORTED"] /\ request' = Wait(l, t, m) /\ UNCHANGED lock_set
  BY <1>2 DEF Failed, Wait
<1> QED
  BY <1>1, <1>2 DEF EvaluateWait

LEMMA AcquireEffect ==
  ASSUME TypeOK, Awake, NoWait, NEW th \in Threads, Acquire(th)
  PROVE  Effect(th)
<1> DEFINE t == TxnOf[th]
           l == call[th].lock
           m == call[th].mode
<1>0. t \in Txns /\ l \in Locks /\ m \in Modes /\ Called(th, l, m)
  BY LockAssumption DEF Acquire, TypeOK, Called
<1>1. CASE AlreadyGranted(th)
  <2>1. UNCHANGED <<state, request>> /\ Held(l, t) /\ request[l][t].mode = m
    BY <1>1 DEF AlreadyGranted, Held
  <2>2. CASE UNCHANGED lock_set
    BY <2>1, <2>2 DEF Effect, Quiet
  <2>3. CASE add_lock_set(t, m, l)
    BY <1>0, <2>1, <2>3 DEF Effect, Repeated
  <2> QED
    BY <1>1, <2>2, <2>3 DEF AlreadyGranted
<1>2. CASE JoinPending(th)
  <2>1. state[t] = "ABORTED"
    BY <1>0, <1>2 DEF JoinPending, Awake
  <2>2. UNCHANGED <<request, lock_set>> /\ state' = [state EXCEPT ![t] = "ABORTED"]
    BY <1>2, <2>1 DEF JoinPending, EvaluateWait
  <2> QED
    BY <2>2 DEF Effect, Quiet
<1>3. CASE RefuseUpgrade(th)
  BY <1>3 DEF RefuseUpgrade, Effect, Quiet
<1>4. CASE Upgrade(th) \/ NewRequest(th)
  <2>1. \E upg \in {upgrading, [upgrading EXCEPT ![l] = TRUE]}, wait \in {"new", "upgrade"} :
          EvaluateWait(th, wait, Wait(l, t, m), upg)
    BY <1>4 DEF Upgrade, NewRequest, Wait
  <2>2. request[l][t].status = "none" \/ isUpdateCompatible(request[l][t].mode, m)
    BY <1>4 DEF Upgrade, NewRequest
  <2>3. Granted(t, l, m) \/ Failed(t, l, m)
    BY <1>0, <2>1, <2>2, WaitEffect
  <2> QED
    BY <1>0, <2>3 DEF Effect
<1> QED
  BY <1>1, <1>2, <1>3, <1>4 DEF Acquire

LEMMA StepEffect ==
  ASSUME TypeOK, Awake, NoWait, NEW th \in Threads, Step(th)
  PROVE  Effect(th)
<1>1. CASE LockCall(th)
  <2>1. PICK l \in Locks, m \in Modes, allowed \in {Modes, RowModes} : LockEntry(th, l, m, allowed)
    BY <1>1, LockAssumption DEF LockCall, LockTable, LockPartition, LockRow
  <2> QED
    BY <2>1 DEF LockEntry, Effect, Quiet
<1>2. CASE Acquire(th)
  BY <1>2, AcquireEffect
<1>3. CASE Wake(th) \/ SpuriousWake(th) \/ OrphanReturn(th)
  BY <1>3 DEF Wake, SpuriousWake, OrphanReturn, Awake
<1>4. CASE ReleaseLocks(th) \/ ReleaseEnd(th)
  BY <1>4 DEF ReleaseLocks, ReleaseEnd, Effect, Quiet
<1>5. ASSUME NEW l \in Locks, NEW next, Unlock(th, l, next), pc[th] \in {"idle", "releasing"}
      PROVE  Effect(th)
  <2>1. Unlocked(TxnOf[th], l)
    BY <1>5 DEF Unlock, Unlocked, Held
  <2> QED
    BY <1>5, <2>1 DEF Effect
<1>6. CASE UnlockCall(th)
  BY <1>5, <1>6 DEF UnlockCall, UnLockTable, UnLockPartition, UnLockRow
<1>7. CASE ReleaseNext(th)
  <2>1. PICK i \in Remaining(th) : \E l \in SetAt(TxnOf[th], i) : Unlock(th, l, "releasing")
    BY <1>7 DEF ReleaseNext
  <2>2. PICK l \in SetAt(TxnOf[th], i) : Unlock(th, l, "releasing")
    BY <2>1
  <2>3. ReleaseOrder[i][2] \in Modes /\ TxnOf[th] \in Txns
    BY <2>1, ReleaseOrderLen, LockAssumption DEF Remaining, ReleaseOrder, Modes
  <2>4. l \in Locks
    BY <2>2, <2>3 DEF SetAt, TypeOK
  <2> QED
    BY <1>5, <1>7, <2>2, <2>4 DEF ReleaseNext
<1> QED
  BY <1>1, <1>2, <1>3, <1>4, <1>6, <1>7 DEF Step

(***************************************************************************)
(* Lock sets and queues agree.                                             *)
(***************************************************************************)

\* What an effect leaves of state, queues and lock sets.
Elsewhere(l, t) == \A k \in Locks, u \in Txns : ~(k = l /\ u = t) => request'[k][u] = request[k][u]

LEMMA GrantedFacts ==
  ASSUME TypeOK, NEW t \in Txns, NEW l \in Locks, NEW m \in Modes, Granted(t, l, m)
  PROVE  request'[l][t].mode = m /\ request'[l][t].status = "granted" /\ Elsewhere(l, t)
<1>1. request \in [Locks -> [Txns -> LockRequest]]
  BY DEF TypeOK
<1>2. request' = [request EXCEPT ![l][t] = [mode |-> m, status |-> "granted"]]
  BY DEF Granted
<1> QED
  BY <1>1, <1>2 DEF Elsewhere

LEMMA FailedFacts ==
  ASSUME TypeOK, NEW t \in Txns, NEW l \in Locks, NEW m \in Modes, Failed(t, l, m)
  PROVE  /\ request'[l][t].status = "waiting" /\ Elsewhere(l, t)
         /\ state'[t] = "ABORTED" /\ \A u \in Txns \ {t} : state'[u] = state[u]
<1>1. request \in [Locks -> [Txns -> LockRequest]] /\ state \in [Txns -> TransactionState]
  BY DEF TypeOK
<1>2. request' = [request EXCEPT ![l][t] = [mode |-> m, status |-> "waiting"]]
  BY DEF Failed
<1>3. request'[l][t].status = "waiting" /\ Elsewhere(l, t)
  BY <1>1, <1>2 DEF Elsewhere
<1>4. state'[t] = "ABORTED" /\ \A u \in Txns \ {t} : state'[u] = state[u]
  BY <1>1 DEF Failed
<1> QED
  BY <1>3, <1>4

LEMMA UnlockedFacts ==
  ASSUME TypeOK, NEW t \in Txns, NEW l \in Locks, Unlocked(t, l)
  PROVE  /\ Elsewhere(l, t)
         /\ Held(l, t) => request'[l][t].status = "none"
         /\ ~Held(l, t) => request' = request /\ state'[t] = "ABORTED"
         /\ \A u \in Txns \ {t} : state'[u] = state[u]
         /\ state'[t] # "ABORTED" => state[t] # "ABORTED"
         /\ state'[t] = "DEFAULT" => state[t] = "DEFAULT"
         /\ state'[t] # "GROWING"
         /\ \A u \in Txns \ {t} : lock_set'[u] = lock_set[u]
         /\ \A n \in Modes : lock_set'[t][n] = lock_set[t][n] \ {l}
<1>1. /\ request \in [Locks -> [Txns -> LockRequest]] /\ state \in [Txns -> TransactionState]
      /\ lock_set \in [Txns -> [Modes -> SUBSET Locks]]
  BY DEF TypeOK
<1>2. lock_set' = [lock_set EXCEPT ![t] = [m \in Modes |-> @[m] \ {l}]]
  BY DEF Unlocked
<1>3. /\ \A u \in Txns \ {t} : lock_set'[u] = lock_set[u]
      /\ \A n \in Modes : lock_set'[t][n] = lock_set[t][n] \ {l}
  BY <1>1, <1>2
<1>4. CASE /\ Held(l, t) /\ request' = [request EXCEPT ![l][t] = NoRequest]
           /\ state' = [state EXCEPT ![t] = IF @ = "GROWING" THEN "SHRINKING" ELSE @]
  <2>1. request'[l][t].status = "none" /\ Elsewhere(l, t)
    BY <1>1, <1>4 DEF Elsewhere, NoRequest
  <2>2. /\ (state'[t] # "ABORTED" => state[t] # "ABORTED") /\ \A u \in Txns \ {t} : state'[u] = state[u]
        /\ (state'[t] = "DEFAULT" => state[t] = "DEFAULT") /\ state'[t] # "GROWING"
    BY <1>1, <1>4
  <2> QED
    BY <1>3, <1>4, <2>1, <2>2
<1>5. CASE ~Held(l, t) /\ UNCHANGED request /\ state' = [state EXCEPT ![t] = "ABORTED"]
  BY <1>1, <1>3, <1>5 DEF Elsewhere
<1> QED
  BY <1>4, <1>5 DEF Unlocked

LEMMA AddedFacts ==
  ASSUME TypeOK, NEW t \in Txns, NEW l \in Locks, NEW m \in Modes, add_lock_set(t, m, l)
  PROVE  /\ \A u \in Txns \ {t} : lock_set'[u] = lock_set[u]
         /\ \A n \in Modes \ {m} : lock_set'[t][n] = lock_set[t][n]
         /\ lock_set'[t][m] = lock_set[t][m] \cup {l}
<1>1. lock_set \in [Txns -> [Modes -> SUBSET Locks]]
  BY DEF TypeOK
<1> QED
  BY <1>1 DEF add_lock_set

LEMMA QuietFacts ==
  ASSUME TypeOK, NEW t \in Txns, Quiet(t)
  PROVE  /\ request' = request /\ lock_set' = lock_set
         /\ \A u \in Txns \ {t} : state'[u] = state[u]
         /\ state'[t] # "ABORTED" => state[t] # "ABORTED"
         /\ state'[t] = "DEFAULT" => state[t] = "DEFAULT"
         /\ state'[t] = state[t] \/ state'[t] = "ABORTED" \/ (state[t] \in {"DEFAULT", "GROWING"} /\ state'[t] = "GROWING")
<1>1. state \in [Txns -> TransactionState]
  BY DEF TypeOK
<1> QED
  BY <1>1 DEF Quiet

\* Upgrades are transitive, and a mode is compatible with more than the ones
\* it is upgraded to.
LEMMA UpgradesStrengthen ==
  ASSUME NEW a \in Modes, NEW b \in Modes, NEW c \in Modes
  PROVE  /\ isUpdateCompatible(a, b) /\ isUpdateCompatible(b, c) => isUpdateCompatible(a, c)
         /\ isUpdateCompatible(a, b) /\ isLockCompatible(c, b) => isLockCompatible(c, a)
<1>1. isUpdateCompatible(a, b) /\ isUpdateCompatible(b, c) => isUpdateCompatible(a, c)
  BY DEF isUpdateCompatible, UpgradesOf, Modes, IS, IX, S, SIX, X
<1>2. isUpdateCompatible(a, b) /\ isLockCompatible(c, b) => isLockCompatible(c, a)
  BY DEF isUpdateCompatible, UpgradesOf, isLockCompatible, CompatibleWith, Modes, IS, IX, S, SIX, X
<1> QED
  BY <1>1, <1>2

LEMMA AwakeThreads ==
  ASSUME TypeOK, Awake, NoWait, NEW th \in Threads, Step(th)
  PROVE  \A u \in Threads : pc'[u] \notin {"waiting", "orphan"}
<1>0. pc \in [Threads -> {"idle", "latch", "waiting", "orphan", "releasing", "ended"}]
  BY DEF TypeOK
<1>1. ASSUME NEW p \in {"idle", "latch", "releasing", "ended"}, pc' = [pc EXCEPT ![th] = p] \/ pc' = pc
      PROVE  \A u \in Threads : pc'[u] \notin {"waiting", "orphan"}
  BY <1>0, <1>1 DEF Awake
<1>2. CASE LockCall(th)
  BY <1>1, <1>2 DEF LockCall, LockTable, LockPartition, LockRow, LockEntry
<1>3. ASSUME NEW STATE wait, NEW STATE req, NEW STATE upg, EvaluateWait(th, wait, req, upg)
      PROVE  \A u \in Threads : pc'[u] \notin {"waiting", "orphan"}
  BY <1>1, <1>3 DEF EvaluateWait, Return
<1>4. CASE Acquire(th)
  BY <1>1, <1>3, <1>4
     DEF Acquire, AlreadyGranted, JoinPending, RefuseUpgrade, Upgrade, NewRequest, Return
<1>5. CASE Wake(th) \/ SpuriousWake(th) \/ OrphanReturn(th)
  BY <1>5 DEF Wake, SpuriousWake, OrphanReturn, Awake
<1>6. ASSUME NEW l, NEW next \in {"idle", "releasing"}, Unlock(th, l, next)
      PROVE  \A u \in Threads : pc'[u] \notin {"waiting", "orphan"}
  <2>1. Erased(TxnOf[th], l, th) = pc
    BY <1>0 DEF Erased, Sleepers, Awake
  <2> QED
    BY <1>1, <1>6, <2>1 DEF Unlock
<1>7. CASE UnlockCall(th)
  BY <1>6, <1>7 DEF UnlockCall, UnLockTable, UnLockPartition, UnLockRow
<1>8. CASE ReleaseLocks(th) \/ ReleaseEnd(th)
  BY <1>1, <1>8 DEF ReleaseLocks, ReleaseEnd
<1>9. CASE ReleaseNext(th)
  BY <1>6, <1>9 DEF ReleaseNext
<1> QED
  BY <1>2, <1>4, <1>5, <1>7, <1>8, <1>9 DEF Step

LEMMA AwakeStep ==
  ASSUME TypeOK, Awake, NoWait, [Next]_vars
  PROVE  Awake'
<1>1. CASE UNCHANGED vars
  BY <1>1 DEF vars, Awake
<1>2. ASSUME NEW th \in Threads, Step(th) PROVE Awake'
  <2> DEFINE t == TxnOf[th]
  <2>0. t \in Txns /\ Effect(th)
    BY <1>2, LockAssumption, StepEffect
  <2>1. \A u \in Threads : pc'[u] \notin {"waiting", "orphan"}
    BY <1>2, AwakeThreads
  <2> SUFFICES ASSUME NEW u \in Txns, NEW k \in Locks, state'[u] # "ABORTED", request'[k][u].status = "waiting"
               PROVE  FALSE
    BY <2>1 DEF Awake
  <2>2. request[k][u].status = "waiting" => state[u] = "ABORTED"
    BY DEF Awake
  <2>3. CASE Quiet(t)
    BY <2>0, <2>2, <2>3, QuietFacts
  <2>4. ASSUME NEW l \in Locks, NEW m \in Modes, Granted(t, l, m) PROVE FALSE
    <3>1. state' = state
      BY <2>4 DEF Granted
    <3> QED
      BY <2>0, <2>2, <2>4, <3>1, GrantedFacts DEF Elsewhere
  <2>5. ASSUME NEW l \in Locks, NEW m \in Modes, Repeated(t, l, m) PROVE FALSE
    BY <2>2, <2>5 DEF Repeated
  <2>6. ASSUME NEW l \in Locks, NEW m \in Modes, Failed(t, l, m) PROVE FALSE
    BY <2>0, <2>2, <2>6, FailedFacts DEF Elsewhere
  <2>7. ASSUME NEW l \in Locks, Unlocked(t, l) PROVE FALSE
    <3>1. state[u] # "ABORTED"
      BY <2>0, <2>7, UnlockedFacts
    <3>2. CASE k = l /\ u = t
      BY <2>0, <2>2, <2>7, <3>1, <3>2, UnlockedFacts
    <3>3. CASE ~(k = l /\ u = t)
      BY <2>0, <2>2, <2>7, <3>1, <3>3, UnlockedFacts DEF Elsewhere
    <3> QED
      BY <3>2, <3>3
  <2> QED
    BY <2>0, <2>3, <2>4, <2>5, <2>6, <2>7 DEF Effect
<1> QED
  BY <1>1, <1>2 DEF Next, Terminated

LEMMA BackedStep ==
  ASSUME LockInv, Awake, Backed, NoWait, [Next]_vars
  PROVE  Backed'
<1>0. TypeOK /\ ModesKnown(request)
  BY DEF LockInv, QueueOK
<1>1. CASE UNCHANGED vars
  BY <1>1 DEF vars, Backed, Held
<1>2. ASSUME NEW th \in Threads, Step(th) PROVE Backed'
  <2> DEFINE t == TxnOf[th]
  <2>0. t \in Txns /\ Effect(th)
    BY <1>0, <1>2, LockAssumption, StepEffect
  <2> SUFFICES ASSUME NEW u \in Txns, state'[u] # "ABORTED", NEW n \in Modes, NEW k \in lock_set'[u][n]
               PROVE  /\ request'[k][u].status = "granted"
                      /\ request'[k][u].mode = n \/ isUpdateCompatible(n, request'[k][u].mode)
    BY DEF Backed, Held
  <2>1. ASSUME state[u] # "ABORTED", k \in lock_set[u][n]
        PROVE  /\ k \in Locks /\ request[k][u].status = "granted" /\ request[k][u].mode \in Modes
               /\ request[k][u].mode = n \/ isUpdateCompatible(n, request[k][u].mode)
    BY <1>0, <2>1 DEF Backed, Held, TypeOK, ModesKnown
  <2>2. CASE Quiet(t)
    <3>1. request' = request /\ lock_set' = lock_set /\ state[u] # "ABORTED"
      BY <1>0, <2>0, <2>2, QuietFacts
    <3> QED
      BY <2>1, <3>1
  <2>3. ASSUME NEW l \in Locks, NEW m \in Modes, Granted(t, l, m)
        PROVE  /\ request'[k][u].status = "granted"
               /\ request'[k][u].mode = n \/ isUpdateCompatible(n, request'[k][u].mode)
    <3>1. state[u] # "ABORTED" /\ add_lock_set(t, m, l)
      BY <2>3 DEF Granted
    <3>2. request'[l][t].mode = m /\ request'[l][t].status = "granted" /\ Elsewhere(l, t)
      BY <1>0, <2>0, <2>3, GrantedFacts
    <3>3. k \in lock_set[u][n] \/ (k = l /\ u = t /\ n = m)
      BY <1>0, <2>0, <3>1, AddedFacts
    <3>4. CASE k = l /\ u = t /\ n = m
      BY <3>2, <3>4
    <3>5. CASE k \in lock_set[u][n] /\ k = l /\ u = t
      <4>1. /\ request[l][t].status = "granted" /\ request[l][t].mode \in Modes
            /\ request[l][t].mode = n \/ isUpdateCompatible(n, request[l][t].mode)
        BY <2>1, <3>1, <3>5
      <4>2. isUpdateCompatible(request[l][t].mode, m)
        BY <2>3, <4>1 DEF Granted
      <4>3. isUpdateCompatible(n, m)
        BY <4>1, <4>2, UpgradesStrengthen
      <4> QED
        BY <3>2, <3>5, <4>3
    <3>6. CASE k \in lock_set[u][n] /\ ~(k = l /\ u = t)
      BY <2>1, <3>1, <3>2, <3>6 DEF Elsewhere
    <3> QED
      BY <3>3, <3>4, <3>5, <3>6
  <2>4. ASSUME NEW l \in Locks, NEW m \in Modes, Repeated(t, l, m)
        PROVE  /\ request'[k][u].status = "granted"
               /\ request'[k][u].mode = n \/ isUpdateCompatible(n, request'[k][u].mode)
    <3>1. /\ state' = state /\ request' = request /\ add_lock_set(t, m, l)
          /\ request[l][t].status = "granted" /\ request[l][t].mode = m
      BY <2>4 DEF Repeated, Held
    <3>2. k \in lock_set[u][n] \/ (k = l /\ u = t /\ n = m)
      BY <1>0, <2>0, <3>1, AddedFacts
    <3> QED
      BY <2>1, <3>1, <3>2
  <2>5. ASSUME NEW l \in Locks, NEW m \in Modes, Failed(t, l, m)
        PROVE  /\ request'[k][u].status = "granted"
               /\ request'[k][u].mode = n \/ isUpdateCompatible(n, request'[k][u].mode)
    <3>1. lock_set' = lock_set /\ Elsewhere(l, t) /\ u # t /\ state[u] # "ABORTED"
      BY <1>0, <2>0, <2>5, FailedFacts DEF Failed
    <3> QED
      BY <2>1, <3>1 DEF Elsewhere
  <2>6. ASSUME NEW l \in Locks, Unlocked(t, l)
        PROVE  /\ request'[k][u].status = "granted"
               /\ request'[k][u].mode = n \/ isUpdateCompatible(n, request'[k][u].mode)
    <3>1. state[u] # "ABORTED" /\ Elsewhere(l, t) /\ k \in lock_set[u][n] /\ ~(k = l /\ u = t)
      BY <1>0, <2>0, <2>6, UnlockedFacts
    <3> QED
      BY <2>1, <3>1 DEF Elsewhere
  <2> QED
    BY <2>0, <2>2, <2>3, <2>4, <2>5, <2>6 DEF Effect
<1> QED
  BY <1>1, <1>2 DEF Next, Terminated

LEMMA InitInv == Init => LockInv /\ Awake /\ Backed
<1> SUFFICES ASSUME Init PROVE LockInv /\ Awake /\ Backed
  OBVIOUS
<1>1. LockInv
  BY InitQueue
<1>2. Awake /\ Backed
  BY DEF Init, Awake, Backed, NoRequest
<1> QED
  BY <1>1, <1>2

\* With No-Wait: nobody sleeps, and lock sets and queues agree.
THEOREM NoWaitInvAlways ==
  ASSUME NoWait PROVE Spec => [](LockInv /\ Awake /\ Backed)
<1>1. LockInv /\ Awake /\ Backed /\ [Next]_vars => (LockInv /\ Awake /\ Backed)'
  BY NextInv, AwakeStep, BackedStep DEF LockInv, Awake, NoOrphan
<1> QED
  BY <1>1, InitInv, PTL DEF Spec

\* With No-Wait, whatever a transaction that is not aborted has in its lock
\* sets is granted to it in that mode or in one it was upgraded to, for any
\* number of threads that work for it.
THEOREM LockSetsAreBacked ==
  ASSUME NoWait PROVE Spec => []LockSetsBacked
<1>1. Backed => LockSetsBacked
  BY DEF Backed, LockSetsBacked
<1> QED
  BY <1>1, NoWaitInvAlways, PTL

\* With No-Wait, no transaction is granted a mode that conflicts with one a
\* growing transaction was granted before, over all upgrades of either.
THEOREM LocksStayProtected ==
  ASSUME NoWait PROVE Spec => []AcquiredStaysProtected
<1>1. LockInv /\ Backed => AcquiredStaysProtected
  <2> SUFFICES ASSUME LockInv, Backed, NEW t \in Txns, NEW u \in Txns, t # u, state[t] = "GROWING",
                      NEW m \in Modes, NEW l \in lock_set[t][m], Held(l, u)
               PROVE  isLockCompatible(request[l][u].mode, m)
    BY DEF AcquiredStaysProtected
  <2>1. l \in Locks
    BY DEF LockInv, TypeOK
  <2>2. Held(l, t) /\ (request[l][t].mode = m \/ isUpdateCompatible(m, request[l][t].mode))
    BY DEF Backed
  <2>3. isLockCompatible(request[l][u].mode, request[l][t].mode)
    BY <2>1, <2>2 DEF LockInv, QueueOK, Compatible, ConflictIn, Held
  <2>4. request[l][u].mode \in Modes /\ request[l][t].mode \in Modes
    BY <2>1, <2>2 DEF LockInv, QueueOK, ModesKnown, Held
  <2> QED
    BY <2>2, <2>3, <2>4, UpgradesStrengthen
<1> QED
  BY <1>1, NoWaitInvAlways, PTL

(***************************************************************************)
(* The lock manager is a two-phase lock table.                             *)
(***************************************************************************)

\* A transaction that has made no call holds nothing.
Fresh ==
  \A t \in Txns, l \in Locks : state[t] = "DEFAULT" => ~Held(l, t)

\* The transactions that may still take locks.
Growing == {t \in Txns : state[t] \in {"DEFAULT", "GROWING"}}

LEMMA CallGrowingStep ==
  ASSUME OneThreadPerTxn, TypeOK, CallGrowing, [Next]_vars
  PROVE  CallGrowing'
<1>1. ASSUME NEW th \in Threads, Step(th) PROVE CallGrowing'
  BY <1>1, OtherTxn, OwnCallGrowing DEF CallGrowing
<1>2. CASE UNCHANGED vars
  BY <1>2 DEF vars, CallGrowing
<1> QED
  BY <1>1, <1>2 DEF Next, Terminated

LEMMA GrantedGrowing ==
  ASSUME CallGrowing, NEW th \in Threads, NEW l, NEW m, Called(th, l, m), Granted(TxnOf[th], l, m)
  PROVE  state[TxnOf[th]] = "GROWING"
BY DEF CallGrowing, Called, Granted

LEMMA FreshStep ==
  ASSUME TypeOK, Awake, CallGrowing, Fresh, NoWait, [Next]_vars
  PROVE  Fresh'
<1>1. CASE UNCHANGED vars
  BY <1>1 DEF vars, Fresh, Held
<1>2. ASSUME NEW th \in Threads, Step(th) PROVE Fresh'
  <2> DEFINE t == TxnOf[th]
  <2>0. t \in Txns /\ Effect(th)
    BY <1>2, LockAssumption, StepEffect
  <2> SUFFICES ASSUME NEW u \in Txns, NEW k \in Locks, state'[u] = "DEFAULT", request'[k][u].status = "granted"
               PROVE  FALSE
    BY DEF Fresh, Held
  <2>1. state[u] = "DEFAULT" => request[k][u].status # "granted"
    BY DEF Fresh, Held
  <2>2. CASE Quiet(t)
    BY <2>0, <2>1, <2>2, QuietFacts
  <2>3. ASSUME NEW l \in Locks, NEW m \in Modes, Called(th, l, m), Granted(t, l, m) PROVE FALSE
    <3>1. state' = state /\ state[t] = "GROWING"
      BY <2>3, GrantedGrowing DEF Granted
    <3> QED
      BY <2>0, <2>1, <2>3, <3>1, GrantedFacts DEF Elsewhere
  <2>4. ASSUME NEW l \in Locks, NEW m \in Modes, Repeated(t, l, m) PROVE FALSE
    BY <2>1, <2>4 DEF Repeated
  <2>5. ASSUME NEW l \in Locks, NEW m \in Modes, Failed(t, l, m) PROVE FALSE
    BY <2>0, <2>1, <2>5, FailedFacts DEF Elsewhere
  <2>6. ASSUME NEW l \in Locks, Unlocked(t, l) PROVE FALSE
    <3>1. state[u] = "DEFAULT"
      BY <2>0, <2>6, UnlockedFacts
    <3>2. CASE k = l /\ u = t
      BY <2>0, <2>1, <2>6, <3>1, <3>2, UnlockedFacts
    <3>3. CASE ~(k = l /\ u = t)
      BY <2>0, <2>1, <2>6, <3>1, <3>3, UnlockedFacts DEF Elsewhere
    <3> QED
      BY <3>2, <3>3
  <2> QED
    BY <2>0, <2>2, <2>3, <2>4, <2>5, <2>6 DEF Effect
<1> QED
  BY <1>1, <1>2 DEF Next, Terminated

\* What is held changes where the queues do.
LEMMA HeldModeSame ==
  ASSUME request' = request
  PROVE  HeldMode' = HeldMode
BY DEF HeldMode, Held

LEMMA HeldModeChange ==
  ASSUME NEW l \in Locks, NEW t \in Txns, Elsewhere(l, t), NEW m,
         m = IF request'[l][t].status = "granted" THEN request'[l][t].mode ELSE NoMode
  PROVE  HeldMode' = [HeldMode EXCEPT ![l][t] = m]
<1> DEFINE Mode(k, u) == IF request[k][u].status = "granted" THEN request[k][u].mode ELSE NoMode
           row == [HeldMode[l] EXCEPT ![t] = m]
<1>1. HeldMode = [k \in Locks |-> [u \in Txns |-> Mode(k, u)]]
  BY DEF HeldMode, Held
<1>2. HeldMode' = [k \in Locks |-> [u \in Txns |-> Mode(k, u)']]
  BY DEF HeldMode, Held
<1>3. \A k \in Locks, u \in Txns : Mode(k, u)' = IF k = l /\ u = t THEN m ELSE Mode(k, u)
  BY DEF Elsewhere
<1> HIDE DEF Mode
<1>4. HeldMode'[l] = row
  <2>1. HeldMode[l] = [u \in Txns |-> Mode(l, u)] /\ HeldMode'[l] = [u \in Txns |-> Mode(l, u)']
    BY <1>1, <1>2
  <2>2. row = [u \in Txns |-> IF u = t THEN m ELSE Mode(l, u)]
    BY <2>1
  <2> HIDE DEF row
  <2>3. \A u \in Txns : Mode(l, u)' = IF u = t THEN m ELSE Mode(l, u)
    BY <1>3
  <2> QED
    BY <2>1, <2>2, <2>3
<1>5. \A k \in Locks \ {l} : HeldMode'[k] = HeldMode[k]
  <2> SUFFICES ASSUME NEW k \in Locks \ {l} PROVE HeldMode'[k] = HeldMode[k]
    OBVIOUS
  <2>1. \A u \in Txns : Mode(k, u)' = Mode(k, u)
    BY <1>3
  <2> QED
    BY <1>1, <1>2, <2>1
<1>6. DOMAIN HeldMode = Locks /\ DOMAIN HeldMode' = Locks
  BY <1>1, <1>2
<1>7. HeldMode' = [k \in Locks |-> HeldMode'[k]] /\ HeldMode = [k \in Locks |-> HeldMode[k]]
  BY <1>1, <1>2
<1> HIDE DEF row
<1>8. HeldMode' = [HeldMode EXCEPT ![l] = row]
  BY <1>4, <1>5, <1>6, <1>7
<1> QED
  BY <1>8 DEF row

LEMMA InitRefines == Init => Abstract!AbsInit
BY DEF Init, Abstract!AbsInit, HeldMode, Held, NoRequest, NoMode

\* The growing transactions after a step that changes the state of t only.
LEMMA GrowingChange ==
  ASSUME NEW t \in Txns, \A u \in Txns \ {t} : state'[u] = state[u]
  PROVE  /\ state'[t] \notin {"DEFAULT", "GROWING"} => Growing' = Growing \ {t}
         /\ state'[t] \in {"DEFAULT", "GROWING"} /\ state[t] \in {"DEFAULT", "GROWING"} => Growing' = Growing
         /\ state'[t] = state[t] => Growing' = Growing
BY DEF Growing

\* Every step of the lock manager is one of the abstract lock table, or none.
LEMMA StepRefines ==
  ASSUME LockInv, Awake, CallGrowing, Fresh, NoWait, [Next]_vars
  PROVE  [Abstract!AbsNext]_Abstract!absvars
<1>0. TypeOK
  BY DEF LockInv
<1>1. ASSUME UNCHANGED <<HeldMode, Growing>> PROVE [Abstract!AbsNext]_Abstract!absvars
  BY <1>1 DEF Abstract!absvars, Growing
<1>2. ASSUME NEW t \in Txns, UNCHANGED HeldMode, Growing' = Growing \ {t} PROVE Abstract!AbsNext
  BY <1>2 DEF Abstract!AbsNext, Abstract!Stop, Growing
<1>3. ASSUME NEW t \in Txns, NEW l \in Locks, HeldMode' = [HeldMode EXCEPT ![l][t] = NoMode],
             Growing' = Growing \ {t}
      PROVE  Abstract!AbsNext
  BY <1>3 DEF Abstract!AbsNext, Abstract!Drop, Growing
<1>4. ASSUME NEW t \in Txns, NEW l \in Locks, NEW m \in Modes, t \in Growing, UNCHANGED Growing,
             HeldMode' = [HeldMode EXCEPT ![l][t] = m],
             \A u \in Txns \ {t} : <<HeldMode[l][u], m>> \notin ModeConflict
      PROVE  Abstract!AbsNext
  BY <1>4 DEF Abstract!AbsNext, Abstract!Take, Growing
<1>5. CASE UNCHANGED vars
  <2>1. UNCHANGED <<HeldMode, Growing>>
    BY <1>5 DEF vars, HeldMode, Held, Growing
  <2> QED
    BY <1>1, <2>1
<1>6. ASSUME NEW th \in Threads, Step(th) PROVE [Abstract!AbsNext]_Abstract!absvars
  <2> DEFINE t == TxnOf[th]
  <2>0. t \in Txns /\ Effect(th)
    BY <1>0, <1>6, LockAssumption, StepEffect
  <2>1. CASE Quiet(t)
    <3>1. UNCHANGED HeldMode
      BY <1>0, <2>0, <2>1, QuietFacts, HeldModeSame
    <3>2. Growing' = Growing \/ Growing' = Growing \ {t}
      BY <1>0, <2>0, <2>1, QuietFacts, GrowingChange
    <3> QED
      BY <1>1, <1>2, <2>0, <3>1, <3>2
  <2>2. ASSUME NEW l \in Locks, NEW m \in Modes, Called(th, l, m), Granted(t, l, m)
        PROVE  [Abstract!AbsNext]_Abstract!absvars
    <3>1. state' = state /\ state[t] = "GROWING"
      BY <2>2, GrantedGrowing DEF Granted
    <3>2. t \in Growing /\ UNCHANGED Growing
      BY <2>0, <3>1 DEF Growing
    <3>3. HeldMode' = [HeldMode EXCEPT ![l][t] = m]
      BY <1>0, <2>0, <2>2, GrantedFacts, HeldModeChange
    <3>4. \A u \in Txns \ {t} : <<HeldMode[l][u], m>> \notin ModeConflict
      <4> SUFFICES ASSUME NEW u \in Txns \ {t} PROVE <<HeldMode[l][u], m>> \notin ModeConflict
        OBVIOUS
      <4>1. HeldMode[l][u] = IF Held(l, u) THEN request[l][u].mode ELSE NoMode
        BY DEF HeldMode
      <4>2. Held(l, u) => isLockCompatible(request[l][u].mode, m)
        BY <2>2 DEF Granted
      <4>3. NoMode \notin Modes
        BY DEF NoMode, Modes, IS, IX, S, SIX, X
      <4> QED
        BY <4>1, <4>2, <4>3 DEF ModeConflict
    <3> QED
      BY <1>4, <2>0, <3>2, <3>3, <3>4
  <2>3. ASSUME NEW l \in Locks, NEW m \in Modes, Repeated(t, l, m)
        PROVE  [Abstract!AbsNext]_Abstract!absvars
    <3>1. UNCHANGED <<HeldMode, Growing>>
      BY <2>3, HeldModeSame DEF Repeated, Growing
    <3> QED
      BY <1>1, <3>1
  <2>4. ASSUME NEW l \in Locks, NEW m \in Modes, Failed(t, l, m)
        PROVE  [Abstract!AbsNext]_Abstract!absvars
    <3>1. HeldMode' = [HeldMode EXCEPT ![l][t] = NoMode]
      BY <1>0, <2>0, <2>4, FailedFacts, HeldModeChange
    <3>2. Growing' = Growing \ {t}
      BY <1>0, <2>0, <2>4, FailedFacts, GrowingChange
    <3> QED
      BY <1>3, <2>0, <3>1, <3>2
  <2>5. ASSUME NEW l \in Locks, Unlocked(t, l)
        PROVE  [Abstract!AbsNext]_Abstract!absvars
    <3>1. CASE Held(l, t)
      <4>1. HeldMode' = [HeldMode EXCEPT ![l][t] = NoMode]
        BY <1>0, <2>0, <2>5, <3>1, UnlockedFacts, HeldModeChange
      <4>2. state'[t] \notin {"DEFAULT", "GROWING"}
        BY <1>0, <2>0, <2>5, <3>1, UnlockedFacts DEF Fresh
      <4>3. Growing' = Growing \ {t}
        BY <1>0, <2>0, <2>5, <4>2, UnlockedFacts, GrowingChange
      <4> QED
        BY <1>3, <2>0, <4>1, <4>3
    <3>2. CASE ~Held(l, t)
      <4>1. UNCHANGED HeldMode
        BY <1>0, <2>0, <2>5, <3>2, UnlockedFacts, HeldModeSame
      <4>2. Growing' = Growing \ {t}
        BY <1>0, <2>0, <2>5, <3>2, UnlockedFacts, GrowingChange
      <4> QED
        BY <1>2, <2>0, <4>1, <4>2
    <3> QED
      BY <3>1, <3>2
  <2> QED
    BY <2>0, <2>1, <2>2, <2>3, <2>4, <2>5 DEF Effect
<1> QED
  BY <1>5, <1>6 DEF Next, Terminated

\* With No-Wait and one thread per transaction the lock manager implements
\* two-phase locking: every step of a call takes, strengthens or drops one lock
\* as AbstractLocks allows, ends the growing phase, or changes neither.
THEOREM LockManagerIsTwoPhase ==
  ASSUME NoWait, OneThreadPerTxn PROVE Spec => TwoPhaseLocking
<1>1. Init => CallGrowing /\ Fresh
  BY DEF Init, CallGrowing, Fresh, Held, NoRequest
<1>2. TypeOK /\ Awake /\ CallGrowing /\ Fresh /\ [Next]_vars => (CallGrowing /\ Fresh)'
  BY CallGrowingStep, FreshStep
<1>3. LockInv /\ Awake /\ CallGrowing /\ Fresh /\ [Next]_vars => [Abstract!AbsNext]_Abstract!absvars
  BY StepRefines
<1>4. LockInv => TypeOK
  BY DEF LockInv
<1> QED
  BY <1>1, <1>2, <1>3, <1>4, InitRefines, NoWaitInvAlways, PTL DEF Spec, TwoPhaseLocking, Abstract!AbsSpec

(***************************************************************************)
(* ReleaseLocks finds every lock.                                          *)
(***************************************************************************)

\* A granted request is in the lock set of its mode, and rows are locked in row
\* modes only.
Recorded ==
  \A t \in Txns, l \in Locks : Held(l, t) =>
    l \in lock_set[t][request[l][t].mode] /\ (l \in Rows => request[l][t].mode \in RowModes)
RowCalls ==
  \A th \in Threads : pc[th] = "latch" /\ call[th].lock \in Rows => call[th].mode \in RowModes

\* ReleaseLocks has emptied the sets before the one it is at, and all of them
\* when it has ended.
Emptied ==
  \A th \in Threads :
    /\ pc[th] \in {"idle", "latch"} => release_at[th] = 1
    /\ pc[th] \in {"releasing", "ended"} => \A i \in DOMAIN ReleaseOrder :
         i < release_at[th] \/ pc[th] = "ended" => SetAt(TxnOf[th], i) = {}

LEMMA OrderEntries ==
  /\ ReleaseOrder[1] = <<Rows, S>> /\ ReleaseOrder[2] = <<Rows, X>>
  /\ ReleaseOrder[3] = <<Partitions, S>> /\ ReleaseOrder[4] = <<Partitions, IS>>
  /\ ReleaseOrder[5] = <<Partitions, IX>> /\ ReleaseOrder[6] = <<Partitions, SIX>>
  /\ ReleaseOrder[7] = <<Partitions, X>>
  /\ ReleaseOrder[8] = <<Tables, S>> /\ ReleaseOrder[9] = <<Tables, IS>> /\ ReleaseOrder[10] = <<Tables, IX>>
  /\ ReleaseOrder[11] = <<Tables, SIX>> /\ ReleaseOrder[12] = <<Tables, X>>
  /\ DOMAIN ReleaseOrder = 1..12
BY DEF ReleaseOrder

\* Every mode of every kind of lock has its place in the order of release.
LEMMA OrderComplete ==
  ASSUME NEW l \in Locks, NEW m \in Modes, l \in Rows => m \in RowModes
  PROVE  \E i \in DOMAIN ReleaseOrder : l \in ReleaseOrder[i][1] /\ m = ReleaseOrder[i][2]
<1>0. \A i \in 1..12 : i \in DOMAIN ReleaseOrder
  BY OrderEntries
<1>1. CASE l \in Rows
  <2>1. m = S \/ m = X
    BY <1>1 DEF RowModes
  <2>2. CASE m = S
    BY <1>0, <1>1, <2>2, OrderEntries
  <2>3. CASE m = X
    BY <1>0, <1>1, <2>3, OrderEntries
  <2> QED
    BY <2>1, <2>2, <2>3
<1>2. CASE l \in Partitions
  BY <1>0, <1>2, OrderEntries DEF Modes
<1>3. CASE l \in Tables
  BY <1>0, <1>3, OrderEntries DEF Modes
<1> QED
  BY <1>1, <1>2, <1>3 DEF Locks

LEMMA OrderModes ==
  \A i \in DOMAIN ReleaseOrder : ReleaseOrder[i][2] \in Modes
BY OrderEntries DEF Modes

LEMMA RowCallsStep ==
  ASSUME OneThreadPerTxn, TypeOK, RowCalls, [Next]_vars
  PROVE  RowCalls'
<1>1. CASE UNCHANGED vars
  BY <1>1 DEF vars, RowCalls
<1>2. ASSUME NEW th \in Threads, Step(th) PROVE RowCalls'
  <2>1. CASE LockCall(th)
    <3>1. PICK l \in Locks, m \in Modes, allowed \in {Modes, RowModes} :
            LockEntry(th, l, m, allowed) /\ (l \in Rows => allowed = RowModes)
      BY <2>1, LockAssumption DEF LockCall, LockTable, LockPartition, LockRow
    <3>2. CASE /\ m \in allowed /\ pc' = [pc EXCEPT ![th] = "latch"]
               /\ call' = [call EXCEPT ![th] = [lock |-> l, mode |-> m, wait |-> "new"]]
      BY <3>1, <3>2 DEF RowCalls, TypeOK
    <3>3. CASE UNCHANGED <<pc, call>>
      BY <3>3 DEF RowCalls
    <3> QED
      BY <3>1, <3>2, <3>3 DEF LockEntry
  <2>2. ASSUME pc'[th] # "latch", \A u \in Threads \ {th} : call'[u] = call[u]
        PROVE  RowCalls'
    <3>1. \A u \in Threads \ {th} : pc'[u] = pc[u]
      BY <1>2, OtherTxn
    <3> QED
      BY <2>2, <3>1 DEF RowCalls
  <2>3. ASSUME NEW STATE wait, NEW STATE req, NEW STATE upg, EvaluateWait(th, wait, req, upg)
        PROVE  RowCalls'
    <3>1. pc'[th] # "latch" /\ \A u \in Threads \ {th} : call'[u] = call[u]
      BY <2>3 DEF EvaluateWait, Return, TypeOK
    <3> QED
      BY <2>2, <3>1
  <2>4. ASSUME Return(th) PROVE RowCalls'
    <3>1. pc'[th] # "latch" /\ \A u \in Threads \ {th} : call'[u] = call[u]
      BY <2>4 DEF Return, TypeOK
    <3> QED
      BY <2>2, <3>1
  <2>5. CASE Acquire(th)
    BY <2>3, <2>4, <2>5 DEF Acquire, AlreadyGranted, JoinPending, RefuseUpgrade, Upgrade, NewRequest
  <2>6. CASE Wake(th) \/ SpuriousWake(th)
    BY <2>3, <2>6 DEF Wake, SpuriousWake
  <2>7. CASE OrphanReturn(th)
    BY <2>4, <2>7 DEF OrphanReturn
  <2>8. ASSUME NEW l, NEW next \in {"idle", "releasing"}, Unlock(th, l, next) PROVE RowCalls'
    <3>1. pc'[th] # "latch" /\ UNCHANGED call
      BY <2>8 DEF Unlock, Erased, TypeOK
    <3> QED
      BY <2>2, <3>1
  <2>9. CASE UnlockCall(th) \/ ReleaseNext(th)
    BY <2>8, <2>9 DEF UnlockCall, UnLockTable, UnLockPartition, UnLockRow, ReleaseNext
  <2>10. CASE ReleaseLocks(th) \/ ReleaseEnd(th)
    <3>1. pc'[th] # "latch" /\ UNCHANGED call
      BY <2>10 DEF ReleaseLocks, ReleaseEnd, TypeOK
    <3> QED
      BY <2>2, <3>1
  <2> QED
    BY <1>2, <2>1, <2>5, <2>6, <2>7, <2>9, <2>10 DEF Step
<1> QED
  BY <1>1, <1>2 DEF Next, Terminated

LEMMA RecordedStep ==
  ASSUME LockInv, Awake, RowCalls, Recorded, NoWait, [Next]_vars
  PROVE  Recorded'
<1>0. TypeOK /\ ModesKnown(request)
  BY DEF LockInv, QueueOK
<1>1. CASE UNCHANGED vars
  BY <1>1 DEF vars, Recorded, Held
<1>2. ASSUME NEW th \in Threads, Step(th) PROVE Recorded'
  <2> DEFINE t == TxnOf[th]
  <2>0. t \in Txns /\ Effect(th)
    BY <1>0, <1>2, LockAssumption, StepEffect
  <2> SUFFICES ASSUME NEW u \in Txns, NEW k \in Locks, request'[k][u].status = "granted"
               PROVE  /\ k \in lock_set'[u][request'[k][u].mode]
                      /\ k \in Rows => request'[k][u].mode \in RowModes
    BY DEF Recorded, Held
  <2>1. request[k][u].status = "granted" =>
          /\ k \in lock_set[u][request[k][u].mode] /\ request[k][u].mode \in Modes
          /\ k \in Rows => request[k][u].mode \in RowModes
    BY <1>0 DEF Recorded, Held, ModesKnown
  <2>2. CASE Quiet(t)
    BY <1>0, <2>0, <2>1, <2>2, QuietFacts
  <2>3. ASSUME NEW l \in Locks, NEW m \in Modes, Called(th, l, m), Granted(t, l, m)
        PROVE  k \in lock_set'[u][request'[k][u].mode] /\ (k \in Rows => request'[k][u].mode \in RowModes)
    <3>1. add_lock_set(t, m, l) /\ (l \in Rows => m \in RowModes)
      BY <2>3 DEF Granted, Called, RowCalls
    <3>2. request'[l][t].mode = m /\ Elsewhere(l, t)
      BY <1>0, <2>0, <2>3, GrantedFacts
    <3>3. CASE k = l /\ u = t
      BY <1>0, <2>0, <3>1, <3>2, <3>3, AddedFacts
    <3>4. CASE ~(k = l /\ u = t)
      <4>1. request'[k][u] = request[k][u] /\ \A n \in Modes : lock_set[u][n] \subseteq lock_set'[u][n]
        BY <1>0, <2>0, <3>1, <3>2, <3>4, AddedFacts DEF Elsewhere
      <4> QED
        BY <2>1, <4>1
    <3> QED
      BY <3>3, <3>4
  <2>4. ASSUME NEW l \in Locks, NEW m \in Modes, Repeated(t, l, m)
        PROVE  k \in lock_set'[u][request'[k][u].mode] /\ (k \in Rows => request'[k][u].mode \in RowModes)
    <3>1. request' = request /\ add_lock_set(t, m, l)
      BY <2>4 DEF Repeated
    <3>2. \A n \in Modes : lock_set[u][n] \subseteq lock_set'[u][n]
      BY <1>0, <2>0, <3>1, AddedFacts
    <3> QED
      BY <2>1, <3>1, <3>2
  <2>5. ASSUME NEW l \in Locks, NEW m \in Modes, Failed(t, l, m)
        PROVE  k \in lock_set'[u][request'[k][u].mode] /\ (k \in Rows => request'[k][u].mode \in RowModes)
    <3>1. lock_set' = lock_set /\ Elsewhere(l, t) /\ ~(k = l /\ u = t)
      BY <1>0, <2>0, <2>5, FailedFacts DEF Failed
    <3> QED
      BY <2>1, <3>1 DEF Elsewhere
  <2>6. ASSUME NEW l \in Locks, Unlocked(t, l)
        PROVE  k \in lock_set'[u][request'[k][u].mode] /\ (k \in Rows => request'[k][u].mode \in RowModes)
    <3>1. CASE k = l /\ u = t
      BY <1>0, <2>0, <2>6, <3>1, UnlockedFacts DEF Held
    <3>2. CASE ~(k = l /\ u = t)
      <4>1. request'[k][u] = request[k][u]
        BY <1>0, <2>0, <2>6, <3>2, UnlockedFacts DEF Elsewhere
      <4>2. \A n \in Modes : k \in lock_set[u][n] => k \in lock_set'[u][n]
        BY <1>0, <2>0, <2>6, <3>2, UnlockedFacts
      <4> QED
        BY <2>1, <4>1, <4>2
    <3> QED
      BY <3>1, <3>2
  <2> QED
    BY <2>0, <2>2, <2>3, <2>4, <2>5, <2>6 DEF Effect
<1> QED
  BY <1>1, <1>2 DEF Next, Terminated

LEMMA OtherSets ==
  ASSUME TypeOK, Awake, NoWait, NEW th \in Threads, Step(th), NEW u \in Txns \ {TxnOf[th]}
  PROVE  lock_set'[u] = lock_set[u]
<1>0. TxnOf[th] \in Txns /\ Effect(th)
  BY LockAssumption, StepEffect
<1>1. CASE Quiet(TxnOf[th])
  BY <1>0, <1>1, QuietFacts
<1>2. ASSUME NEW l \in Locks, NEW m \in Modes, add_lock_set(TxnOf[th], m, l) \/ UNCHANGED lock_set
      PROVE  lock_set'[u] = lock_set[u]
  BY <1>0, <1>2, AddedFacts
<1>3. ASSUME NEW l \in Locks, Unlocked(TxnOf[th], l)
      PROVE  lock_set'[u] = lock_set[u]
  BY <1>0, <1>3, UnlockedFacts
<1> QED
  BY <1>0, <1>1, <1>2, <1>3 DEF Effect, Granted, Repeated, Failed

\* The thread that takes a step.
LEMMA OwnEmptied ==
  ASSUME TypeOK, Awake, Emptied, NoWait, NEW th \in Threads, Step(th)
  PROVE  /\ pc'[th] \in {"idle", "latch"} => release_at'[th] = 1
         /\ pc'[th] \in {"releasing", "ended"} => \A i \in DOMAIN ReleaseOrder :
              i < release_at'[th] \/ pc'[th] = "ended" => SetAt(TxnOf[th], i)' = {}
<1>0. /\ TxnOf[th] \in Txns
      /\ pc \in [Threads -> {"idle", "latch", "waiting", "orphan", "releasing", "ended"}]
      /\ DOMAIN ReleaseOrder = 1..12 /\ release_at \in [Threads -> 1..12]
  BY LockAssumption, OrderEntries, ReleaseOrderLen DEF TypeOK
<1>1. ASSUME pc[th] \in {"idle", "latch"}, UNCHANGED release_at, pc'[th] \in {"idle", "latch"}
      PROVE  /\ pc'[th] \in {"idle", "latch"} => release_at'[th] = 1
             /\ pc'[th] \in {"releasing", "ended"} => \A i \in DOMAIN ReleaseOrder :
                  i < release_at'[th] \/ pc'[th] = "ended" => SetAt(TxnOf[th], i)' = {}
  BY <1>1 DEF Emptied
<1>2. CASE LockCall(th)
  <2>1. pc[th] = "idle" /\ UNCHANGED release_at /\ pc'[th] \in {"idle", "latch"}
    BY <1>0, <1>2 DEF LockCall, LockTable, LockPartition, LockRow, LockEntry
  <2> QED
    BY <1>1, <2>1
<1>3. CASE Acquire(th)
  <2>1. ASSUME NEW STATE wait, NEW STATE req, NEW STATE upg, EvaluateWait(th, wait, req, upg)
        PROVE  Return(th)
    BY <2>1 DEF EvaluateWait
  <2>2. Return(th)
    BY <1>3, <2>1 DEF Acquire, AlreadyGranted, JoinPending, RefuseUpgrade, Upgrade, NewRequest
  <2>3. pc[th] = "latch" /\ UNCHANGED release_at /\ pc'[th] = "idle"
    BY <1>0, <1>3, <2>2 DEF Acquire, Return
  <2> QED
    BY <1>1, <2>3
<1>4. CASE Wake(th) \/ SpuriousWake(th) \/ OrphanReturn(th)
  BY <1>4 DEF Wake, SpuriousWake, OrphanReturn, Awake
<1>5. ASSUME NEW l, NEW next \in {"idle", "releasing"}, Unlock(th, l, next)
      PROVE  pc'[th] = next
  BY <1>0, <1>5 DEF Unlock, Erased
<1>6. CASE UnlockCall(th)
  <2>1. pc[th] = "idle" /\ UNCHANGED release_at /\ pc'[th] = "idle"
    BY <1>5, <1>6 DEF UnlockCall, UnLockTable, UnLockPartition, UnLockRow
  <2> QED
    BY <1>1, <2>1
<1>7. CASE ReleaseLocks(th)
  <2>1. release_at'[th] = 1 /\ pc'[th] = "releasing"
    BY <1>0, <1>7 DEF ReleaseLocks, Emptied
  <2> QED
    BY <1>0, <2>1
<1>8. CASE ReleaseEnd(th)
  <2>1. /\ pc[th] = "releasing" /\ Remaining(th) = {} /\ pc'[th] = "ended"
        /\ UNCHANGED <<lock_set, release_at>>
    BY <1>0, <1>8 DEF ReleaseEnd
  <2>2. \A i \in DOMAIN ReleaseOrder : SetAt(TxnOf[th], i) = {}
    <3> SUFFICES ASSUME NEW i \in DOMAIN ReleaseOrder PROVE SetAt(TxnOf[th], i) = {}
      OBVIOUS
    <3>1. CASE i < release_at[th]
      BY <2>1, <3>1 DEF Emptied
    <3>2. CASE i >= release_at[th]
      BY <2>1, <3>2 DEF Remaining
    <3> QED
      BY <1>0, <3>1, <3>2
  <2> QED
    BY <2>1, <2>2 DEF SetAt
<1>9. CASE ReleaseNext(th)
  <2>1. PICK i \in Remaining(th) : /\ \A j \in Remaining(th) : i <= j
                                   /\ release_at' = [release_at EXCEPT ![th] = i]
                                   /\ \E l \in SetAt(TxnOf[th], i) : Unlock(th, l, "releasing")
    BY <1>9 DEF ReleaseNext
  <2>2. PICK l \in SetAt(TxnOf[th], i) : Unlock(th, l, "releasing")
    BY <2>1
  <2>3. pc[th] = "releasing" /\ pc'[th] = "releasing" /\ release_at'[th] = i /\ i \in 1..12
    BY <1>0, <1>5, <1>9, <2>1, <2>2 DEF ReleaseNext, Remaining
  <2>4. \A n \in Modes : lock_set'[TxnOf[th]][n] \subseteq lock_set[TxnOf[th]][n]
    <3>1. lock_set' = [lock_set EXCEPT ![TxnOf[th]] = [n \in Modes |-> @[n] \ {l}]]
      BY <2>2 DEF Unlock
    <3>2. lock_set \in [Txns -> [Modes -> SUBSET Locks]]
      BY DEF TypeOK
    <3> QED
      BY <1>0, <3>1, <3>2
  <2>5. ASSUME NEW j \in DOMAIN ReleaseOrder, j < i PROVE SetAt(TxnOf[th], j) = {}
    <3>1. j \notin Remaining(th)
      BY <1>0, <2>1, <2>3, <2>5
    <3>2. CASE j < release_at[th]
      BY <2>3, <3>2 DEF Emptied
    <3>3. CASE j >= release_at[th]
      BY <3>1, <3>3 DEF Remaining
    <3> QED
      BY <1>0, <3>2, <3>3
  <2>6. ASSUME NEW j \in DOMAIN ReleaseOrder, j < i PROVE SetAt(TxnOf[th], j)' = {}
    BY <2>4, <2>5, <2>6, OrderModes DEF SetAt
  <2> QED
    BY <2>3, <2>6
<1> QED
  BY <1>2, <1>3, <1>4, <1>6, <1>7, <1>8, <1>9 DEF Step

LEMMA EmptiedStep ==
  ASSUME OneThreadPerTxn, TypeOK, Awake, Emptied, NoWait, [Next]_vars
  PROVE  Emptied'
<1>1. CASE UNCHANGED vars
  BY <1>1 DEF vars, Emptied, SetAt
<1>2. ASSUME NEW th \in Threads, Step(th) PROVE Emptied'
  <2> SUFFICES ASSUME NEW u \in Threads
               PROVE  /\ pc'[u] \in {"idle", "latch"} => release_at'[u] = 1
                      /\ pc'[u] \in {"releasing", "ended"} => \A i \in DOMAIN ReleaseOrder :
                           i < release_at'[u] \/ pc'[u] = "ended" => SetAt(TxnOf[u], i)' = {}
    BY DEF Emptied
  <2>1. CASE u = th
    BY <1>2, <2>1, OwnEmptied
  <2>2. CASE u # th
    <3>1. TxnOf[u] \in Txns \ {TxnOf[th]}
      BY <2>2, LockAssumption DEF OneThreadPerTxn
    <3>2. pc'[u] = pc[u] /\ lock_set'[TxnOf[u]] = lock_set[TxnOf[u]]
      BY <1>2, <2>2, <3>1, OtherTxn, OtherSets
    <3>3. release_at'[u] = release_at[u]
      BY <1>2, <2>2 DEF Step, LockCall, LockTable, LockPartition, LockRow, LockEntry, Acquire, Wake, SpuriousWake,
         UnlockCall, UnLockTable, UnLockPartition, UnLockRow, OrphanReturn, ReleaseLocks, ReleaseNext, ReleaseEnd, TypeOK
    <3>4. \A i \in DOMAIN ReleaseOrder : SetAt(TxnOf[u], i)' = SetAt(TxnOf[u], i)
      BY <3>2 DEF SetAt
    <3> QED
      BY <3>2, <3>3, <3>4 DEF Emptied
  <2> QED
    BY <2>1, <2>2
<1> QED
  BY <1>1, <1>2 DEF Next, Terminated

\* With No-Wait and one thread per transaction, ReleaseLocks leaves nothing
\* behind: every granted request is in the lock set of its mode, every such set
\* has its place in the order of release, and a transaction that has ended holds
\* no lock.
THEOREM GrantsAreRecorded ==
  ASSUME NoWait, OneThreadPerTxn PROVE Spec => []GrantsRecorded
<1> DEFINE Inv == RowCalls /\ Recorded /\ Emptied
<1>1. Init => Inv
  BY DEF Init, RowCalls, Recorded, Emptied, Held, NoRequest
<1>2. LockInv /\ Awake /\ Inv /\ [Next]_vars => Inv'
  BY RowCallsStep, RecordedStep, EmptiedStep DEF LockInv
<1>3. LockInv /\ Inv => GrantsRecorded
  <2> SUFFICES ASSUME LockInv, Inv, NEW t \in Txns, NEW l \in Locks, Held(l, t)
               PROVE  /\ l \in lock_set[t][request[l][t].mode]
                      /\ \A th \in Threads : TxnOf[th] = t => pc[th] # "ended"
    BY DEF GrantsRecorded
  <2> DEFINE m == request[l][t].mode
  <2>1. l \in lock_set[t][m] /\ m \in Modes /\ (l \in Rows => m \in RowModes)
    BY DEF Recorded, LockInv, QueueOK, ModesKnown, Held
  <2>2. PICK i \in DOMAIN ReleaseOrder : l \in ReleaseOrder[i][1] /\ m = ReleaseOrder[i][2]
    BY <2>1, OrderComplete
  <2>3. SetAt(t, i) # {}
    BY <2>1, <2>2 DEF SetAt
  <2> QED
    BY <2>1, <2>3 DEF Emptied
<1> QED
  BY <1>1, <1>2, <1>3, NoWaitInvAlways, PTL DEF Spec

(***************************************************************************)
(* The upgrade flag, without No-Wait.                                      *)
(***************************************************************************)

\* A call that waits is never aborted: its transaction has no other thread.
CallsGrow ==
  \A th \in Threads :
    pc[th] # "orphan" /\ (pc[th] \in {"latch", "waiting"} => state[TxnOf[th]] = "GROWING")

LEMMA CallsGrowStep ==
  ASSUME OneThreadPerTxn, ~NoWait, TypeOK, CallsGrow, [Next]_vars
  PROVE  CallsGrow'
<1>1. CASE UNCHANGED vars
  BY <1>1 DEF vars, CallsGrow
<1>2. ASSUME NEW th \in Threads, Step(th) PROVE CallsGrow'
  <2>0. /\ TxnOf[th] \in Txns /\ state \in [Txns -> TransactionState]
        /\ pc \in [Threads -> {"idle", "latch", "waiting", "orphan", "releasing", "ended"}]
    BY LockAssumption DEF TypeOK
  <2>1. \A u \in Threads \ {th} : state'[TxnOf[u]] = state[TxnOf[u]] /\ pc'[u] = pc[u]
    BY <1>2, OtherTxn
  <2>2. ASSUME pc'[th] # "orphan", pc'[th] \in {"latch", "waiting"} => state'[TxnOf[th]] = "GROWING"
        PROVE  CallsGrow'
    BY <2>1, <2>2 DEF CallsGrow
  <2>3. CASE LockCall(th)
    <3>1. pc[th] = "idle" /\ (pc' = pc \/ (pc' = [pc EXCEPT ![th] = "latch"] /\ state' = [state EXCEPT ![TxnOf[th]] = "GROWING"]))
      BY <2>3 DEF LockCall, LockTable, LockPartition, LockRow, LockEntry
    <3> QED
      BY <2>0, <2>2, <3>1
  <2>4. ASSUME NEW STATE wait, NEW STATE req, NEW STATE upg, EvaluateWait(th, wait, req, upg),
               pc[th] \in {"latch", "waiting"}
        PROVE  CallsGrow'
    <3>1. state[TxnOf[th]] = "GROWING"
      BY <2>4 DEF CallsGrow
    <3>2. UNCHANGED state /\ (pc' = [pc EXCEPT ![th] = "idle"] \/ pc' = [pc EXCEPT ![th] = "waiting"])
      BY <2>4, <3>1 DEF EvaluateWait, Return
    <3> QED
      BY <2>0, <2>2, <3>1, <3>2
  <2>5. ASSUME Return(th) PROVE CallsGrow'
    <3>1. pc'[th] = "idle"
      BY <2>0, <2>5 DEF Return
    <3> QED
      BY <2>2, <3>1
  <2>6. CASE Acquire(th)
    BY <2>4, <2>5, <2>6 DEF Acquire, AlreadyGranted, JoinPending, RefuseUpgrade, Upgrade, NewRequest
  <2>7. CASE Wake(th) \/ SpuriousWake(th)
    BY <2>4, <2>7 DEF Wake, SpuriousWake
  <2>8. CASE OrphanReturn(th)
    BY <2>5, <2>8 DEF OrphanReturn
  <2>9. ASSUME NEW l, NEW next \in {"idle", "releasing"}, Unlock(th, l, next) PROVE CallsGrow'
    <3>1. pc'[th] = next
      BY <2>0, <2>9 DEF Unlock, Erased
    <3> QED
      BY <2>2, <3>1
  <2>10. CASE UnlockCall(th) \/ ReleaseNext(th)
    BY <2>9, <2>10 DEF UnlockCall, UnLockTable, UnLockPartition, UnLockRow, ReleaseNext
  <2>11. CASE ReleaseLocks(th) \/ ReleaseEnd(th)
    <3>1. pc'[th] \in {"releasing", "ended"}
      BY <2>0, <2>11 DEF ReleaseLocks, ReleaseEnd
    <3> QED
      BY <2>2, <3>1
  <2> QED
    BY <1>2, <2>3, <2>6, <2>7, <2>8, <2>10, <2>11 DEF Step
<1> QED
  BY <1>1, <1>2 DEF Next, Terminated

\* A sleeper of another transaction sleeps on.
LEMMA SleeperStays ==
  ASSUME OneThreadPerTxn, TypeOK, NEW th \in Threads, Step(th), NEW u \in Threads \ {th}
  PROVE  pc'[u] = pc[u] /\ call'[u] = call[u]
<1>1. pc'[u] = pc[u]
  BY OtherTxn
<1>2. call'[u] = call[u]
  BY DEF Step, LockCall, LockTable, LockPartition, LockRow, LockEntry, Acquire, AlreadyGranted, JoinPending,
         RefuseUpgrade, Upgrade, NewRequest, EvaluateWait, Return, Wake, SpuriousWake, UnlockCall, UnLockTable,
         UnLockPartition, UnLockRow, Unlock, OrphanReturn, ReleaseLocks, ReleaseNext, ReleaseEnd, TypeOK
<1> QED
  BY <1>1, <1>2

LEMMA UpgradingStep ==
  ASSUME OneThreadPerTxn, ~NoWait, TypeOK, NoOrphan, CallsGrow, UpgradingMeansUpgrade,
         [Next]_vars
  PROVE  UpgradingMeansUpgrade'
<1>1. CASE UNCHANGED vars
  BY <1>1 DEF vars, UpgradingMeansUpgrade, Sleepers
<1>2. ASSUME NEW th \in Threads, Step(th) PROVE UpgradingMeansUpgrade'
  <2>0. upgrading \in [Locks -> BOOLEAN]
    BY DEF TypeOK
  <2>1. ASSUME NEW k \in Locks, NEW u \in Sleepers(k), u # th, call[u].wait = "upgrade"
        PROVE  u \in Sleepers(k)' /\ call'[u].wait = "upgrade"
    BY <1>2, <2>1, SleeperStays DEF Sleepers
  <2>2. ASSUME \A k \in Locks : upgrading'[k] =>
                 \/ upgrading[k] /\ th \notin Sleepers(k)
                 \/ th \in Sleepers(k)' /\ call'[th].wait = "upgrade"
                 \/ upgrading[k] /\ call[th].wait # "upgrade"
        PROVE  UpgradingMeansUpgrade'
    <3> SUFFICES ASSUME NEW k \in Locks, upgrading'[k]
                 PROVE  \E u \in Sleepers(k)' : call'[u].wait = "upgrade"
      BY DEF UpgradingMeansUpgrade
    <3>1. CASE th \in Sleepers(k)' /\ call'[th].wait = "upgrade"
      BY <3>1
    <3>2. CASE upgrading[k] /\ (th \notin Sleepers(k) \/ call[th].wait # "upgrade")
      <4>1. PICK u \in Sleepers(k) : call[u].wait = "upgrade"
        BY <3>2 DEF UpgradingMeansUpgrade
      <4>2. u # th
        BY <3>2, <4>1
      <4> QED
        BY <2>1, <4>1, <4>2
    <3> QED
      BY <2>2, <3>1, <3>2
  <2>3. CASE pc[th] # "waiting" /\ UNCHANGED upgrading
    BY <2>2, <2>3 DEF Sleepers
  <2> DEFINE l == call[th].lock
  <2>4. ASSUME NEW wait \in WaitKinds, NEW STATE req, NEW STATE upg, EvaluateWait(th, wait, req, upg),
               pc[th] \in {"latch", "waiting"}, pc[th] = "waiting" => wait = call[th].wait,
               \/ upg = upgrading
               \/ upg = [upgrading EXCEPT ![l] = TRUE] /\ wait = "upgrade" /\ pc[th] = "latch"
        PROVE  UpgradingMeansUpgrade'
    <3>0. l \in Locks /\ TxnOf[th] \in Txns /\ state[TxnOf[th]] = "GROWING" /\ call[th].wait \in WaitKinds
      BY <2>4, LockAssumption DEF TypeOK, CallsGrow
    <3>1. CASE upgrading' = [upg EXCEPT ![l] = IF wait = "upgrade" THEN FALSE ELSE @]
      <4>1. \A k \in Locks : upgrading'[k] => upgrading[k] /\ (k = l => wait # "upgrade")
        BY <2>0, <2>4, <3>0, <3>1
      <4>2. \A k \in Locks : th \in Sleepers(k) => k = l /\ pc[th] = "waiting"
        BY DEF Sleepers
      <4> QED
        BY <2>2, <2>4, <4>1, <4>2
    <3>2. CASE /\ upgrading' = upg /\ pc' = [pc EXCEPT ![th] = "waiting"]
               /\ call' = [call EXCEPT ![th].wait = wait]
      <4>1. pc'[th] = "waiting" /\ call'[th].wait = wait /\ call'[th].lock = l
        BY <3>2 DEF TypeOK
      <4>2. \A k \in Locks : upgrading'[k] => upgrading[k] \/ (k = l /\ wait = "upgrade")
        BY <2>0, <2>4, <3>0, <3>2
      <4>3. \A k \in Locks : k = l /\ wait = "upgrade" => th \in Sleepers(k)' /\ call'[th].wait = "upgrade"
        BY <4>1 DEF Sleepers
      <4>4. \A k \in Locks : th \in Sleepers(k) => k = l /\ pc[th] = "waiting"
        BY DEF Sleepers
      <4>5. \A k \in Locks : upgrading'[k] =>
                 \/ upgrading[k] /\ th \notin Sleepers(k)
                 \/ th \in Sleepers(k)' /\ call'[th].wait = "upgrade"
                 \/ upgrading[k] /\ call[th].wait # "upgrade"
        BY <2>4, <4>2, <4>3, <4>4
      <4> QED
        BY <2>2, <4>5
    <3> QED
      BY <2>4, <3>0, <3>1, <3>2 DEF EvaluateWait
  <2>5. CASE Acquire(th)
    <3>1. pc[th] = "latch"
      BY <2>5 DEF Acquire
    <3>2. CASE AlreadyGranted(th) \/ RefuseUpgrade(th)
      BY <2>3, <3>1, <3>2 DEF AlreadyGranted, RefuseUpgrade
    <3>3. CASE JoinPending(th)
      BY <2>4, <3>1, <3>3 DEF JoinPending, WaitKinds
    <3>4. CASE Upgrade(th)
      BY <2>4, <3>1, <3>4 DEF Upgrade, WaitKinds
    <3>5. CASE NewRequest(th)
      BY <2>4, <3>1, <3>5 DEF NewRequest, WaitKinds
    <3> QED
      BY <2>5, <3>2, <3>3, <3>4, <3>5 DEF Acquire
  <2>6. CASE Wake(th) \/ SpuriousWake(th)
    <3>1. call[th].wait \in WaitKinds /\ pc[th] = "waiting"
      BY <2>6 DEF Wake, SpuriousWake, TypeOK
    <3> QED
      BY <2>4, <2>6, <3>1 DEF Wake, SpuriousWake
  <2>7. CASE \/ LockCall(th) \/ UnlockCall(th) \/ OrphanReturn(th) \/ ReleaseLocks(th)
             \/ ReleaseNext(th) \/ ReleaseEnd(th)
    <3>1. pc[th] # "waiting" /\ UNCHANGED upgrading
      BY <2>7 DEF LockCall, LockTable, LockPartition, LockRow, LockEntry, UnlockCall, UnLockTable, UnLockPartition,
         UnLockRow, Unlock, OrphanReturn, NoOrphan, ReleaseLocks, ReleaseNext, ReleaseEnd
    <3> QED
      BY <2>3, <3>1
  <2> QED
    BY <1>2, <2>5, <2>6, <2>7 DEF Step
<1> QED
  BY <1>1, <1>2 DEF Next, Terminated

\* Without No-Wait and with one thread per transaction, upgrading_ is set only
\* while a call sleeps on an upgrade of that lock: the flag does not outlive the
\* upgrade and refuse later ones.
THEOREM UpgradingIsTrue ==
  ASSUME ~NoWait, OneThreadPerTxn PROVE Spec => []UpgradingMeansUpgrade
<1>1. Init => CallsGrow /\ UpgradingMeansUpgrade
  BY DEF Init, CallsGrow, UpgradingMeansUpgrade
<1>2. TypeOK /\ NoOrphan /\ CallsGrow /\ UpgradingMeansUpgrade /\ [Next]_vars =>
        (CallsGrow /\ UpgradingMeansUpgrade)'
  BY CallsGrowStep, UpgradingStep
<1> QED
  BY <1>1, <1>2, TypeCorrect, NoOrphanEver, PTL DEF Spec
=============================================================================
