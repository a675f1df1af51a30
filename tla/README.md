# TLA+ specifications of RucDDBMS

RucDDBMS is a teaching prototype of a Spanner-like distributed database: a
key-value store with a write-ahead log on every participant, two-phase locking, a
timestamp oracle and a catalogue in a meta server, and brpc between the nodes.
Some functions are exercises and have no body in the repository (Commit, Abort
and Prepare of the transaction manager and of its RPC service, the participant's
part of the coordinator fail-over); they are not specified here.

Paths below are relative to the repository; line numbers are in `PROJECT.json`,
whose `map` gives the lines every definition stands for.

## 1. Inventory

| Part | State | Operations | Who shares it | What is hard | What makes it correct |
|---|---|---|---|---|---|
| Lock manager (`src/transaction/Lock_manager.cpp`) | per resource a queue of requests, `upgrading_`, a condition variable | `LockTable/Partition/Row`, `UnLock…` | every worker thread; writes `state_` and the lock sets of the transaction | sleeping inside a call, upgrades in place, grants decided at wake-up | grants compatible, two phases, lock sets and queues agree, waits end |
| Transaction, lock sets (`include/transaction/Transaction.h`) | `state_`, twelve lock sets, write set, `prev_lsn_` | accessors | lock manager, transaction manager | several threads of one transaction | what it believes to hold is what it holds |
| Transaction manager (`src/transaction/transaction_manager.cpp`) | `txn_map`, `global_txn_latch_` | `Begin`, `ReleaseLocks`, `getTimestampFromServer`; the rest are exercises | lock manager, log, oracle | iterates sets that its own calls change; uses the answer of a failed RPC | nothing is left locked |
| Timestamp oracle (`meta_server/timestamp.h`) | `current_`, `lastTS`, the file `last_timestamp` | `syncTimestamp`, `updateTimestamp`, `getTimeStamp` | RPC threads and a background thread | drawing under the latch, checking after it; restarts; the clock | unique, increasing timestamps |
| Log manager, log storage (`src/recovery/log_manager.cpp`, `include/storage/LogStorage.h`) | two buffers, four sequence numbers, `needFlush_`, the file | `AppendLogRecord`, `Flush`, the flush thread, the destructor | all workers, the flush thread, recovery | buffer swap under a write, full buffer, failed writes, lost requests | one log without gaps; `persistent_lsn_` is true; nobody waits for good |
| Log records, recovery (`include/recovery/log_record.h`, `src/recovery/recovery_manager.cpp`) | `active_txn_`, `lsn_mapping_` | `Redo`, `Undo`, serialisation | KV store, log | torn records, a stop during recovery | committed effects are there, others are not |
| KV store (`src/storage/KVStore_beta.cpp`, `include/storage/KVStore_new.h`) | memtable, `mutex_` | `put`, `get`, `del`, `reset`, `flush`, destructors | worker threads | tables are searched without `mutex_` | a read returns the last write |
| Disk storage, level 0 (`src/storage/DiskStorage.cpp`, `LevelZero.cpp`) | `no_`, `ssts_`, the files `meta`, `index`, `*.sst` | `add`, `search`, reading at start | KV store | three writes for one table | a stop leaves a store that can be opened |
| SSTable format (`TableBuilder`, `BlockBuilder`, `Block`, `SSTable`) | block under construction, index, offsets | `add`, `finish`, `get`, iterators | level 0 | cuts between blocks and restart intervals | a file answers like its memtable |
| Skip list (`src/storage/SkipList.cpp`) | nodes linked on several levels, counts of entries and bytes | `put`, `get`, `del`, `clear`, the iterator | KV store, under its mutex | unlinking on every level, raising the list's height, boundaries of the iterator | every level a sorted chain; it is a sorted map |
| Caches, LRU (`BlockCache`, `TableCache`, `LRUReplacer`) | – | – | nobody: the pointers passed are null | – | – |
| Meta server (`meta_server/`) | maps of databases and nodes; per database its tables and `next_oid`; per table its partitions and where their replicas are; one latch per server, database and table; the file | lookups, `UpdatePartitionLeader`, `CreateDataBase`, `CreateTable`, `CreatePartitionTable`, `NodeRegister`, the saving thread, reading the file | RPC threads and the saver | latch coupling, check-then-insert without a latch, null pointers inserted under shared latches, tables visible before they are finished, counters shared between databases | lookups answer from finished tables and cover the range asked for, oids are unique, replicas on different nodes, the file reads back |
| Coordinator fail-over (`src/fault_tolerance/`) | map of transactions and their backup | `CreateTransaction`, heartbeat | RPC threads | check and insertion under two lockings | – (what it coordinates is an exercise) |
| Query execution (`src/execution/`) | – | plan trees, RPC forwarding | – | – | – |
| Benchmark service (`test/benchmark/`) | – | the only code that calls lock manager, log and KV store together | – | – | – |

`PROJECT.json` lists these under `components` and, under `hazards`, every place
at which the code can go wrong in a way a unit test would hardly reach.

## 2. Plan

1. *(done)* LockManager, with AbstractLocks as what it promises; proofs of compatibility,
   two phases, the lock sets and, under No-Wait, of the refinement.
2. *(done)* Oracle; proof that timestamps are fresh and increasing.
3. *(done)* LogManager, with DurableLog as what it promises; proofs of its invariants and of
   the refinement.
4. *(done)* SSTable and KVStore; proofs that a table answers like its memtable, about the
   directory and about what is read back from it.
5. *(done)* Recovery: the log records of `Begin` and `KVStore::put/del`, `Redo` and
   `Undo`, with stops during recovery; proofs of the numbering and of the state recovered.
6. *(done)* Meta server: TableMeta (lookups and file format) and MetaServer (maps,
   latches, placement, the saver); proofs of its latching, of what readers see, of
   the oids, of the placement and of the lookups.
7. *(done)* SkipList, with SortedMap as what it promises; proof of the refinement.

What would come next, were the project continued: a torn last record of the log; `Begin`
with the oracle's failing RPC. A composition of lock manager, log and KV store has to wait
for Commit and Abort, which are exercises.

## 3. Modules

| Module | Models | Notes |
|---|---|---|
| `LockManager` | lock manager, `state_`, lock sets, `ReleaseLocks` | one action per call or per part of it between two latches; `TxnOf` says which transaction a thread works for |
| `AbstractLocks` | – | abstract: two-phase locking with modes |
| `Oracle` | `timestamp.h` | unsigned and `int` arithmetic kept with small widths |
| `LogManager` | log manager and log storage | a record is its number; sizes decide when a buffer is full |
| `DurableLog` | – | abstract: a log without gaps of which a prefix is durable |
| `SSTable` | table and block builders and readers | strings are numbers: a key its rank, a value its length |
| `KVStore` | KV store, disk storage, level 0 | a table is the content it was built from, which `SSTable` justifies |
| `Recovery` | log records, `Begin`, logged `put` and `del`, recovery manager, `ReadLog` | commit and prepare, exercises in the repository, write the record its documents ask for |
| `SkipList` | the skip list and its iterator | a heap of nodes; a deleted node leaves it |
| `SortedMap` | – | abstract: a sorted map with a cursor that counts entries and bytes |
| `TableMeta` | what is known of a table, lookups in it, the format of the meta file | operators only; used by `MetaServer` |
| `MetaServer` | catalogue, latches, creation and placement of tables, registration, the saver | one access to a map is one step |
| `MC…` | – | model values and symmetry for TLC |
| `LockManagerProofs`, `OracleProofs`, `LogManagerProofs`, `RecoveryProofs`, `KVStoreProofs`, `MetaServerProofs`, `SSTableProofs`, `SkipListProofs` | – | theorems |

Definitions named `X_Something` and marked *Mutated* change the definition `X`
that follows the way a programming error would; `PROJECT.json` pairs each with the property
that notices it. No other definition uses them.

`NoWait` is the lock manager's `enable_no_wait_`; `Saves` says whether the meta server's data directory exists and
`Updates` whether `UpdateLeader` is called. No other constant switches behaviour on or off: stops, clocks, early requests and
failed writes are always possible.

**LockManager.** `request[l][t]` is the request of `t` in the queue of `l`:
`checkSameTxnLockRequest` finds any request of the transaction, so there is
at most one, and no check depends on the order. The entry checks run before the latch
(`LockEntry`), the rest of a call up to its return or its sleep under it
(`Acquire`), and a sleeper evaluates its predicate when notified (`Wake`) or
without (`SpuriousWake`). `AskedModes` bounds the modes clients ask for. `EvaluateWait` is one evaluation of the predicate with its three outcomes:
granted, aborted, still waiting. With `NoWait` the third does not occur. An upgrade changes the mode and
clears `granted_` before it waits, as the code does. The three lock functions
differ only in the lock sets they use and in the modes they accept. When a
second thread of a transaction unlocks a resource its first thread waits
for, the list element is freed and the waiter becomes an `orphan`. One that slept on a new request holds that request
itself, so it evaluates its predicate truly, but on a request no longer in the queue. One that slept on an upgrade or on another call's
request refers to the freed element: its predicate may read anything, it writes `granted_` through the element
(`GrantThroughFreed`: nothing that is seen, or whatever waiting request of the lock manager the memory now is), after an upgrade it clears
`upgrading_`, and all record the lock (`OrphanReturn`). `ReleaseLocks` is one step per unlocked element, so other threads run
in between.

**Oracle.** `Draw` is what `getTimeStamp` does under the latch, `Return` and
`Retry` what it does after it, with `physiacl` read again. `syncTimestamp` (up to the
latch) and `syncCurrent` are the two halves of the initialisation; a request may come before either, and then draws from fields
without initializer (`Uninit`). `TornSave` stops the process when the
file is already truncated. `ClockMoves` sets the clock to any value.

**LogManager.** `Unwritten` maps the buffers to `DurableLog`'s volatile part: what is in
`log_buffer_`, and in `flush_buffer_` while it is being written. The buffer
swap, the write, the publication of `persistent_lsn_` and the reset of
`needFlush_` are separate steps. A write may fail and the stream then stays bad.

**KVStore.** `put` holds `mutex_` while it adds a table, so `adder` excludes
other calls; `get` and `del` are two steps because they search without it. A search during
which a table is appended runs over a vector that may move, and its result is arbitrary.
`DiskStorage::add` is four steps: opening the file, writing it, the
index, the number, and the process may stop between any two. `unsaved`, `rewritten` and `latest` are history: the numbers a stop met
between the writes of index and meta, the keys written again or overwritten with their table, and the last value put. The destructor of `KVStore` flushes, and the one of its
base class flushes the same memtable again, as in the code.

**Recovery.** The log is a sequence of units, a header taking one and the
data of INSERT and DELETE another, so that records end at and reach over the end of the read
buffer. `disk` is the file at the start and `tail` what was appended since; of that a stop leaves any
prefix that ends with a record, which is what `DurableLog` promises. The store is a map that is empty when recovery begins (the comment at
`recovery_manager.cpp:15`): `KVStore_beta` as long as its memtable has not been moved to
disk. `RedoRecord` and `NextChunk` are the two loops of `Redo`; `UndoStep` one
iteration of `Undo` with the compensation it logs. `DeserializeFrom` drops PREPARED records, as
in the code. `kv_` is taken to be set; nothing in the repository does.
The model is of a build without assertions: `CMakeLists.txt:13-14` makes Release the default.

**SkipList.** A search is the list of the places where it stops on each level
(`Stops`), going along a level with `Walk`; `put` and `del` link with it, `get` and the iterator's moves read its lowest
level. A new node has any height from 1 to `max_height_`, so every outcome of
the random generator is covered. Pointers of a new node are `Unset` until they are
written, and a pointer to a deleted node leads out of the heap, so following
either is an error of the model. A change of the list takes the iterator
back to the start, because the store does not change a memtable while it iterates over it.

**MetaServer.** Objects are never freed in the code, so a pointer is the index of an
object in the order of allocation, and 0 is `nullptr`. `held` has the latches
of every thread. A handler is split where another thread can come in between: at every latch
and at every access to a map or to another thread's object. `call[t]` is the
request, `pc[t]` the place in the handler, `dp` and `tp` its pointers and `work` the locals of the placement;
`work[t].seen` is what an unprotected `++` read, so that an increment of another database's creator may
be lost. `operator[]` with a missing name puts a null pointer into the map. Dereferencing
one, reading an empty `range()`, or an exception nobody catches may end the process: `Stop`.
Without enough nodes the pointer of `CreatePartitionTable` is not initialised: the process stops or
any node is taken (`guessed`). `whole`, `asked`, `replaced` and `miscounted` record what
properties need of the past: which tables were finished, the partition type asked for, which databases were replaced by a
second insertion, and which servers' nodes were replaced or given leaders by two threads at once. `TableMeta` writes and reads the file as the
tokens `operator>>` tells apart; an empty string is no token.

## 4. Runs

| Run | Bounds | Shows |
|---|---|---|
| `lock_nowait` | 2 transactions, a table and a row, all modes | lock sets and queues agree, `ReleaseLocks` leaves nothing, granted modes stay protected, refinement of `AbstractLocks` |
| `lock_wait` | 3 transactions, two rows, S and X on one and X on the other, waiting, fairness | compatible and two-phase grants over wake-ups, `upgrading_` reset, every wait ends that is not in or behind a cycle of waits |
| `lock_shared` | 2 transactions of two threads each, a partition and a row, S and X on one and X on the other, waiting | with two threads of a transaction, only a call whose request was erased brings about a conflict |
| `oracle` | 2 clients, clock 1–3 set at will, `MaxLogical` 2, 2 retries, early requests | unique increasing timestamps within a run, and above what the clock had passed when the run began |
| `log` | 2 workers, 5 records of 1–2 in a buffer of 4, fairness | one log without gaps, `persistent_lsn_` true unless a write failed, no overrun, progress |
| `recovery` | 2 transactions, 2 keys, 5 records before recovery, 2 stops, read buffer of 3, fairness | committed effects and only those survive, with the two exceptions `UndoLog` makes, for keys in no undecided prepared transaction; no number is reused; recovery ends |
| `sstable` | all memtables of up to 6 keys, blocks of about 4 entries, restart interval 2 | a file answers like its memtable; index and restart points right |
| `kv` | 2 callers, 2 keys, table numbers up to 3, stops between any two writes | the store on disk is sound but for the numbers a stop met between index and meta; keys written once are read back |
| `kv_reset` | 1 caller, 2 keys | *violated*: a key moved to a table is found again after `reset` |
| `meta` | 2 threads and the saver, a database created up to twice, 1 table, 1 node, updates, stops, fairness | latches sound, lookups reach finished tables only and return, what is saved reads back |
| `meta_place` | 2 threads, 1 database, 2 tables, 2 servers, up to 3 nodes, plain, range and hash requests | unique oids, replicas on different addresses, exact leader counts at addresses not miscounted, lookups cover the range asked for |
| `skiplist` | keys 1, 2, 4, values 0 and 3, 3 levels | every level a sorted chain, searches find all entries, refinement of `SortedMap` |

*Why the bounds are enough to be interesting.* Compatibility, upgrades and
protection relate two transactions on one resource; a third makes waiters that
are woken together. The first row of `lock_wait` has the upgrade S to X; with the second, transactions wait for each other
in cycles over two locks, besides the two upgrades of one lock that wait for each other. In `lock_shared` the transactions
have two threads each, so that a sleeping call loses its request to the other's unlock and then grants, through the freed element, what the other
transaction waits for: `GrantedCompatible` fails there. Upgrades between all modes are in `lock_nowait`, and what the three runs say of grants is proved for every size. Two
clients are enough for a draw overtaken by an update and another draw, and for one drawn before the oracle is synchronised; with
`MaxLogical` 2 the logical part overflows, and with two retries the call gives
up. A buffer of 4 fills after two records, so that two workers wait for the
same swap and only one finds room. Six keys make several blocks, a full and a
partial restart interval, and every gap a missing key can fall into. Five log records are a committed
transaction and a loser that deletes what it wrote, or two losers with several writes; the second
stop comes at every point of the first recovery. Three
tables allow a key in two of them, a number overwritten after a stop between index and meta, and one more addition behind it. `MaxNo` bounds
the numbers and the tables listed. The meta server's hazards are between
a creator and a reader, two creators, or a creator and the saver, so two threads and the saver
meet all of them; `meta` has the second creation of a database, `meta_place` a second node under a registered
name, two partitions with two replicas, more replicas than nodes, and a hash table without ranges. Creators of different databases, which
place on the same nodes at once, are in the theorem about the counts only: a run with two databases is too large.
Three keys give a skip list in which a node has a neighbour on either side,
with all combinations of three heights.

Threads are symmetric in `meta_place`, which checks no liveness.

`lock_shared`, `sstable` and `recovery` allow termination: a call on a freed request may
sleep for good, a finished file is final, and the transactions of `recovery` come to an end. All other runs check deadlock.

**Fairness.** Weak fairness of a step says that a thread which can run does so:
a call that can take its latch, a notified sleeper, the flush thread, whose
`wait_for` ends at the latest with `LOG_TIMEOUT`, and the thread that runs recovery. `ReleaseLocks` has strong
fairness: a client that keeps making other calls is idle again and again and ends its
transaction sooner or later. That is an assumption on clients, not on the lock
manager; without it a transaction may hold its locks for good. A call in or behind a cycle of waits (`Deadlocked`: it is one of
some sleeping calls of which each waits for a lock of another's transaction) is exempt from `LockCallReturns`,
as nothing in the code finds or breaks cycles. In the meta server a handler that can go on does, and the saver finishes a save it began. A lookup that
waits for a latch gets it if it is free of writers again and again (strong fairness):
`std::shared_mutex` is a `pthread_rwlock_t`, which prefers readers; nothing of the kind is
assumed of writers. Nothing is assumed of spurious wake-ups, of restarts or of new
calls.

**Where the code and its documents disagree.** `kv_reset` ends in a violation: `reset` clears the memtable and leaves the tables
(`KVStore_beta.cpp:92`), where `KVStore_beta.h:27` says "clear memtable and disk". Further disagreements and failures, which these
models contain and for which no run is kept:
- a prepared transaction that is undecided at a stop is not asked about, where `docs/大作业文档.md:109-110` and `:140-147` have the participant
  ask its coordinator: `DeserializeFrom` drops the PREPARED record and `Undo` undoes the transaction (`recovery_manager.cpp:40`). `RecoveredState` makes no claim
  for its keys (`InDoubt`), since either decision may have been taken;
- in a Debug build (`docs/使用文档.md:53`, `:61`) recovery aborts on a log that is not empty: the assertion at `log_record.h:108` compares the
  record's size with the four bytes behind the record, `storage` having been advanced past it. `Recovery` is of a build without assertions, and so is `RecoveryEnds`;
- with waiting, an upgrade gives its old lock up before it is granted the new one, so
  `AcquiredStaysProtected` fails with `NoWait` FALSE, although `docs/大作业文档.md:37` asks for
  strong strict two-phase locking;
- a run of the oracle that starts with a clock behind the saved time repeats timestamps of earlier runs (`timestamp.h:74`): the difference of the two is
  unsigned, and the saved time is ignored. `FreshAndIncreasing` claims uniqueness within a run, and across runs only above the clock at the start;
- a stop between index and meta file makes the next table overwrite one that
  is in use (`DiskStorage.cpp:16`): `OnDiskSound` exempts the numbers concerned (`unsaved`), `OnceWrittenReadBack` the keys overwritten;
- a lock call whose request was erased while it slept writes through the freed element and may grant another transaction's
  request in a conflicting mode (`Lock_manager.cpp:95`, `:125`): `GrantedCompatible` fails with two threads per transaction, and `ConflictsOnlyByOrphans`
  says that nothing else breaks it;
- with two threads per transaction a waiting call is granted its lock after the
  transaction began to shrink (`Lock_manager.cpp:157`);
- under No-Wait a failed upgrade leaves `upgrading_` set, and later upgrades on the
  resource are refused (`Lock_manager.cpp:108`);
- with waiting, transactions wait for each other for good, over two locks or with two upgrades of one;
- a request that arrives before the oracle is synchronised may be answered
  from fields without initializer (`Uninit`), of which `FreshAndIncreasing` claims nothing;
- after a failed write `persistent_lsn_` is advanced all the same (`PersistentOnDisk` fails, `PersistentUnlessFailed` holds);
- `UndoLog` puts the key as the value of a key whose deletion it undoes, and deletes a key whose overwriting it undoes (the exceptions of `RecoveredState`);
- a search overlapping the addition of a table may miss any key (`torn`);
- `CreatePartitionTable` refuses a replica count *below* the number of nodes, and with one above it uses an
  uninitialised pointer (`meta_server_rpc.cpp:114`, `:183`, `:194`);
- it stores the type of partition by switching on the type of the *key* (`meta_server_rpc.cpp:135`):
  an integer key makes a table that is not partitioned, a float key one by range, a string key one by hash;
- a hash table, for which `meta_service.proto` asks for no ranges, reads the first of none (`meta_server_rpc.cpp:166`);
- lookups insert null pointers under a shared latch (`meta_server.cpp:192`), which a later creation or the
  saver dereferences;
- `UpdatePartitionLeader` changes a copy (`meta_server.cpp:205`): the leader stays;
- `CreateDataBase` and `NodeRegister` check and insert without a latch: the second of two at once replaces the
  database, with the tables of the first, or the node, with its counts;
- counts of a node are incremented by creators of different databases without a common latch (`meta_server_rpc.cpp:191`, `:203`);
- the saver holds only the server's latch and writes tables that are half made (`meta_server_rpc.cpp:262`);
- the file of a table without partition key, or with a column without name, cannot be read back (the empty name is no token), and `main`
  never calls `open_meta_server`: `FileReadsBack` is about what the format promises;
- the new coordinator is computed from the nodes present at the time of each request, so two requests agree, as the comment
  at `meta_server_rpc.h:127` says, only if no node registers in between.

## 5. Theorems

`LockManagerProofs`, from `LockAssumption` only:
- **TypeCorrect**: `Spec => []TypeOK`.
- **OnlyOrphansConflict**: `Spec => ConflictsOnlyByOrphans`, for any number of transactions, threads
  per transaction and resources, with and without No-Wait: granted modes become incompatible only in a step of a call whose
  request was erased while it slept. The invariant it needs is `QueueInv`: requests have modes, and a thread asleep has its
  request in the queue (`SleeperQueued`; `Unlock` makes orphans of the others).
- **GrantedLocksCompatible**: `Spec => []GrantedCompatible` if `TxnOf` is injective. Then there are no orphans (`NoOrphan`), as only
  another thread of the transaction can erase a sleeper's request, and the invariant is `LockInv`: `TypeOK`, `SleeperQueued` and
  `QueueOK(request)` (requests have modes and the granted ones are compatible).
- **GrantsAreTwoPhase**: `Spec => GrantOnlyWhileGrowing` if `TxnOf` is injective.
  The invariant is `CallGrowing`: a transaction inside a lock call is GROWING or
  ABORTED, because only its own thread could have moved it on.

For the lock sets: under `NoWait` every step has one of five effects on queues, lock sets and
states: none that matters (`Quiet`), a lock granted and recorded (`Granted`), one asked for again
(`Repeated`), a request refused and its transaction aborted (`Failed`), a lock given up (`Unlocked`). The invariants are
then proved once per effect:
- **LockSetsAreBacked**: `Spec => []LockSetsBacked`, for any threads per transaction. It needs `Awake`: nobody
  sleeps, and only aborted transactions have requests that are not granted.
- **LocksStayProtected**: `Spec => []AcquiredStaysProtected`, from the same invariant and `GrantedCompatible`:
  an upgrade only goes to a mode that excludes what the old one excluded.
- **LockManagerIsTwoPhase**: `Spec => TwoPhaseLocking`, the refinement of `AbstractLocks`, with one thread per
  transaction. The mapping needs `Fresh`, that a transaction in state DEFAULT holds nothing, and `CallGrowing`.
- **GrantsAreRecorded**: `Spec => []GrantsRecorded`, with one thread per transaction. `Emptied` follows `ReleaseLocks`
  through its loops: the sets before the one it is at are empty; `Recorded` and `RowCalls` say that a granted mode
  is one of the sets it goes through.

Without `NoWait`, with one thread per transaction:
- **UpgradingIsTrue**: `Spec => []UpgradingMeansUpgrade`. A waiting call is not aborted (`CallsGrow`), so it leaves
  its sleep only by a grant, which resets `upgrading_`.

`OracleProofs`, from `OracleAssumption`:
- **TypeCorrect**: `Spec => []TypeOK`.
- **TimestampsFreshAndIncreasing**: `Spec => FreshAndIncreasing`, for any number of clients, any `MaxLogical`, retries, movements of the
  clock, stops, torn saves and early requests. The invariant says that everything
  issued in the run is at most `highest`, that `highest` and every pair drawn since the synchronisation and not yet returned are
  at most what physical and logical part compose to (the logical part counted up to
  `MaxLogical`, beyond which draws are rejected), that such pairs are new and
  distinct, and that the physical part is not below the clock at the synchronisation (`SyncPastClock`, `RunningPastClock`).

`LogManagerProofs`, from `LogAssumption` (a record fits into an empty buffer), for any workers, sizes and stops:
- **TypeCorrect**, **BufferNeverOverrun**: `Spec => []TypeOK` and `Spec => []BufferNotOverrun`.
- **PersistentIsOnDisk**: `Spec => []PersistentUnlessFailed`.
- **LogIsDurable**: `Spec => ImplementsDurableLog`, the refinement of `DurableLog`.

`persistent_lsn_` is copied from `flush_lsn_`, and that from `next_lsn_` at a swap, so neither of the last two is
inductive. `LogInv` adds `OneLog`: file, records taken by the flush thread and buffer are numbered
one after the other and `next_lsn_` comes next, as long as no write failed; and `LsnsTrue`: `flush_lsn_` is
the last record taken, before and after the write, and `persistent_lsn_` one in the file.

`RecoveryProofs`, from `RecoveryAssumption` (the read buffer has room for a record; no transaction, key or value is one of the
three markers the model uses), for any transactions, keys, values, sizes of the read buffer and stops:
- **InvAlways**: `Spec => []Inv`, the inductive invariant.
- **TypeCorrect**: `Spec => []TypeOK`; `lsn_mapping_` is asked only for records Redo has read.
- **LsnsStayConsecutive**: `Spec => []LsnsConsecutive`.
- **CommittedStateRecovered**: `Spec => []RecoveredState`.

`RecoveredState` says nothing while recovery runs and nothing of how the log came to be what it is, so
most of `Inv` is about the log. It is stated by the places of the records, without a fold: `Shaped` (a header is
followed by its body, a body follows its header), `Numbered`, `Chained` (`prev_lsn_` leads through all writes of a
transaction), `Closed` (nothing after COMMIT or ABORT), `Blocks` (nobody writes a key a transaction wrote that
has not ended), `Aborted` (an ABORT stands only where the first write of every key is undone by the last) and `Deletes` (the
first deletion of a key by a transaction tells the committed value, up to the exceptions). Each of them
survives a cut before any record and the append of a record that `Fits`; that is proved once (`CutLog`, `GrowLog`) and each
action only shows which of the two it does. The rest relates the state to the log: the store is what the log
says up to where Redo is (`StoreOK`); `lsn_mapping_` and `active_txn_` are what was read (`MappingOK`, `ActiveOK`); a part of the log
read by the inner loop begins with a header whatever the size of the buffer (`RedoOK`); during Undo the list has one record per
transaction and for every key the first write behind it is undone by the transaction's last (`UndoOK`, `Done`). The last is what
makes a second stop harmless: compensations of an interrupted Undo are part of the transaction and are undone
in turn, and only the first and the last write of a key count. The value of a deletion that was undone is the one place where the
store and the log differ (`StoreAt`): `UndoLog` puts the key's text and logs the value.

`KVStoreProofs`, from `KVAssumption`, for any callers, keys, values and number of tables:
- **TypeCorrect**, **DirectorySound**: `Spec => []TypeOK` and `Spec => []OnDiskSound`. `Numbering` and `Listing` say how the number,
  the list in memory and the index are related at each of the four steps of an addition, and that the numbers a stop met between index and meta
  (`unsaved`) are the only ones that are listed and not below the number in meta, but for the one being added.
- **KeysReadBack**: `Spec => []OnceWrittenReadBack`. Besides `DiskInv` it needs that a key written once has its value in
  the memtable and in every table that has the key (`Faithful`), that it is in one of them (`Kept`), that a search
  not overlapped by an addition looks for a key that is not in the memtable (`Searches`), and that callers hold the
  row lock of their key (`RowLocks`). A stop between index and meta takes the keys of the table at the next number out of the claim when that table
  is opened for writing again (`Overwritten`).

`MetaServerProofs`, from `MetaAssumption`, for any threads, databases, tables and requests:
- **LatchesAlwaysSound**: `Spec => []LatchesSound`. The invariant `LatchInv` adds which latches a thread
  holds at each place of its handler; a thread between `check_tab` and the end of a creation holds
  its database's latch exclusively.
- **OnlyWholeTablesRead**: `Spec => []ReadersSeeWholeTables`. `MapInv` says that pointers are
  valid, that no two names share an object, and that every table in a database that is not finished has
  a thread that is making it. With the latches that thread excludes the
  readers of the database; they find the table when it is finished.
- **OidsAlwaysUnique**: `Spec => []OidsUnique`. Between taking an oid and counting it on, `next_oid`
  equals the oid of one table of the database; `OidInv` says that this table is the one of the creator that
  holds the latch and that all others are below.
  It is inductive together with `LatchInv` and `MapInv` (`InvAlways`).
- **ReplicasAreDistinct**: `Spec => []DistinctReplicas`, and **LookupsCover**: `Spec => []LookupCovers`. Both rest on
  `PlaceInv` (`PlaceInvAlways`): a thread's call is one that can be at its place (`CallsOK`); a node has the address of a server (`NodesOK`);
  the partitions of a table are those of a request and its locations are those of the first partitions, in order, each with
  the leader first (`TablesOK`); a thread that places replicas is at the partition behind those placed, and what it has chosen has
  different addresses unless its table is `guessed` (`WorksOK`). That no two threads place replicas of the same table
  follows from `MapInv`. A table is `whole` only when its last partition has its location, and that is
  what makes the answer of a lookup a leader and not the null pointer for every partition selected.
- **TypeCorrect**: `Spec => []TypeOK`, with `TypeInv`, inductive together with the invariants above.
- **FileIsReadBack**: `Spec => FileReadsBack`, an action property. The larger part of it is about `TableMeta` and has no state:
  `MetaRead` says that `ReadMeta(WriteMeta(dbs, servers))` gives back any finite maps of well-formed databases and nodes. It goes by
  the structure of the format. For each kind of record (column, partition, replica, location, table, database, node) one lemma says that
  wherever a file has the tokens the writer makes of it (`At`), the reader yields it and stops right behind them (`Past`), whatever
  follows; and another says the same of a vector or map of them. Both loops, the writer's and the reader's, are recursive functions:
  `Climb` and `SameUpto` take the place of induction (`ReadAll`). `FileInv`, inductive with the invariants above, then
  provides what the lemmas ask of the state: maps are finite, a table is found by its own name, records have
  their fields, and a table with a partition key has its partitions.
- **LeaderLoadsExact**: `Spec => []LeaderLoadExact`, with any number of databases, whose creators share no latch. A server is `miscounted` from when its
  node is replaced, or one thread chooses it for a leader while another is about to count one there; the property is about all other addresses (`Sure`). `LoadInv` says that
  their nodes are in the map, which is one to one (`Mapped`), that on each of them one thread at a time counts a leader (`Lone`), and that what it saw of the count is
  still so (`Recent`). The sum of the counts at an address is the number of elements of a set (`SumIsPile`), as in SkipList, and so the invariant compares three
  sets (`Exact`): a step adds an element to the left exactly when one is added to the right.

`MetaAssumption` asks of the constants that threads are finitely many, that columns have names and types, that ranges are pairs of numbers, that a request has as many
ranges as partitions or none, and that no server's address is empty or the null pointer of the answers.

A database created twice at once is exempt from OnlyWholeTablesRead and OidsAlwaysUnique: its two objects have two latches.

`SSTableProofs`, from `SSTableAssumption`, for any keys, sizes of values, blocks, restart intervals and compressed data:
- **FileAnswersLikeMemtable**: `Spec => []FileIsMemtable`.
- **BlocksSideBySide**, **RestartPointsUsable**: `Spec => []BlocksContiguous` and `Spec => []RestartsUsable`.

The inductive invariant `TableInv` follows the builder through a table: the block under construction has the
entries passed since the last cut, one behind the other, with a restart point at the first of every interval
(`BuilderOK`); the index has the blocks in the order of their keys, side by side (`IndexOK`); the file has
exactly the blocks of the index, each ending with its key there (`FileOK`); every key passed is in the buffer or in a
block (`Cover`); after `finish` nothing is left over (`Ends`). A reader's search in the index, at the restart points and along an interval is
then shown to stop at the first key not below the one it looks for.

`SkipListProofs`, from `SkipListAssumption`, for any keys, values, heights drawn and maximal height:
- **LevelsStaySorted**: `Spec => []LevelsSorted`.
- **SearchesFindEntries**: `Spec => []GetFindsEntries`.
- **SkipListImplementsSortedMap**: `Spec => ImplementsSortedMap`, the refinement of `SortedMap`, with the moves of the
  iterator and the counts of entries and bytes.

The inductive invariant `ListInv` says that the heap has the two sentinels and nodes with distinct keys (`HeapOK`), that
on every level the successor of a node is the next one in the order of keys that is so high (`Chained`), and that the iterator
is at an entry. The heart of it is that a search has exactly one stop on every level, the node with the greatest key
passed (`OneStop`), whichever way it came down: linking a new node or unlinking one behind its stops then keeps
the chains. For the counts, the sum of the sizes is shown to be the number of elements of a set of
pairs (`Pile`), which grows and shrinks with the entries.

`Walk`, `Stops` and the sums are recursive. The library's induction theorems cannot be instantiated, but its least
elements can (`WFMin`): what these proofs need of a recursive function is shown at a
least or greatest counterexample.

Only model-checked: the liveness properties, which are outside the proof system used. Every invariant and
action property of a passing run is stated by a theorem; those with a hypothesis on the constants
name it above (`NoWait`, one thread per transaction).

## 6. Not modelled

Bytes, checksums, compression and file names; RPC transport; the components
marked `not_modelled` in `PROJECT.json` with their reasons. The coordinator's fail-over is among
them because what it coordinates is missing: Commit is an exercise, the participant's side is a stub, and
`CoordinatorBackup::ReadBackwards` does not compile. Query execution builds plan trees
and forwards RPCs without state of its own; the caches are never reached, because null pointers are passed for them.
Of the meta server, `GetNewCoordinator` (an answer computed from the node map), ports, and what concurrent
accesses may do to the inside of a `std::unordered_map` are left out: an access to a map is one step. A record of at least
`LOG_BUFFER_SIZE` bytes, for which `AppendLogRecord` waits for good, is
excluded by `LogAssumption`. Writes of the index and meta files are atomic here, and the log is cut by a stop between records only.
Callers of the KV store hold the row lock of their key, as the lock manager provides;
`reset`, `flush` and the destructors, which take no mutex, run alone.
