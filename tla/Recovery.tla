------------------------------ MODULE Recovery ------------------------------
(***************************************************************************)
(* Restart recovery: RecoveryManager::ARIES                                *)
(* (src/src/recovery/recovery_manager.cpp) over the log file, with the     *)
(* records TransactionManager::Begin and KVStore::put and del write while  *)
(* the server runs.  Redo repeats the whole log into a store that is empty *)
(* ("we only support recovery from empty database"), Undo compensates the  *)
(* transactions without COMMIT or ABORT, logging what it does, and marks   *)
(* them aborted.  The process may stop at any time, during recovery too.   *)
(*                                                                         *)
(* The store is a map: what KVStore_beta is as long as its memtable has    *)
(* not been moved to disk.  Callers hold exclusive locks on the keys they  *)
(* write until their transaction ends.  Committing and preparing are       *)
(* exercises in this repository; here they write the record the            *)
(* repository's documents ask for.                                         *)
(*                                                                         *)
(* The program is built without assertions, as CMakeLists.txt:13-14 does   *)
(* by default.  In a Debug build the one at log_record.h:108 compares the  *)
(* size of a record with the four bytes behind the record, to which        *)
(* storage was advanced, and Redo aborts the process at the first record   *)
(* that is not followed by one of its size.                                *)
(***************************************************************************)
EXTENDS Integers, Sequences, FiniteSets, FiniteSetsExt, Functions

CONSTANTS Txns,        \* transactions; every one begins at most once
          Keys,
          Values,
          BufferSize,  \* LOG_BUFFER_SIZE, of which a header takes one unit
          MaxLsn,      \* bound: records written before recovery
          MaxCrashes   \* bound: stops

INVALID_LSN == -1
InvalidTxn == "0"     \* INVALID_TXN_ID
Absent == "absent"
KeyText == "key"      \* the text of the key, as a value
NoKey == "none"

ASSUME RecoveryAssumption ==
  /\ BufferSize \in Nat /\ BufferSize > 2
  /\ MaxLsn \in Nat /\ MaxCrashes \in Nat
  /\ InvalidTxn \notin Txns /\ NoKey \notin Keys /\ Absent \notin Values

Record(lsn, txn, prev, type, key, value) ==
  [lsn |-> lsn, txn |-> txn, prev |-> prev, type |-> type, key |-> key, value |-> value]

\* What the file holds behind the header of a record, and behind its end.
Body == Record(INVALID_LSN, InvalidTxn, INVALID_LSN, "INVALID", NoKey, Absent)
Zeros == Record(INVALID_LSN, InvalidTxn, INVALID_LSN, "ZEROS", NoKey, Absent)

VARIABLES
  disk,         \* the log file at the start, in units: a header, then a body if any
  tail,         \* what was appended since, some of which the flush thread has written
  next_lsn,     \* LogManager::next_lsn_
  kv,           \* the store
  txn,          \* Transaction: where it is and prev_lsn_
  owner,        \* the transaction that has the exclusive lock of a key
  phase,        \* of the process: normal operation or a part of recovery
  offset,       \* of Redo: where the read buffer starts in the file
  inner,        \* of Redo: inner_offset
  lsn_mapping,  \* RecoveryManager::lsn_mapping_
  active_txn,   \* RecoveryManager::active_txn_
  undo_list,    \* of Undo: next_lsn; then the transactions to be marked aborted
  crashes       \* number of stops so far

logVars == <<disk, tail, next_lsn>>
redoVars == <<offset, inner, lsn_mapping>>
recoveryVars == <<redoVars, active_txn, undo_list>>
vars == <<logVars, kv, txn, owner, phase, recoveryVars, crashes>>

NewTxn == [at |-> "new", prev |-> INVALID_LSN]
EmptyStore == [k \in Keys |-> Absent]
None == [x \in {} |-> x]

Init ==
  /\ disk = <<>> /\ tail = <<>> /\ next_lsn = 0
  /\ kv = EmptyStore
  /\ txn = [t \in Txns |-> NewTxn]
  /\ owner = [k \in Keys |-> InvalidTxn]
  /\ phase = "normal"
  /\ offset = 0 /\ inner = 0 /\ lsn_mapping = None
  /\ active_txn = None /\ undo_list = {}
  /\ crashes = 0

-----------------------------------------------------------------------------
(* The log *)

Size(r) == IF r.type \in {"INSERT", "DELETE"} THEN 2 ELSE 1

\* What a record is in the file.
Cells(r) == IF Size(r) = 1 THEN <<r>> ELSE <<r, Body>>

Append_(t, prev, type, key, value) ==
  /\ tail' = tail \o Cells(Record(next_lsn, t, prev, type, key, value))
  /\ next_lsn' = next_lsn + 1
  /\ UNCHANGED disk

-----------------------------------------------------------------------------
(* Normal operation *)

Running(t) == phase = "normal" /\ txn[t].at = "active" /\ next_lsn < MaxLsn

MayLock(t, k) == owner[k] \in {t, InvalidTxn}

\* TransactionManager::Begin
Begin(t) ==
  /\ phase = "normal" /\ txn[t].at = "new" /\ next_lsn < MaxLsn
  /\ Append_(t, txn[t].prev, "BEGIN", NoKey, Absent)
  /\ txn' = [txn EXCEPT ![t] = [at |-> "active", prev |-> next_lsn]]
  /\ UNCHANGED <<kv, owner, phase, recoveryVars, crashes>>

Write(t, k, type, logged, stored) ==
  /\ Append_(t, txn[t].prev, type, k, logged)
  /\ txn' = [txn EXCEPT ![t].prev = next_lsn]
  /\ kv' = [kv EXCEPT ![k] = stored]
  /\ owner' = [owner EXCEPT ![k] = t]
  /\ UNCHANGED <<phase, recoveryVars, crashes>>

\* KVStore::put with a transaction, also over a key that is there.
put(t, k, v) ==
  /\ Running(t) /\ MayLock(t, k)
  /\ Write(t, k, "INSERT", v, v)

\* KVStore::del with a transaction; a key that is not there is not logged.
del(t, k) ==
  /\ Running(t) /\ MayLock(t, k)
  /\ kv[k] # Absent
  /\ Write(t, k, "DELETE", kv[k], Absent)

\* The participant's part of prepare: a PREPARED record.
PrepareCommit(t) ==
  /\ Running(t)
  /\ Append_(t, txn[t].prev, "PREPARED", NoKey, Absent)
  /\ txn' = [txn EXCEPT ![t] = [at |-> "prepared", prev |-> next_lsn]]
  /\ UNCHANGED <<kv, owner, phase, recoveryVars, crashes>>

\* A COMMIT record, and the locks are released.
CommitSingle(t) ==
  /\ phase = "normal" /\ txn[t].at \in {"active", "prepared"} /\ next_lsn < MaxLsn
  /\ Append_(t, txn[t].prev, "COMMIT", NoKey, Absent)
  /\ txn' = [txn EXCEPT ![t] = [at |-> "ended", prev |-> next_lsn]]
  /\ owner' = [k \in Keys |-> IF owner[k] = t THEN InvalidTxn ELSE owner[k]]
  /\ UNCHANGED <<kv, phase, recoveryVars, crashes>>

\* The process stops and starts again with ARIES.  Some of the records appended
\* since the last start are in the file, in order: DurableLog.
Crash ==
  /\ crashes < MaxCrashes
  /\ crashes' = crashes + 1
  /\ \E n \in 0..Len(tail) :
       /\ n < Len(tail) => tail[n + 1] # Body
       /\ disk' = disk \o SubSeq(tail, 1, n)
  /\ tail' = <<>> /\ next_lsn' = 0
  /\ kv' = EmptyStore
  /\ txn' = [t \in Txns |-> IF txn[t].at = "new" THEN NewTxn
                            ELSE [at |-> "ended", prev |-> INVALID_LSN]]
  /\ owner' = [k \in Keys |-> InvalidTxn]
  /\ phase' = "redo"
  /\ offset' = 0 /\ inner' = 0 /\ lsn_mapping' = None
  /\ active_txn' = None /\ undo_list' = {}

-----------------------------------------------------------------------------
(* Redo *)

\* A cell of buffer_ after ReadLog at offset; the rest is padded with zeros.
Buffer(i) == IF offset + i < Len(disk) THEN disk[offset + i + 1] ELSE Zeros

\* DeserializeFrom has no case for PREPARED and returns a record that was only
\* given its lsn.  Its assertions are not in a Release build.
DeserializeFrom(r) ==
  IF r.type = "PREPARED"
  THEN Record(r.lsn, InvalidTxn, INVALID_LSN, "INVALID", NoKey, Absent) ELSE r

With(f, x, y) == [z \in DOMAIN f \cup {x} |-> IF z = x THEN y ELSE f[z]]

\* RedoLog: the change of the store and of active_txn_.
RedoLog(r) ==
  /\ active_txn' = IF r.type \in {"COMMIT", "ABORT"}
                   THEN Restrict(active_txn, DOMAIN active_txn \ {r.txn})
                   ELSE With(active_txn, r.txn, r.lsn)
  /\ kv' = CASE r.type = "INSERT" -> [kv EXCEPT ![r.key] = r.value]
             [] r.type = "DELETE" -> [kv EXCEPT ![r.key] = Absent]
             [] OTHER -> kv

\* There is a whole record at inner_offset.
RecordInBuffer ==
  /\ inner < BufferSize
  /\ Buffer(inner).type # "ZEROS"
  /\ Size(Buffer(inner)) + inner <= BufferSize

\* An iteration of the inner loop.
RedoRecord ==
  LET r == DeserializeFrom(Buffer(inner)) IN
  /\ phase = "redo" /\ offset < Len(disk)
  /\ RecordInBuffer
  /\ lsn_mapping' = With(lsn_mapping, r.lsn, offset + inner)
  /\ RedoLog(r)
  /\ inner' = inner + Size(Buffer(inner))
  /\ UNCHANGED <<logVars, txn, owner, phase, offset, undo_list, crashes>>

\* Mutated: the part of the file that was processed is read again.
NextChunk_NoAdvance ==
  /\ phase = "redo" /\ offset < Len(disk)
  /\ ~RecordInBuffer
  /\ inner' = 0
  /\ UNCHANGED <<logVars, kv, txn, owner, phase, offset, lsn_mapping, active_txn, undo_list,
                 crashes>>

\* The inner loop ends and the next part of the file is read.  With
\* inner_offset at the end of buffer_ the size is read from behind it: it is
\* zero or too large.
NextChunk ==
  /\ phase = "redo" /\ offset < Len(disk)
  /\ ~RecordInBuffer
  /\ offset' = offset + inner
  /\ inner' = 0
  /\ UNCHANGED <<logVars, kv, txn, owner, phase, lsn_mapping, active_txn, undo_list, crashes>>

\* Mutated: the largest lsn of an empty file is 0.
RedoEnd_FromZero ==
  /\ phase = "redo" /\ offset >= Len(disk)
  /\ next_lsn' = Max(DOMAIN lsn_mapping \cup {0}) + 1
  /\ undo_list' = Range(active_txn)
  /\ phase' = "undo"
  /\ UNCHANGED <<disk, tail, kv, txn, owner, redoVars, active_txn, crashes>>

\* ReadLog is at the end of the file; numbering goes on behind the largest lsn.
RedoEnd ==
  /\ phase = "redo" /\ offset >= Len(disk)
  /\ next_lsn' = Max(DOMAIN lsn_mapping \cup {INVALID_LSN}) + 1
  /\ undo_list' = Range(active_txn)
  /\ phase' = "undo"
  /\ UNCHANGED <<disk, tail, kv, txn, owner, redoVars, active_txn, crashes>>

-----------------------------------------------------------------------------
(* Undo *)

\* A compensation is logged as the transaction's last record.
Compensate(r, type, stored) ==
  /\ kv' = [kv EXCEPT ![r.key] = stored]
  /\ Append_(r.txn, active_txn[r.txn], type, r.key, r.value)
  /\ active_txn' = With(active_txn, r.txn, next_lsn)

\* Mutated: what is undone is not logged.
UndoLog_NotLogged(r) ==
  /\ kv' = CASE r.type = "INSERT" -> [kv EXCEPT ![r.key] = Absent]
             [] r.type = "DELETE" -> [kv EXCEPT ![r.key] = KeyText]
             [] OTHER -> kv
  /\ UNCHANGED <<logVars, active_txn>>

\* An INSERT is undone by a deletion, a DELETE by putting the key as value.
UndoLog(r) ==
  \/ r.type = "INSERT" /\ Compensate(r, "DELETE", Absent)
  \/ r.type = "DELETE" /\ Compensate(r, "INSERT", KeyText)
  \/ r.type \notin {"INSERT", "DELETE"} /\ UNCHANGED <<kv, logVars, active_txn>>

\* Mutated: the predecessor of the first record is put into the list too.
UndoStep_Invalid ==
  /\ phase = "undo" /\ undo_list # {}
  /\ LET lsn == Max(undo_list)
         r == DeserializeFrom(disk[lsn_mapping[lsn] + 1])
     IN  /\ UndoLog(r)
         /\ undo_list' = (undo_list \ {lsn}) \cup {r.prev}
  /\ UNCHANGED <<txn, owner, phase, redoVars, crashes>>

\* The largest lsn in the list is undone and replaced by its predecessor.
UndoStep ==
  /\ phase = "undo" /\ undo_list # {}
  /\ LET lsn == Max(undo_list)
         r == DeserializeFrom(disk[lsn_mapping[lsn] + 1])
     IN  /\ UndoLog(r)
         /\ undo_list' = (undo_list \ {lsn}) \cup ({r.prev} \ {INVALID_LSN})
  /\ UNCHANGED <<txn, owner, phase, redoVars, crashes>>

\* Every transaction that was undone is then marked aborted, in the order of
\* an unordered map.
UndoEnd ==
  /\ phase = "undo" /\ undo_list = {}
  /\ phase' = "abort"
  /\ undo_list' = DOMAIN active_txn
  /\ UNCHANGED <<logVars, kv, txn, owner, redoVars, active_txn, crashes>>

WriteAbort ==
  /\ phase = "abort"
  /\ \E t \in undo_list :
       /\ Append_(t, active_txn[t], "ABORT", NoKey, Absent)
       /\ undo_list' = undo_list \ {t}
  /\ UNCHANGED <<kv, txn, owner, phase, redoVars, active_txn, crashes>>

RecoveryEnd ==
  /\ phase = "abort" /\ undo_list = {}
  /\ phase' = "normal"
  /\ offset' = 0 /\ inner' = 0 /\ lsn_mapping' = None /\ active_txn' = None
  /\ UNCHANGED <<logVars, kv, txn, owner, undo_list, crashes>>

-----------------------------------------------------------------------------

TxnStep(t) ==
  \/ Begin(t)
  \/ \E k \in Keys : del(t, k) \/ \E v \in Values : put(t, k, v)
  \/ PrepareCommit(t)
  \/ CommitSingle(t)

ARIES == RedoRecord \/ NextChunk \/ RedoEnd \/ UndoStep \/ UndoEnd \/ WriteAbort \/ RecoveryEnd

Next == (\E t \in Txns : TxnStep(t)) \/ Crash \/ ARIES

Spec == Init /\ [][Next]_vars

\* Recovery is run to its end by the thread that starts the server.
FairSpec == Spec /\ WF_vars(ARIES)

-----------------------------------------------------------------------------
(* Properties *)

Types == {"BEGIN", "INSERT", "DELETE", "PREPARED", "COMMIT", "ABORT", "INVALID", "ZEROS"}
LogRecord == [lsn : Nat \cup {INVALID_LSN}, txn : Txns \cup {InvalidTxn},
              prev : Nat \cup {INVALID_LSN}, type : Types, key : Keys \cup {NoKey},
              value : Values \cup {KeyText, Absent}]

\* Every variable has its type; a record undone is one that was read.
TypeOK ==
  /\ disk \in Seq(LogRecord) /\ tail \in Seq(LogRecord) /\ next_lsn \in Nat
  /\ kv \in [Keys -> Values \cup {KeyText, Absent}]
  /\ txn \in [Txns -> [at : {"new", "active", "prepared", "ended"}, prev : Nat \cup {INVALID_LSN}]]
  /\ owner \in [Keys -> Txns \cup {InvalidTxn}]
  /\ phase \in {"normal", "redo", "undo", "abort"}
  /\ offset \in Nat /\ inner \in 0..BufferSize /\ crashes \in 0..MaxCrashes
  /\ DOMAIN active_txn \subseteq Txns \cup {InvalidTxn}
  /\ phase = "undo" => undo_list \subseteq DOMAIN lsn_mapping
  /\ phase = "abort" => undo_list \subseteq DOMAIN active_txn

\* The log, on disk and not.
Log == disk \o tail

Winners(log) == {log[i].txn : i \in {j \in DOMAIN log : log[j].type = "COMMIT"}}

\* The value committed transactions gave a key last.
Committed(log, k) ==
  LET writes == {i \in DOMAIN log : log[i].txn \in Winners(log) /\ log[i].key = k}
  IN  IF writes = {} \/ log[Max(writes)].type = "DELETE" THEN Absent
      ELSE log[Max(writes)].value

\* Some transaction that did not commit deleted k.
LoserDeleted(k) ==
  \E i \in DOMAIN Log : Log[i].txn \notin Winners(Log) /\ Log[i].key = k /\ Log[i].type = "DELETE"

\* Some transaction that did not commit put k over a committed value: its
\* record does not tell the old value and Undo cannot restore it.
LoserOverwrote(k) ==
  \E i \in DOMAIN Log :
    /\ Log[i].txn \notin Winners(Log) /\ Log[i].key = k /\ Log[i].type = "INSERT"
    /\ Committed(SubSeq(Log, 1, i - 1), k) # Absent
    /\ ~ \E j \in 1..(i - 1) : Log[j].txn = Log[i].txn /\ Log[j].key = k /\ Log[j].type = "DELETE"

\* A prepared transaction of which no COMMIT is logged wrote k: whether it
\* committed only its coordinator knows.  The code does not ask it, as
\* AskCoordinatorTxnRes does in the Undo of the exercise document.
InDoubt(k) ==
  \E i, j \in DOMAIN Log :
    /\ Log[i].type = "PREPARED" /\ Log[i].txn \notin Winners(Log)
    /\ Log[j].txn = Log[i].txn /\ Log[j].key = k

\* In operation, however often the process stopped before and during recovery,
\* a key nobody is writing is there exactly when the committed transactions left
\* it there, and with the value they gave it.  Two things are outside of what
\* UndoLog does: old values of overwritten keys, and the value (not the
\* presence) of keys whose deletion was undone.  Keys in doubt are left out.
RecoveredState ==
  phase = "normal" =>
    \A k \in Keys : owner[k] = InvalidTxn /\ ~LoserOverwrote(k) /\ ~InDoubt(k) =>
      \/ kv[k] = Committed(Log, k)
      \/ LoserDeleted(k) /\ kv[k] = KeyText /\ Committed(Log, k) # Absent

\* Numbers stay consecutive over stops at any time, the records recovery writes
\* included: lsn_mapping_ and the chains of prev_lsn_ depend on it.
Records == LET log == Log IN {i \in 1..Len(log) : log[i] # Body}
LsnsConsecutive ==
  LET log == Log
      records == Records
  IN  \A i \in records : log[i].lsn = Cardinality({j \in records : j < i})

\* Recovery ends, whatever the cuts between read buffers and records, in a build
\* without assertions.
RecoveryEnds == phase # "normal" ~> phase = "normal"
=============================================================================
