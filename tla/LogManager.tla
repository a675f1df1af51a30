----------------------------- MODULE LogManager -----------------------------
(***************************************************************************)
(* The write-ahead log of src/src/recovery/log_manager.cpp and             *)
(* src/include/storage/LogStorage.h.  Worker threads append records to     *)
(* log_buffer_ under latch_ and wait for the flush thread when it is full; *)
(* the flush thread swaps the two buffers under the latch and writes the   *)
(* full one without it.  A record is represented by its log sequence       *)
(* number; its bytes only matter through its size.  The process may stop   *)
(* at any time; RecoveryManager::Redo then numbers on after the largest    *)
(* number in the file.                                                     *)
(***************************************************************************)
EXTENDS Integers, Sequences, FiniteSets, Functions

CONSTANTS Workers,     \* threads that append and flush
          Sizes,       \* sizes of log records
          BufferSize,  \* LOG_BUFFER_SIZE
          MaxLsn       \* bound: number of records ever in the log

ASSUME LogAssumption ==
  /\ BufferSize \in Nat \ {0}
  /\ Sizes \in SUBSET (1..(BufferSize - 1))
  /\ MaxLsn \in Nat

INVALID_LSN == -1

VARIABLES
  log_buffer,       \* records in log_buffer_, in order
  write_offset,     \* log_buffer_write_offset_
  flush_buffer,     \* records in flush_buffer_, in order
  next_lsn,         \* next_lsn_
  flush_lsn,        \* flush_lsn_, and the local lsn of the flush thread
  persistent_lsn,   \* persistent_lsn_
  needFlush,        \* needFlush_
  enable_flushing,  \* enable_flushing_
  flusher,          \* where the flush thread is
  worker,           \* where a worker is, with the size or lsn of its call
  woken,            \* operation_cv_ notified the worker
  disk,             \* records in the log file
  bad               \* badbit of log_file_

vars == <<log_buffer, write_offset, flush_buffer, next_lsn, flush_lsn, persistent_lsn,
          needFlush, enable_flushing, flusher, worker, woken, disk, bad>>

bufferVars == <<log_buffer, write_offset, next_lsn>>
flushVars == <<flush_buffer, flush_lsn, persistent_lsn, flusher, disk, bad>>

Idle == [at |-> "idle", arg |-> 0]

Init ==
  /\ log_buffer = <<>> /\ write_offset = 0 /\ flush_buffer = <<>>
  /\ next_lsn = 0 /\ flush_lsn = INVALID_LSN /\ persistent_lsn = INVALID_LSN
  /\ needFlush = FALSE /\ enable_flushing = TRUE
  /\ flusher = "wait"
  /\ worker = [w \in Workers |-> Idle]
  /\ woken = [w \in Workers |-> FALSE]
  /\ disk = <<>> /\ bad = FALSE

-----------------------------------------------------------------------------
(* AppendLogRecord *)

Fits(size) == write_offset + size < BufferSize

\* Mutated: the record gets the number before next_lsn_.
CopyRecord_Previous(size) ==
  /\ next_lsn' = next_lsn + 1
  /\ log_buffer' = Append(log_buffer, next_lsn - 1)
  /\ write_offset' = write_offset + size

\* Mutated: next_lsn_ is read and not advanced.
CopyRecord_SameLsn(size) ==
  /\ UNCHANGED next_lsn
  /\ log_buffer' = Append(log_buffer, next_lsn)
  /\ write_offset' = write_offset + size

\* The record gets its number and is copied behind the others.
CopyRecord(size) ==
  /\ next_lsn' = next_lsn + 1
  /\ log_buffer' = Append(log_buffer, next_lsn)
  /\ write_offset' = write_offset + size

AppendLogRecord(w, size) ==
  /\ worker[w].at = "idle" /\ enable_flushing
  /\ next_lsn + Cardinality({v \in Workers : worker[v].at = "blocked"}) < MaxLsn
  /\ \/ /\ Fits(size)
        /\ CopyRecord(size)
        /\ UNCHANGED <<needFlush, worker, woken>>
     \/ /\ ~Fits(size)
        /\ needFlush' = TRUE
        /\ worker' = [worker EXCEPT ![w] = [at |-> "blocked", arg |-> size]]
        /\ woken' = [woken EXCEPT ![w] = FALSE]
        /\ UNCHANGED bufferVars
  /\ UNCHANGED <<flushVars, enable_flushing>>

\* Mutated: appends without looking again.
ResumeAppend_NoRecheck(w) ==
  /\ worker[w].at = "blocked" /\ woken[w]
  /\ woken' = [woken EXCEPT ![w] = FALSE]
  /\ CopyRecord(worker[w].arg)
  /\ worker' = [worker EXCEPT ![w] = Idle]
  /\ UNCHANGED <<flushVars, needFlush, enable_flushing>>

\* A worker blocked on operation_cv_ looks at the buffer again.  One that wakes
\* without a notification finds no room: only a swap, which notifies, makes any.
ResumeAppend(w) ==
  /\ worker[w].at = "blocked" /\ woken[w]
  /\ woken' = [woken EXCEPT ![w] = FALSE]
  /\ \/ /\ Fits(worker[w].arg)
        /\ CopyRecord(worker[w].arg)
        /\ worker' = [worker EXCEPT ![w] = Idle]
     \/ /\ ~Fits(worker[w].arg)
        /\ UNCHANGED <<bufferVars, worker>>
  /\ UNCHANGED <<flushVars, needFlush, enable_flushing>>

-----------------------------------------------------------------------------
(* Flush *)

\* The numbers a worker may know: those AppendLogRecord has returned since the
\* process started, which are in a buffer or were published, and older ones.
KnownLsns == Range(log_buffer \o flush_buffer) \cup 0..persistent_lsn

\* A worker asks for the durability of a record it knows of.
Flush(w, lsn, force) ==
  /\ worker[w].at = "idle" /\ enable_flushing /\ lsn \in KnownLsns
  /\ worker' = [worker EXCEPT ![w] = [at |-> "flush", arg |-> lsn]]
  /\ needFlush' = (needFlush \/ force)
  /\ UNCHANGED <<bufferVars, flushVars, enable_flushing, woken>>

\* The loop on persistent_lsn_ ends.
FlushReturn(w) ==
  /\ worker[w].at = "flush" /\ persistent_lsn >= worker[w].arg
  /\ worker' = [worker EXCEPT ![w] = Idle]
  /\ UNCHANGED <<bufferVars, flushVars, needFlush, enable_flushing, woken>>

-----------------------------------------------------------------------------
(* The flush thread *)

\* Mutated: blocked workers are not notified.
SwapBuffer_NoNotify ==
  /\ flusher = "wait" /\ write_offset > 0
  /\ flush_buffer' = log_buffer
  /\ log_buffer' = <<>>
  /\ write_offset' = 0
  /\ flush_lsn' = next_lsn - 1
  /\ flusher' = "write"
  /\ UNCHANGED <<next_lsn, persistent_lsn, needFlush, enable_flushing, worker, woken, disk, bad>>

\* SwapBuffer and the statements around it, under the latch: the wait ended
\* by needFlush_ or by the timeout, and there is something in the buffer.
SwapBuffer ==
  /\ flusher = "wait" /\ write_offset > 0
  /\ flush_buffer' = log_buffer
  /\ log_buffer' = <<>>
  /\ write_offset' = 0
  /\ flush_lsn' = next_lsn - 1
  /\ woken' = [w \in Workers |-> worker[w].at = "blocked"]
  /\ flusher' = "write"
  /\ UNCHANGED <<next_lsn, persistent_lsn, needFlush, enable_flushing, worker, disk, bad>>

\* The file grows by a part of what WriteLog was given, in the order given.
WritePart ==
  /\ flusher = "write" /\ ~bad
  /\ \E n \in 1..(Len(flush_buffer) - 1) :
       /\ disk' = disk \o SubSeq(flush_buffer, 1, n)
       /\ flush_buffer' = SubSeq(flush_buffer, n + 1, Len(flush_buffer))
  /\ UNCHANGED <<bufferVars, flush_lsn, persistent_lsn, needFlush, enable_flushing, flusher,
                 worker, woken, bad>>

\* LogStorage::WriteLog ends.  The stream stays bad once a write has failed.
WriteLog ==
  /\ flusher = "write"
  /\ \/ /\ ~bad
        /\ disk' = disk \o flush_buffer
        /\ UNCHANGED bad
     \/ /\ bad' = TRUE
        /\ UNCHANGED disk
  /\ flusher' = "publish"
  /\ UNCHANGED <<bufferVars, flush_buffer, flush_lsn, persistent_lsn, needFlush,
                 enable_flushing, worker, woken>>

\* Mutated: reads next_lsn_ again after the write.
PublishPersistent_Reread ==
  /\ flusher = "publish"
  /\ persistent_lsn' = next_lsn - 1
  /\ flusher' = "clear"
  /\ UNCHANGED <<bufferVars, flush_buffer, flush_lsn, needFlush, enable_flushing, worker,
                 woken, disk, bad>>

\* Mutated: one record behind.
PublishPersistent_Behind ==
  /\ flusher = "publish"
  /\ persistent_lsn' = flush_lsn - 1
  /\ flusher' = "clear"
  /\ UNCHANGED <<bufferVars, flush_buffer, flush_lsn, needFlush, enable_flushing, worker,
                 woken, disk, bad>>

PublishPersistent ==
  /\ flusher = "publish"
  /\ persistent_lsn' = flush_lsn
  /\ flusher' = "clear"
  /\ UNCHANGED <<bufferVars, flush_buffer, flush_lsn, needFlush, enable_flushing, worker,
                 woken, disk, bad>>

\* needFlush_ is cleared, also when it was set again since the swap; then the
\* loop condition is tested.
ClearNeedFlush ==
  /\ flusher = "clear"
  /\ needFlush' = FALSE
  /\ flusher' = IF enable_flushing THEN "wait" ELSE "exited"
  /\ UNCHANGED <<bufferVars, flush_buffer, flush_lsn, persistent_lsn, enable_flushing, worker,
                 woken, disk, bad>>

\* The wait ended and there was nothing to flush.
EmptyWakeup ==
  /\ flusher = "wait" /\ write_offset = 0 /\ ~enable_flushing
  /\ flusher' = "exited"
  /\ UNCHANGED <<bufferVars, flush_buffer, flush_lsn, persistent_lsn, needFlush,
                 enable_flushing, worker, woken, disk, bad>>

\* The destructor, called when nobody uses the log any more.
StopFlushThread ==
  /\ enable_flushing
  /\ \A w \in Workers : worker[w].at = "idle"
  /\ enable_flushing' = FALSE
  /\ UNCHANGED <<bufferVars, flushVars, needFlush, worker, woken>>

-----------------------------------------------------------------------------

\* The process stops, anywhere, and starts again: LogManager is constructed
\* afresh and Redo sets next_lsn_ behind the largest number in the file.
Restart ==
  /\ log_buffer' = <<>> /\ write_offset' = 0 /\ flush_buffer' = <<>>
  /\ \E max \in Range(disk) \cup {INVALID_LSN} :
       /\ \A lsn \in Range(disk) : lsn <= max
       /\ next_lsn' = max + 1
  /\ flush_lsn' = INVALID_LSN /\ persistent_lsn' = INVALID_LSN
  /\ needFlush' = FALSE /\ enable_flushing' = TRUE
  /\ flusher' = "wait"
  /\ worker' = [w \in Workers |-> Idle]
  /\ woken' = [w \in Workers |-> FALSE]
  /\ bad' = FALSE
  /\ UNCHANGED disk

WorkerStep(w) ==
  \/ \E size \in Sizes : AppendLogRecord(w, size)
  \/ ResumeAppend(w)
  \/ \E lsn \in 0..(next_lsn - 1), force \in BOOLEAN : Flush(w, lsn, force)
  \/ FlushReturn(w)

FlushThread == SwapBuffer \/ WritePart \/ WriteLog \/ PublishPersistent \/ ClearNeedFlush \/ EmptyWakeup

Next == (\E w \in Workers : WorkerStep(w)) \/ FlushThread \/ StopFlushThread \/ Restart

Spec == Init /\ [][Next]_vars

\* The flush thread runs, its wait ends at the latest with LOG_TIMEOUT; a
\* notified worker gets the latch and a spinning one looks again.
Fairness ==
  /\ WF_vars(FlushThread)
  /\ \A w \in Workers : WF_vars(ResumeAppend(w)) /\ WF_vars(FlushReturn(w))

FairSpec == Spec /\ Fairness

-----------------------------------------------------------------------------
(* Properties *)

\* Every variable has its type.
TypeOK ==
  /\ log_buffer \in Seq(Nat) /\ flush_buffer \in Seq(Nat) /\ disk \in Seq(Nat)
  /\ write_offset \in Nat /\ next_lsn \in Nat
  /\ flush_lsn \in Nat \cup {INVALID_LSN} /\ persistent_lsn \in Nat \cup {INVALID_LSN}
  /\ needFlush \in BOOLEAN /\ enable_flushing \in BOOLEAN /\ bad \in BOOLEAN
  /\ flusher \in {"wait", "write", "publish", "clear", "exited"}
  /\ worker \in [Workers -> [at : {"idle", "blocked", "flush"}, arg : Nat]]
  /\ woken \in [Workers -> BOOLEAN]

\* The records that would be lost by a stop now and can still get to the file:
\* those in log_buffer_, behind those the flush thread has taken and not yet
\* written.  After a failed write nothing gets to the file any more.
Unwritten ==
  IF bad THEN <<>>
  ELSE (IF flusher = "write" THEN flush_buffer ELSE <<>>) \o log_buffer

Log == INSTANCE DurableLog WITH durable <- disk, volatile <- Unwritten

\* The two buffers, the swap and the file never lose, repeat or reorder a
\* record: together they are one log without gaps of which the file is a prefix,
\* over appends of several threads, swaps, partial and failed writes and
\* restarts.
ImplementsDurableLog == Log!LogSpec

\* A record up to persistent_lsn_ is in the file: what Flush waits for is true
\* when it returns.
PersistentOnDisk ==
  \A lsn \in 0..persistent_lsn : lsn \in Range(disk)

\* So it is as long as no write has failed.
PersistentUnlessFailed == bad \/ PersistentOnDisk

\* The records in the buffer end before its last byte, also when several
\* blocked workers are woken by the same swap.
BufferNotOverrun == write_offset < BufferSize

\* While a worker waits for room in a full buffer the log does not stand still:
\* it gets room itself, other workers append, or the process stops.
AppendsProgress ==
  \A w \in Workers, n \in 0..MaxLsn :
    (worker[w].at = "blocked" /\ next_lsn = n)
      ~> (worker[w].at # "blocked" \/ next_lsn # n)

\* Flush returns although needFlush_ may be cleared after a request was made
\* and before it was served.
FlushReturns ==
  \A w \in Workers : worker[w].at = "flush" ~> worker[w].at # "flush"
=============================================================================
