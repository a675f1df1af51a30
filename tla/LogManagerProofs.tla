-------------------------- MODULE LogManagerProofs --------------------------
(***************************************************************************)
(* The log manager keeps one log without gaps and tells the truth about    *)
(* what is in the file, for any number of workers, any buffer size and any *)
(* sizes of records that fit into it.                                      *)
(***************************************************************************)
EXTENDS LogManager, SequenceTheorems, TLAPS

(***************************************************************************)
(* The inductive invariant.                                                *)
(***************************************************************************)

\* The records of s are numbered from n on.
Numbered(s, n) == \A i \in 1..Len(s) : s[i] = n + i - 1

\* What the flush thread has taken and not yet written.
Taken == IF flusher = "write" THEN flush_buffer ELSE <<>>

\* File, taken records and buffer are numbered one after the other, and
\* next_lsn_ is the number after the last.
OneLog ==
  /\ Numbered(disk, 0)
  /\ ~bad => /\ Numbered(Taken, Len(disk))
             /\ Numbered(log_buffer, Len(disk) + Len(Taken))
             /\ next_lsn = Len(disk) + Len(Taken) + Len(log_buffer)

\* flush_lsn_ is the last record taken, persistent_lsn_ one in the file.
LsnsTrue ==
  ~bad => /\ persistent_lsn < Len(disk)
          /\ flusher = "write" => flush_lsn = Len(disk) + Len(flush_buffer) - 1
          /\ flusher = "publish" => flush_lsn = Len(disk) - 1

LogInv == TypeOK /\ BufferNotOverrun /\ OneLog /\ LsnsTrue

(***************************************************************************)
(* Numbered sequences.                                                     *)
(***************************************************************************)

LEMMA NumberedEmpty ==
  ASSUME NEW n PROVE Numbered(<<>>, n)
BY DEF Numbered

LEMMA NumberedAppend ==
  ASSUME NEW s \in Seq(Nat), NEW n \in Nat, Numbered(s, n)
  PROVE  /\ Append(s, n + Len(s)) \in Seq(Nat)
         /\ Len(Append(s, n + Len(s))) = Len(s) + 1
         /\ Numbered(Append(s, n + Len(s)), n)
BY DEF Numbered

LEMMA NumberedConcat ==
  ASSUME NEW s \in Seq(Nat), NEW t \in Seq(Nat), NEW n \in Nat,
         Numbered(s, n), Numbered(t, n + Len(s))
  PROVE  /\ s \o t \in Seq(Nat)
         /\ Len(s \o t) = Len(s) + Len(t)
         /\ Numbered(s \o t, n)
<1>1. /\ s \o t \in Seq(Nat)
      /\ Len(s \o t) = Len(s) + Len(t)
      /\ \A i \in 1 .. Len(s) + Len(t) : (s \o t)[i] = IF i <= Len(s) THEN s[i] ELSE t[i - Len(s)]
  BY ConcatProperties
<1>2. ASSUME NEW i \in 1..Len(s \o t)
      PROVE  (s \o t)[i] = n + i - 1
  <2>1. Len(s) \in Nat /\ Len(t) \in Nat
    OBVIOUS
  <2>2. CASE i <= Len(s)
    BY <1>1, <2>1, <2>2 DEF Numbered
  <2>3. CASE i > Len(s)
    <3>1. i - Len(s) \in 1..Len(t)
      BY <1>1, <2>1, <2>3
    <3>2. t[i - Len(s)] = n + Len(s) + (i - Len(s)) - 1
      BY <3>1 DEF Numbered
    <3> QED
      BY <1>1, <2>1, <2>3, <3>2
  <2> QED
    BY <2>1, <2>2, <2>3
<1> QED
  BY <1>1, <1>2 DEF Numbered

\* The same for the file, which is numbered from 0.
LEMMA FileGrows ==
  ASSUME NEW s \in Seq(Nat), NEW t \in Seq(Nat), Numbered(s, 0), Numbered(t, Len(s))
  PROVE  s \o t \in Seq(Nat) /\ Len(s \o t) = Len(s) + Len(t) /\ Numbered(s \o t, 0)
<1>1. 0 \in Nat /\ 0 + Len(s) = Len(s)
  OBVIOUS
<1>2. Numbered(t, 0 + Len(s))
  BY Zenon, <1>1
<1> QED
  BY Zenon, <1>1, <1>2, NumberedConcat

\* A numbered sequence cut in two.
LEMMA NumberedCut ==
  ASSUME NEW s \in Seq(Nat), NEW n \in Nat, Numbered(s, n), NEW k \in 1..(Len(s) - 1)
  PROVE  /\ SubSeq(s, 1, k) \in Seq(Nat) /\ Len(SubSeq(s, 1, k)) = k
         /\ Numbered(SubSeq(s, 1, k), n)
         /\ SubSeq(s, k + 1, Len(s)) \in Seq(Nat) /\ Len(SubSeq(s, k + 1, Len(s))) = Len(s) - k
         /\ Numbered(SubSeq(s, k + 1, Len(s)), n + k)
<1>1. Len(s) \in Nat /\ k \in Nat /\ 1 <= k /\ k < Len(s) /\ \A i \in 1..Len(s) : s[i] \in Nat
  OBVIOUS
<1>2. /\ SubSeq(s, 1, k) \in Seq(Nat) /\ Len(SubSeq(s, 1, k)) = k
      /\ \A i \in 1..k : SubSeq(s, 1, k)[i] = s[i]
  BY <1>1
<1>3. /\ SubSeq(s, k + 1, Len(s)) \in Seq(Nat) /\ Len(SubSeq(s, k + 1, Len(s))) = Len(s) - k
      /\ \A i \in 1..(Len(s) - k) : SubSeq(s, k + 1, Len(s))[i] = s[k + i]
  BY <1>1
<1>4. Numbered(SubSeq(s, 1, k), n)
  BY <1>1, <1>2 DEF Numbered
<1>5. Numbered(SubSeq(s, k + 1, Len(s)), n + k)
  BY <1>1, <1>3 DEF Numbered
<1> QED
  BY <1>2, <1>3, <1>4, <1>5

\* Sequences that are numbered from the same number on and as long are equal.
LEMMA NumberedEqual ==
  ASSUME NEW s \in Seq(Nat), NEW t \in Seq(Nat), NEW n \in Nat,
         Numbered(s, n), Numbered(t, n), Len(s) = Len(t)
  PROVE  s = t
<1>1. \A i \in 1..Len(s) : s[i] = t[i]
  BY DEF Numbered
<1> QED
  BY <1>1, SeqEqual

(***************************************************************************)
(* The invariant is inductive.                                             *)
(***************************************************************************)

LEMMA LogInvInit ==
  Init => LogInv
<1> SUFFICES ASSUME Init PROVE LogInv
  OBVIOUS
<1>1. TypeOK /\ BufferNotOverrun
  <2>1. TypeOK
    <3>1. woken \in [Workers -> BOOLEAN]
      BY Zenon DEF Init
    <3>2. worker \in [Workers -> [at : {"idle", "blocked", "flush"}, arg : Nat]]
      BY DEF Init, Idle
    <3>3. log_buffer \in Seq(Nat) /\ flush_buffer \in Seq(Nat) /\ disk \in Seq(Nat)
      BY EmptySeq DEF Init
    <3> QED
      BY <3>1, <3>2, <3>3 DEF Init, TypeOK, INVALID_LSN
  <2>2. BufferNotOverrun
    BY LogAssumption DEF Init, BufferNotOverrun
  <2> QED
    BY <2>1, <2>2
<1>2. Taken = <<>> /\ disk = <<>> /\ log_buffer = <<>> /\ next_lsn = 0 /\ Len(<<>>) = 0
  BY DEF Init, Taken
<1>3. OneLog
  BY <1>2, NumberedEmpty DEF OneLog
<1>4. LsnsTrue
  BY <1>2 DEF Init, LsnsTrue, INVALID_LSN
<1> QED
  BY <1>1, <1>3, <1>4 DEF LogInv

\* A record copied behind the others keeps the numbering and, where it fits,
\* the buffer.
LEMMA CopyKeepsLog ==
  ASSUME LogInv, NEW size \in Nat, Fits(size), CopyRecord(size), UNCHANGED flushVars
  PROVE  /\ log_buffer' \in Seq(Nat) /\ write_offset' \in Nat /\ next_lsn' \in Nat
         /\ BufferNotOverrun' /\ OneLog' /\ LsnsTrue'
<1> USE DEF LogInv, CopyRecord, flushVars
<1>1. log_buffer' \in Seq(Nat) /\ write_offset' \in Nat /\ next_lsn' \in Nat
  BY DEF TypeOK
<1>2. BufferNotOverrun'
  BY DEF BufferNotOverrun, Fits
<1>3. LsnsTrue'
  BY DEF LsnsTrue
<1>4. Taken' = Taken /\ Taken \in Seq(Nat)
  BY DEF Taken, TypeOK
<1>5. OneLog'
  <2>1. CASE bad
    BY <2>1 DEF OneLog, Numbered
  <2>2. CASE ~bad
    <3> DEFINE n == Len(disk) + Len(Taken)
    <3>1. n \in Nat /\ Numbered(log_buffer, n) /\ next_lsn = n + Len(log_buffer)
      BY <1>4, <2>2 DEF OneLog, TypeOK
    <3>2. log_buffer \in Seq(Nat)
      BY DEF TypeOK
    <3>3. Numbered(log_buffer', n) /\ Len(log_buffer') = Len(log_buffer) + 1
      BY <3>1, <3>2, NumberedAppend
    <3>4. next_lsn' = n + Len(log_buffer')
      BY <3>1, <3>2, <3>3
    <3>5. Numbered(disk, 0)' /\ Numbered(Taken', Len(disk'))
      BY <1>4, <2>2 DEF OneLog, Numbered
    <3> QED
      BY <1>4, <3>3, <3>4, <3>5 DEF OneLog, Numbered
  <2> QED
    BY <2>1, <2>2 DEF TypeOK
<1> QED
  BY <1>1, <1>2, <1>3, <1>5

\* Steps that leave buffers, file and numbers alone.
LEMMA QuietKeepsLog ==
  ASSUME LogInv, UNCHANGED <<bufferVars, flushVars>>
  PROVE  BufferNotOverrun' /\ OneLog' /\ LsnsTrue'
BY DEF LogInv, bufferVars, flushVars, BufferNotOverrun, OneLog, LsnsTrue, Taken, Numbered

LEMMA WorkerKeepsLog ==
  ASSUME LogInv, NEW w \in Workers, WorkerStep(w)
  PROVE  LogInv'
<1>1. ASSUME NEW size \in Sizes, AppendLogRecord(w, size)
      PROVE  LogInv'
  <2>0. size \in Nat
    BY LogAssumption
  <2>1. CASE Fits(size) /\ CopyRecord(size) /\ UNCHANGED <<needFlush, worker, woken>>
    <3>1. UNCHANGED flushVars /\ UNCHANGED enable_flushing
      BY <1>1 DEF AppendLogRecord
    <3>2. /\ log_buffer' \in Seq(Nat) /\ write_offset' \in Nat /\ next_lsn' \in Nat
          /\ BufferNotOverrun' /\ OneLog' /\ LsnsTrue'
      BY <2>0, <2>1, <3>1, CopyKeepsLog
    <3>3. TypeOK'
      BY <2>1, <3>1, <3>2 DEF LogInv, TypeOK, flushVars
    <3> QED
      BY <3>2, <3>3 DEF LogInv
  <2>2. CASE /\ needFlush' = TRUE
             /\ worker' = [worker EXCEPT ![w] = [at |-> "blocked", arg |-> size]]
             /\ woken' = [woken EXCEPT ![w] = FALSE]
             /\ UNCHANGED bufferVars
    <3>1. UNCHANGED flushVars /\ UNCHANGED enable_flushing
      BY <1>1 DEF AppendLogRecord
    <3>2. TypeOK'
      BY <2>0, <2>2, <3>1 DEF LogInv, TypeOK, flushVars, bufferVars
    <3> QED
      BY <2>2, <3>1, <3>2, QuietKeepsLog DEF LogInv
  <2> QED
    BY <1>1, <2>1, <2>2 DEF AppendLogRecord
<1>2. CASE ResumeAppend(w)
  <2>0. worker[w].arg \in Nat
    BY DEF LogInv, TypeOK
  <2>1. UNCHANGED flushVars /\ UNCHANGED <<needFlush, enable_flushing>>
        /\ woken' = [woken EXCEPT ![w] = FALSE]
    BY <1>2 DEF ResumeAppend
  <2>2. CASE Fits(worker[w].arg) /\ CopyRecord(worker[w].arg) /\ worker' = [worker EXCEPT ![w] = Idle]
    <3>1. /\ log_buffer' \in Seq(Nat) /\ write_offset' \in Nat /\ next_lsn' \in Nat
          /\ BufferNotOverrun' /\ OneLog' /\ LsnsTrue'
      BY <2>0, <2>1, <2>2, CopyKeepsLog
    <3>2. TypeOK'
      BY <2>1, <2>2, <3>1 DEF LogInv, TypeOK, flushVars, Idle
    <3> QED
      BY <3>1, <3>2 DEF LogInv
  <2>3. CASE UNCHANGED <<bufferVars, worker>>
    <3>1. TypeOK'
      BY <2>1, <2>3 DEF LogInv, TypeOK, flushVars, bufferVars
    <3> QED
      BY <2>1, <2>3, <3>1, QuietKeepsLog DEF LogInv
  <2> QED
    BY <1>2, <2>2, <2>3 DEF ResumeAppend
<1>3. ASSUME NEW lsn \in 0..(next_lsn - 1), NEW force \in BOOLEAN, Flush(w, lsn, force)
      PROVE  LogInv'
  <2>1. lsn \in Nat /\ (needFlush \/ force) \in BOOLEAN
    BY DEF LogInv, TypeOK
  <2>2. TypeOK'
    BY <1>3, <2>1 DEF LogInv, TypeOK, Flush, flushVars, bufferVars
  <2> QED
    BY <1>3, <2>2, QuietKeepsLog DEF LogInv, Flush
<1>4. CASE FlushReturn(w)
  <2>1. TypeOK'
    BY <1>4 DEF LogInv, TypeOK, FlushReturn, flushVars, bufferVars, Idle
  <2> QED
    BY <1>4, <2>1, QuietKeepsLog DEF LogInv, FlushReturn
<1> QED
  BY <1>1, <1>2, <1>3, <1>4 DEF WorkerStep

LEMMA SwapKeepsLog ==
  ASSUME LogInv, SwapBuffer
  PROVE  LogInv'
<1> USE DEF LogInv, SwapBuffer
<1>1. woken' \in [Workers -> BOOLEAN]
  BY Zenon
<1>2. TypeOK'
  <2>1. flush_lsn' \in Nat \cup {INVALID_LSN}
    BY DEF TypeOK, INVALID_LSN
  <2> QED
    BY <1>1, <2>1, EmptySeq DEF TypeOK
<1>3. BufferNotOverrun'
  BY LogAssumption DEF BufferNotOverrun
<1>4. Taken = <<>> /\ Taken' = log_buffer /\ log_buffer' = <<>> /\ Len(<<>>) = 0
  BY DEF Taken
<1>5. OneLog'
  BY <1>4, NumberedEmpty DEF OneLog, TypeOK, Numbered
<1>6. LsnsTrue'
  BY <1>4 DEF LsnsTrue, OneLog, TypeOK
<1> QED
  BY <1>2, <1>3, <1>5, <1>6

LEMMA WritePartKeepsLog ==
  ASSUME LogInv, WritePart
  PROVE  LogInv'
<1>1. PICK n \in 1..(Len(flush_buffer) - 1) :
        /\ disk' = disk \o SubSeq(flush_buffer, 1, n)
        /\ flush_buffer' = SubSeq(flush_buffer, n + 1, Len(flush_buffer))
  BY DEF WritePart
<1>2. /\ flusher = "write" /\ ~bad /\ Taken = flush_buffer /\ Taken' = flush_buffer'
      /\ UNCHANGED <<bufferVars, flush_lsn, persistent_lsn, needFlush, enable_flushing, flusher,
                     worker, woken, bad>>
  BY DEF WritePart, Taken
<1>3. disk \in Seq(Nat) /\ flush_buffer \in Seq(Nat) /\ log_buffer \in Seq(Nat) /\ Len(disk) \in Nat
  BY DEF LogInv, TypeOK
<1>4. /\ Numbered(disk, 0) /\ Numbered(flush_buffer, Len(disk))
      /\ Numbered(log_buffer, Len(disk) + Len(flush_buffer))
      /\ next_lsn = Len(disk) + Len(flush_buffer) + Len(log_buffer)
  BY <1>2 DEF LogInv, OneLog
<1>5. /\ SubSeq(flush_buffer, 1, n) \in Seq(Nat) /\ Len(SubSeq(flush_buffer, 1, n)) = n
      /\ Numbered(SubSeq(flush_buffer, 1, n), Len(disk))
      /\ flush_buffer' \in Seq(Nat) /\ Len(flush_buffer') = Len(flush_buffer) - n
      /\ Numbered(flush_buffer', Len(disk) + n)
  BY <1>1, <1>3, <1>4, NumberedCut
<1>6. disk' \in Seq(Nat) /\ Len(disk') = Len(disk) + n /\ Numbered(disk', 0)
  <2> DEFINE part == SubSeq(flush_buffer, 1, n)
  <2>1. part \in Seq(Nat) /\ Len(part) = n /\ Numbered(part, Len(disk)) /\ disk' = disk \o part
    BY <1>1, <1>5
  <2> HIDE DEF part
  <2> QED
    BY <1>3, <1>4, <2>1, FileGrows
<1>7. TypeOK'
  BY <1>2, <1>5, <1>6 DEF LogInv, TypeOK, bufferVars
<1>8. BufferNotOverrun'
  BY <1>2 DEF LogInv, BufferNotOverrun, bufferVars
<1>9. Len(disk') + Len(flush_buffer') = Len(disk) + Len(flush_buffer)
  BY <1>3, <1>5, <1>6
<1>10. OneLog'
  <2>1. Numbered(disk, 0)' /\ Numbered(Taken', Len(disk'))
    BY <1>2, <1>5, <1>6 DEF Numbered
  <2>2. log_buffer' = log_buffer /\ next_lsn' = next_lsn
    BY <1>2 DEF bufferVars
  <2>3. Numbered(log_buffer', Len(disk') + Len(Taken')) /\ next_lsn' = Len(disk') + Len(Taken') + Len(log_buffer')
    BY <1>2, <1>4, <1>9, <2>2
  <2> QED
    BY <2>1, <2>3 DEF OneLog, Numbered, Taken
<1>11. LsnsTrue'
  BY <1>2, <1>3, <1>6, <1>9 DEF LogInv, LsnsTrue, TypeOK, INVALID_LSN
<1> QED
  BY <1>7, <1>8, <1>10, <1>11 DEF LogInv

LEMMA WriteLogKeepsLog ==
  ASSUME LogInv, WriteLog
  PROVE  LogInv'
<1>1. /\ flusher = "write" /\ flusher' = "publish" /\ Taken = flush_buffer /\ Taken' = <<>>
      /\ UNCHANGED <<bufferVars, flush_buffer, flush_lsn, persistent_lsn, needFlush,
                     enable_flushing, worker, woken>>
  BY DEF WriteLog, Taken
<1>2. disk \in Seq(Nat) /\ flush_buffer \in Seq(Nat) /\ log_buffer \in Seq(Nat) /\ Len(disk) \in Nat
      /\ Numbered(disk, 0)
  BY DEF LogInv, TypeOK, OneLog
<1>3. BufferNotOverrun'
  BY <1>1 DEF LogInv, BufferNotOverrun, bufferVars
<1>4. CASE ~bad /\ disk' = disk \o flush_buffer /\ UNCHANGED bad
  <2>1. /\ Numbered(flush_buffer, Len(disk)) /\ Numbered(log_buffer, Len(disk) + Len(flush_buffer))
        /\ next_lsn = Len(disk) + Len(flush_buffer) + Len(log_buffer)
    BY <1>1, <1>4 DEF LogInv, OneLog
  <2>2. disk' \in Seq(Nat) /\ Len(disk') = Len(disk) + Len(flush_buffer) /\ Numbered(disk', 0)
    BY <1>2, <1>4, <2>1, FileGrows
  <2>3. TypeOK'
    BY <1>1, <1>4, <2>2 DEF LogInv, TypeOK, bufferVars
  <2>4. OneLog'
    <3>1. log_buffer' = log_buffer /\ next_lsn' = next_lsn /\ Len(Taken') = 0 /\ Len(disk') \in Nat
      BY <1>1, <2>2 DEF bufferVars
    <3>2. Len(disk') + Len(Taken') = Len(disk) + Len(flush_buffer)
      BY <2>2, <3>1
    <3>3. Numbered(Taken', Len(disk'))
      BY <1>1, NumberedEmpty
    <3> QED
      BY <2>1, <2>2, <3>1, <3>2, <3>3 DEF OneLog, Numbered, Taken
  <2>5. LsnsTrue'
    BY <1>1, <1>2, <1>4, <2>2 DEF LogInv, LsnsTrue, TypeOK, INVALID_LSN
  <2> QED
    BY <1>3, <2>3, <2>4, <2>5 DEF LogInv
<1>5. CASE bad' = TRUE /\ UNCHANGED disk
  <2>1. TypeOK'
    BY <1>1, <1>5 DEF LogInv, TypeOK, bufferVars
  <2>2. OneLog' /\ LsnsTrue'
    BY <1>2, <1>5 DEF OneLog, LsnsTrue, Numbered
  <2> QED
    BY <1>3, <2>1, <2>2 DEF LogInv
<1> QED
  BY <1>4, <1>5 DEF WriteLog

LEMMA FlushThreadKeepsLog ==
  ASSUME LogInv, FlushThread
  PROVE  LogInv'
<1>1. CASE PublishPersistent
  <2> USE DEF LogInv, PublishPersistent
  <2>1. TypeOK'
    BY <1>1 DEF TypeOK, bufferVars
  <2>2. BufferNotOverrun' /\ OneLog'
    BY <1>1 DEF BufferNotOverrun, OneLog, Taken, Numbered, bufferVars
  <2>3. LsnsTrue'
    BY <1>1 DEF LsnsTrue, TypeOK
  <2> QED
    BY <2>1, <2>2, <2>3
<1>2. CASE ClearNeedFlush
  <2> USE DEF LogInv, ClearNeedFlush
  <2>1. TypeOK'
    BY <1>2 DEF TypeOK, bufferVars
  <2>2. BufferNotOverrun' /\ OneLog' /\ LsnsTrue'
    BY <1>2 DEF BufferNotOverrun, OneLog, LsnsTrue, Taken, Numbered, bufferVars
  <2> QED
    BY <2>1, <2>2
<1>3. CASE EmptyWakeup
  <2> USE DEF LogInv, EmptyWakeup
  <2>1. TypeOK'
    BY <1>3 DEF TypeOK, bufferVars
  <2>2. BufferNotOverrun' /\ OneLog' /\ LsnsTrue'
    BY <1>3 DEF BufferNotOverrun, OneLog, LsnsTrue, Taken, Numbered, bufferVars
  <2> QED
    BY <2>1, <2>2
<1> QED
  BY <1>1, <1>2, <1>3, SwapKeepsLog, WritePartKeepsLog, WriteLogKeepsLog DEF FlushThread

\* Redo numbers on behind the last record of the file.
LEMMA RestartNumbersOn ==
  ASSUME LogInv, Restart
  PROVE  next_lsn' = Len(disk)
<1>1. PICK max \in Range(disk) \cup {INVALID_LSN} :
        (\A lsn \in Range(disk) : lsn <= max) /\ next_lsn' = max + 1
  BY DEF Restart
<1>2. disk \in Seq(Nat) /\ Len(disk) \in Nat /\ DOMAIN disk = 1..Len(disk) /\ \A i \in 1..Len(disk) : disk[i] = i - 1
  BY DEF LogInv, TypeOK, OneLog, Numbered
<1>3. Range(disk) = {disk[i] : i \in 1..Len(disk)}
  BY <1>2 DEF Range
<1>4. CASE Len(disk) = 0
  BY <1>1, <1>3, <1>4 DEF INVALID_LSN
<1>5. CASE Len(disk) > 0
  <2>1. Len(disk) \in 1..Len(disk) /\ disk[Len(disk)] = Len(disk) - 1
    BY <1>2, <1>5
  <2>2. Len(disk) - 1 \in Range(disk)
    BY <1>3, <2>1
  <2>3. Len(disk) - 1 <= max
    BY <1>1, <2>2
  <2>4. max # INVALID_LSN
    BY <1>2, <1>5, <2>3 DEF INVALID_LSN
  <2>5. PICK i \in 1..Len(disk) : max = disk[i]
    BY <1>1, <1>3, <2>4
  <2> QED
    BY <1>1, <1>2, <2>3, <2>5
<1> QED
  BY <1>2, <1>4, <1>5

LEMMA RestartKeepsLog ==
  ASSUME LogInv, Restart
  PROVE  LogInv'
<1>1. next_lsn' = Len(disk) /\ disk' = disk /\ disk \in Seq(Nat) /\ Len(disk) \in Nat /\ Numbered(disk, 0)
  <2>1. next_lsn' = Len(disk)
    BY RestartNumbersOn
  <2>2. disk' = disk
    BY DEF Restart
  <2>3. disk \in Seq(Nat) /\ Len(disk) \in Nat /\ Numbered(disk, 0)
    BY DEF LogInv, TypeOK, OneLog
  <2> QED
    BY <2>1, <2>2, <2>3
<1>2. TypeOK'
  <2>1. woken' \in [Workers -> BOOLEAN]
    BY Zenon DEF Restart
  <2>2. worker' \in [Workers -> [at : {"idle", "blocked", "flush"}, arg : Nat]]
    BY DEF Restart, Idle
  <2>3. log_buffer' \in Seq(Nat) /\ flush_buffer' \in Seq(Nat)
    BY EmptySeq DEF Restart
  <2> QED
    BY <1>1, <2>1, <2>2, <2>3 DEF Restart, TypeOK
<1>3. BufferNotOverrun'
  BY LogAssumption DEF Restart, BufferNotOverrun
<1>4. Taken' = <<>> /\ log_buffer' = <<>> /\ Len(<<>>) = 0
  BY DEF Restart, Taken
<1>5. OneLog'
  BY <1>1, <1>4, NumberedEmpty DEF OneLog, Numbered
<1>6. LsnsTrue'
  BY <1>1 DEF Restart, LsnsTrue, INVALID_LSN
<1> QED
  BY <1>2, <1>3, <1>5, <1>6 DEF LogInv

LEMMA LogInvStep ==
  LogInv /\ [Next]_vars => LogInv'
<1> SUFFICES ASSUME LogInv, [Next]_vars PROVE LogInv'
  OBVIOUS
<1>1. CASE StopFlushThread
  <2>1. TypeOK'
    BY <1>1 DEF StopFlushThread, LogInv, TypeOK, bufferVars, flushVars
  <2> QED
    BY <1>1, <2>1, QuietKeepsLog DEF StopFlushThread, LogInv
<1>2. CASE UNCHANGED vars
  <2>1. TypeOK' /\ UNCHANGED <<bufferVars, flushVars>>
    BY <1>2 DEF vars, LogInv, TypeOK, bufferVars, flushVars
  <2> QED
    BY <2>1, QuietKeepsLog DEF LogInv
<1> QED
  BY <1>1, <1>2, WorkerKeepsLog, FlushThreadKeepsLog, RestartKeepsLog DEF Next

\* The invariant holds in every state the log manager reaches.
THEOREM LogInvAlways == Spec => []LogInv
BY LogInvInit, LogInvStep, PTL DEF Spec

(***************************************************************************)
(* What follows.                                                           *)
(***************************************************************************)

\* The buffer of AppendLogRecord never overruns, however many workers wake
\* up for the same room.
THEOREM BufferNeverOverrun == Spec => []BufferNotOverrun
<1>1. LogInv => BufferNotOverrun
  BY DEF LogInv
<1> QED
  BY <1>1, LogInvAlways, PTL

\* Every variable of the log manager always has its type.
THEOREM TypeCorrect == Spec => []TypeOK
<1>1. LogInv => TypeOK
  BY DEF LogInv
<1> QED
  BY <1>1, LogInvAlways, PTL

\* What Flush waits for is true when it returns, as long as no write failed:
\* everything up to persistent_lsn_ is in the file.
THEOREM PersistentIsOnDisk == Spec => []PersistentUnlessFailed
<1>1. LogInv => PersistentUnlessFailed
  <2> SUFFICES ASSUME LogInv, ~bad, NEW lsn \in 0..persistent_lsn
               PROVE  lsn \in Range(disk)
    BY DEF PersistentUnlessFailed, PersistentOnDisk
  <2>1. persistent_lsn \in Int /\ persistent_lsn < Len(disk) /\ Len(disk) \in Nat
    BY DEF LogInv, TypeOK, LsnsTrue, INVALID_LSN
  <2>2. lsn + 1 \in 1..Len(disk) /\ lsn \in Nat
    BY <2>1
  <2>3. disk[lsn + 1] = lsn
    BY <2>2 DEF LogInv, OneLog, Numbered
  <2>4. DOMAIN disk = 1..Len(disk)
    BY DEF LogInv, TypeOK
  <2> QED
    BY <2>2, <2>3, <2>4 DEF Range
<1> QED
  BY <1>1, LogInvAlways, PTL

(***************************************************************************)
(* The refinement.  Unwritten is numbered on behind the file, and so is    *)
(* what every step of DurableLog asks for: sequences of the same length    *)
(* are then the same.                                                      *)
(***************************************************************************)

LEMMA UnwrittenNumbered ==
  LogInv => /\ Unwritten \in Seq(Nat) /\ Numbered(Unwritten, Len(disk))
            /\ Len(Unwritten) = IF bad THEN 0 ELSE Len(Taken) + Len(log_buffer)
<1> SUFFICES ASSUME LogInv
             PROVE  /\ Unwritten \in Seq(Nat) /\ Numbered(Unwritten, Len(disk))
                    /\ Len(Unwritten) = IF bad THEN 0 ELSE Len(Taken) + Len(log_buffer)
  OBVIOUS
<1>1. Taken \in Seq(Nat) /\ log_buffer \in Seq(Nat) /\ Len(disk) \in Nat /\ bad \in BOOLEAN
  BY EmptySeq DEF LogInv, TypeOK, Taken
<1>2. CASE bad
  BY <1>2, NumberedEmpty, EmptySeq DEF Unwritten
<1>3. CASE ~bad
  <2>1. Unwritten = Taken \o log_buffer
    BY <1>3 DEF Unwritten, Taken
  <2>2. Numbered(Taken, Len(disk)) /\ Numbered(log_buffer, Len(disk) + Len(Taken))
    BY <1>3 DEF LogInv, OneLog
  <2> QED
    BY <1>1, <1>3, <2>1, <2>2, NumberedConcat
<1> QED
  BY <1>1, <1>2, <1>3

\* What LogNext needs to be told of a step: how the two lengths change.
LEMMA StepByLength ==
  ASSUME LogInv, LogInv'
  PROVE  /\ disk' = disk /\ Len(Unwritten') = Len(Unwritten) + 1 => Log!Extend
         /\ disk' = disk /\ Len(Unwritten') = 0 => Log!Lose
         /\ disk' = disk /\ Len(Unwritten') = Len(Unwritten) => Unwritten' = Unwritten
         /\ \A n \in 1..Len(Unwritten) :
              Len(disk') = Len(disk) + n /\ Len(Unwritten') = Len(Unwritten) - n => Log!Persist
<1>1. /\ Unwritten \in Seq(Nat) /\ Numbered(Unwritten, Len(disk))
      /\ disk \in Seq(Nat) /\ Numbered(disk, 0) /\ Len(disk) \in Nat
  BY UnwrittenNumbered DEF LogInv, TypeOK, OneLog
<1>2. /\ Unwritten' \in Seq(Nat) /\ Numbered(Unwritten', Len(disk'))
      /\ disk' \in Seq(Nat) /\ Numbered(disk', 0) /\ Len(disk') \in Nat
  <2>1. (Unwritten \in Seq(Nat) /\ Numbered(Unwritten, Len(disk)))'
    BY UnwrittenNumbered, PTL
  <2>2. disk' \in Seq(Nat) /\ Numbered(disk, 0)' /\ Len(disk') \in Nat
    BY DEF LogInv, TypeOK, OneLog
  <2> QED
    BY <2>1, <2>2 DEF Numbered
<1>3. ASSUME disk' = disk, Len(Unwritten') = Len(Unwritten) + 1
      PROVE  Log!Extend
  <2> DEFINE new == Append(Unwritten, Len(disk) + Len(Unwritten))
  <2>1. new \in Seq(Nat) /\ Len(new) = Len(Unwritten) + 1 /\ Numbered(new, Len(disk))
    BY <1>1, NumberedAppend
  <2> HIDE DEF new
  <2>2. Unwritten' = new
    BY <1>1, <1>2, <1>3, <2>1, NumberedEqual
  <2> QED
    BY <1>3, <2>2 DEF Log!Extend, new
<1>4. ASSUME disk' = disk, Len(Unwritten') = 0
      PROVE  Log!Lose
  <2>1. Unwritten' = <<>>
    BY <1>2, <1>4, EmptySeq
  <2> QED
    BY <1>4, <2>1 DEF Log!Lose
<1>5. ASSUME disk' = disk, Len(Unwritten') = Len(Unwritten)
      PROVE  Unwritten' = Unwritten
  BY <1>1, <1>2, <1>5, NumberedEqual
<1>6. ASSUME NEW n \in 1..Len(Unwritten), Len(disk') = Len(disk) + n,
             Len(Unwritten') = Len(Unwritten) - n
      PROVE  Log!Persist
  <2> DEFINE u == Unwritten
             front == SubSeq(u, 1, n)
             rest == SubSeq(u, n + 1, Len(u))
  <2>1. /\ front \in Seq(Nat) /\ Len(front) = n /\ Numbered(front, Len(disk))
        /\ rest \in Seq(Nat) /\ Len(rest) = Len(u) - n /\ Numbered(rest, Len(disk) + n)
    <3>1. CASE n < Len(u)
      <4>1. n \in 1..(Len(u) - 1)
        BY <1>1, <3>1
      <4> QED
        BY <1>1, <4>1, NumberedCut
    <3>2. CASE n = Len(u)
      <4>1. front = u
        BY <1>1, <3>2, SubSeqFull
      <4>2. rest = <<>> /\ <<>> \in Seq(Nat) /\ Len(<<>>) = 0
        BY <1>1, <3>2, SubSeqEmpty
      <4>3. Numbered(rest, Len(disk) + n)
        BY <4>2, NumberedEmpty
      <4> HIDE DEF front, rest
      <4> QED
        BY <1>1, <3>2, <4>1, <4>2, <4>3
    <3> QED
      BY <1>1, <3>1, <3>2
  <2> HIDE DEF front, rest
  <2>2. disk \o front \in Seq(Nat) /\ Len(disk \o front) = Len(disk) + n /\ Numbered(disk \o front, 0)
    BY <1>1, <2>1, FileGrows
  <2>3. disk' = disk \o front
    BY <1>2, <1>6, <2>2, NumberedEqual
  <2>4. Unwritten' = rest
    BY <1>1, <1>2, <1>6, <2>1, NumberedEqual
  <2> QED
    BY <2>3, <2>4 DEF Log!Persist, front, rest
<1> QED
  BY <1>3, <1>4, <1>5, <1>6

\* A worker extends the log or leaves it as it is.
LEMMA WorkerRefines ==
  ASSUME LogInv, LogInv', NEW w \in Workers, WorkerStep(w)
  PROVE  [Log!LogNext]_Log!logvars
<1>1. UNCHANGED flushVars
  BY DEF WorkerStep, AppendLogRecord, ResumeAppend, Flush, FlushReturn
<1>2. \/ log_buffer' = log_buffer
      \/ log_buffer' = Append(log_buffer, next_lsn)
  BY DEF WorkerStep, AppendLogRecord, ResumeAppend, Flush, FlushReturn, CopyRecord, bufferVars
<1>3. disk' = disk /\ bad' = bad /\ Taken' = Taken
  BY <1>1 DEF flushVars, Taken
<1>4. Len(Unwritten) = IF bad THEN 0 ELSE Len(Taken) + Len(log_buffer)
  BY UnwrittenNumbered
<1>5. (Len(Unwritten) = IF bad THEN 0 ELSE Len(Taken) + Len(log_buffer))'
  BY UnwrittenNumbered, PTL
<1>6. Taken \in Seq(Nat) /\ log_buffer \in Seq(Nat) /\ next_lsn \in Nat
  BY EmptySeq DEF LogInv, TypeOK, Taken
<1>7. Len(log_buffer') \in {Len(log_buffer), Len(log_buffer) + 1}
  BY <1>2, <1>6, AppendProperties
<1>8. Len(Unwritten') \in {Len(Unwritten), Len(Unwritten) + 1}
  BY <1>3, <1>4, <1>5, <1>6, <1>7
<1> QED
  BY <1>3, <1>8, StepByLength DEF Log!LogNext, Log!logvars

\* The flush thread makes records durable, and loses the volatile ones when
\* a write fails.
LEMMA FlushThreadRefines ==
  ASSUME LogInv, LogInv', FlushThread
  PROVE  [Log!LogNext]_Log!logvars
<1>1. Len(Unwritten) = IF bad THEN 0 ELSE Len(Taken) + Len(log_buffer)
  BY UnwrittenNumbered
<1>2. (Len(Unwritten) = IF bad THEN 0 ELSE Len(Taken) + Len(log_buffer))'
  BY UnwrittenNumbered, PTL
<1>3. /\ Len(flush_buffer) \in Nat /\ Len(log_buffer) \in Nat /\ Len(disk) \in Nat /\ Len(<<>>) = 0
      /\ flush_buffer \in Seq(Nat) /\ disk \in Seq(Nat)
  BY DEF LogInv, TypeOK
<1>4. CASE SwapBuffer \/ PublishPersistent \/ ClearNeedFlush \/ EmptyWakeup
  <2>1. disk' = disk /\ bad' = bad
    BY <1>4 DEF SwapBuffer, PublishPersistent, ClearNeedFlush, EmptyWakeup
  <2>2. Len(Taken') + Len(log_buffer') = Len(Taken) + Len(log_buffer)
    BY <1>3, <1>4 DEF SwapBuffer, PublishPersistent, ClearNeedFlush, EmptyWakeup, Taken, bufferVars
  <2>3. Len(Unwritten') = Len(Unwritten)
    BY <1>1, <1>2, <2>1, <2>2
  <2> QED
    BY <2>1, <2>3, StepByLength DEF Log!logvars
<1>5. CASE WritePart
  <2>1. PICK n \in 1..(Len(flush_buffer) - 1) :
          /\ disk' = disk \o SubSeq(flush_buffer, 1, n)
          /\ flush_buffer' = SubSeq(flush_buffer, n + 1, Len(flush_buffer))
    BY <1>5 DEF WritePart
  <2>2. /\ ~bad /\ ~bad' /\ Taken = flush_buffer /\ Taken' = flush_buffer' /\ log_buffer' = log_buffer
    BY <1>5 DEF WritePart, Taken, bufferVars
  <2>3. Numbered(flush_buffer, Len(disk)) /\ Numbered(disk, 0)
    BY <2>2 DEF LogInv, OneLog
  <2> DEFINE part == SubSeq(flush_buffer, 1, n)
  <2>4. part \in Seq(Nat) /\ Len(part) = n /\ Numbered(part, Len(disk)) /\ Len(flush_buffer') = Len(flush_buffer) - n
    BY <1>3, <2>1, <2>3, NumberedCut
  <2>5. disk' = disk \o part
    BY <2>1
  <2> HIDE DEF part
  <2>6. Len(disk') = Len(disk) + n
    BY <1>3, <2>3, <2>4, <2>5, FileGrows
  <2>7. Len(Unwritten') = Len(Unwritten) - n /\ n \in 1..Len(Unwritten)
    BY <1>1, <1>2, <1>3, <2>2, <2>4
  <2> QED
    BY <2>6, <2>7, StepByLength DEF Log!LogNext
<1>6. CASE WriteLog
  <2>1. /\ Taken = flush_buffer /\ Len(Taken') = 0 /\ log_buffer' = log_buffer
    BY <1>3, <1>6 DEF WriteLog, Taken, bufferVars
  <2>2. CASE bad' = TRUE /\ disk' = disk
    <3>1. Len(Unwritten') = 0
      BY <1>2, <2>2
    <3> QED
      BY <2>2, <3>1, StepByLength DEF Log!LogNext
  <2>3. CASE ~bad /\ disk' = disk \o flush_buffer /\ bad' = bad
    <3>1. Numbered(flush_buffer, Len(disk)) /\ Numbered(disk, 0)
      BY <2>1, <2>3 DEF LogInv, OneLog
    <3>2. Len(disk') = Len(disk) + Len(flush_buffer)
      BY <1>3, <2>3, <3>1, FileGrows
    <3>3. Len(Unwritten') = Len(Unwritten) - Len(flush_buffer) /\ Len(flush_buffer) <= Len(Unwritten)
      BY <1>1, <1>2, <1>3, <2>1, <2>3
    <3>4. CASE Len(flush_buffer) = 0
      <4>1. disk' = disk
        BY <1>3, <2>3, <3>4, EmptySeq, ConcatEmptySeq
      <4>2. Len(Unwritten') = Len(Unwritten)
        BY <1>1, <1>2, <1>3, <2>1, <2>3, <3>4
      <4> QED
        BY <4>1, <4>2, StepByLength DEF Log!logvars
    <3>5. CASE Len(flush_buffer) > 0
      <4>1. Len(Unwritten) \in Nat
        BY <1>1, <1>3, <2>1
      <4>2. Len(flush_buffer) \in 1..Len(Unwritten)
        BY <1>3, <3>3, <3>5, <4>1
      <4> QED
        BY <3>2, <3>3, <4>2, StepByLength DEF Log!LogNext
    <3> QED
      BY <1>3, <3>4, <3>5
  <2> QED
    BY <1>6, <2>2, <2>3 DEF WriteLog
<1> QED
  BY <1>4, <1>5, <1>6 DEF FlushThread

\* Buffers, flush thread and file implement a log without gaps of which a
\* prefix is durable: no record is lost, repeated or reordered by the swap, by
\* partial and failed writes or by restarts.
THEOREM LogIsDurable == Spec => ImplementsDurableLog
<1>1. Init => Log!LogInit
  <2> SUFFICES ASSUME Init PROVE Log!LogInit
    OBVIOUS
  <2>1. Unwritten = log_buffer \o <<>> \/ Unwritten = <<>> \o log_buffer
    BY DEF Init, Unwritten
  <2>2. Unwritten = <<>> /\ disk = <<>>
    BY <2>1, EmptySeq, ConcatEmptySeq DEF Init
  <2> QED
    BY <2>2 DEF Log!LogInit
<1>2. LogInv /\ LogInv' /\ [Next]_vars => [Log!LogNext]_Log!logvars
  <2> SUFFICES ASSUME LogInv, LogInv', [Next]_vars
               PROVE  [Log!LogNext]_Log!logvars
    OBVIOUS
  <2>1. CASE Restart
    <3>1. disk' = disk /\ flusher' = "wait" /\ log_buffer' = <<>> /\ bad' = FALSE /\ Len(<<>>) = 0
      BY <2>1 DEF Restart
    <3>2. (Len(Unwritten) = IF bad THEN 0 ELSE Len(Taken) + Len(log_buffer))'
      BY UnwrittenNumbered, PTL
    <3>3. Len(Unwritten') = 0
      BY <3>1, <3>2 DEF Taken
    <3> QED
      BY <3>1, <3>3, StepByLength DEF Log!LogNext
  <2>2. CASE StopFlushThread \/ UNCHANGED vars
    BY <2>2 DEF StopFlushThread, vars, bufferVars, flushVars, Unwritten, Log!logvars
  <2> QED
    BY <2>1, <2>2, WorkerRefines, FlushThreadRefines DEF Next
<1> QED
  BY <1>1, <1>2, LogInvAlways, PTL DEF Spec, ImplementsDurableLog, Log!LogSpec
=============================================================================
