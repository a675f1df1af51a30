-------------------------- MODULE RecoveryProofs --------------------------
(***************************************************************************)
(* The log stays numbered and chained over stops at any time, a record     *)
(* undone is one that was read, and recovery leaves what the committed     *)
(* transactions left, for any transactions, keys, values, sizes of the     *)
(* read buffer and numbers of stops.                                       *)
(***************************************************************************)
EXTENDS Recovery, FiniteSetTheorems, WellFoundedInduction, TLAPS

(***************************************************************************)
(* The log, by the places of its records.                                  *)
(***************************************************************************)

Recs == Records
Ending == {"COMMIT", "ABORT"}
Open == {"BEGIN", "INSERT", "DELETE"}
Written == Open \cup Ending \cup {"PREPARED"}

By(t) == {i \in Recs : Log[i].txn = t}
Ends(t) == {i \in By(t) : Log[i].type \in Ending}
Opens(t) == {i \in By(t) : Log[i].type \in Open}
On(k) == {i \in Recs : Log[i].key = k}
OnBy(t, k) == {i \in On(k) : Log[i].txn = t}

First(S, i) == i \in S /\ \A j \in S : i <= j
Last(S, i) == i \in S /\ \A j \in S : j <= i

\* What a record of a key does to it, and what undoes it.
Stored(r) == IF r.type = "DELETE" THEN Absent ELSE r.value
Undoes(r, s) == r.type # s.type /\ r.value = s.value

\* A header and its body; fields have what the kind of record has.
Shaped ==
  /\ \A i \in Recs :
       /\ Log[i].type \in Written /\ Log[i].lsn \in Nat
       /\ Log[i].key \in Keys <=> Log[i].type \in {"INSERT", "DELETE"}
       /\ Log[i].key \in Keys => Log[i].txn \in Txns
       /\ Log[i].key \in Keys => Log[i].value # Absent
       /\ Log[i].type \in Open \cup {"PREPARED"} => Log[i].txn \in Txns
       /\ Size(Log[i]) = 2 => i + 1 <= Len(Log) /\ Log[i + 1] = Body
  /\ \A i \in 1..Len(Log) : Log[i] = Body =>
       i - 1 \in Recs /\ Size(Log[i - 1]) = 2

Numbered ==
  /\ \A i, j \in Recs : i < j => Log[i].lsn < Log[j].lsn
  /\ \A i \in Recs : \A l \in 0..Log[i].lsn : \E j \in Recs : Log[j].lsn = l

\* prev_lsn_ leads through the writes of a transaction, none left out.
ChainAt(t, i) ==
  /\ Log[i].prev = INVALID_LSN => \A j \in Opens(t) : j >= i
  /\ Log[i].prev # INVALID_LSN =>
       \E j \in Opens(t) :
         /\ j < i /\ Log[j].lsn = Log[i].prev
         /\ \A m \in Opens(t) : m <= j \/ m >= i
Chained == \A t \in Txns : \A i \in Opens(t) : ChainAt(t, i)

\* A transaction writes nothing after it ended, and nobody writes a key that
\* a transaction wrote that has not ended.
Closed == \A t \in Txns : \A r \in Ends(t) : \A i \in By(t) : i <= r
Blocks ==
  \A t \in Txns, k \in Keys : \A i \in OnBy(t, k), j \in On(k) :
    i < j /\ Log[j].txn # t => \E r \in Ends(t) : r < j

\* Everything an aborted transaction did is undone.
UndoneBy(t) ==
  \A k \in Keys : \A f, m \in OnBy(t, k) :
    First(OnBy(t, k), f) /\ Last(OnBy(t, k), m) => Undoes(Log[m], Log[f])
Aborted == \A t \in Txns : \A r \in Ends(t) : Log[r].type = "ABORT" => UndoneBy(t)

\* The committed value of a key after the first n cells, and whether one was
\* overwritten.
WinTo(n) == {Log[i].txn : i \in {j \in Recs : j <= n /\ Log[j].type = "COMMIT"}}
WonTo(n, k) == {i \in On(k) : i <= n /\ Log[i].txn \in WinTo(n)}
ComTo(n, k) ==
  IF WonTo(n, k) = {} \/ Log[Max(WonTo(n, k))].type = "DELETE" THEN Absent
  ELSE Log[Max(WonTo(n, k))].value
OverTo(n, k) ==
  \E i \in On(k) :
    /\ i <= n /\ Log[i].txn \notin WinTo(n) /\ Log[i].type = "INSERT"
    /\ ComTo(i - 1, k) # Absent
    /\ ~ \E j \in OnBy(Log[i].txn, k) : j < i /\ Log[j].type = "DELETE"

\* The first deletion of a key by a transaction tells its committed value.
Deletes ==
  \A t \in Txns, k \in Keys : \A f \in OnBy(t, k) :
    First(OnBy(t, k), f) /\ Log[f].type = "DELETE" =>
      \/ OverTo(f - 1, k)
      \/ /\ ComTo(f - 1, k) # Absent
         /\ Log[f].value \in {ComTo(f - 1, k), KeyText}

LogInv == Shaped /\ Numbered /\ Chained /\ Closed /\ Blocks /\ Aborted /\ Deletes

(***************************************************************************)
(* The running server.                                                     *)
(***************************************************************************)

\* Transactions.
TxnOK(t) ==
  /\ txn[t].at = "new" => By(t) = {} /\ txn[t].prev = INVALID_LSN
  /\ txn[t].at \in {"active", "prepared"} => phase = "normal" /\ Ends(t) = {}
  /\ txn[t].at = "active" =>
       \E i \in Opens(t) : Last(By(t), i) /\ Log[i].lsn = txn[t].prev
TxnsOK == \A t \in Txns : TxnOK(t)

OwnersOK ==
  /\ \A k \in Keys : owner[k] # InvalidTxn =>
       txn[owner[k]].at \in {"active", "prepared"} /\ OnBy(owner[k], k) # {}
  /\ phase = "normal" =>
       \A t \in Txns, k \in Keys : OnBy(t, k) # {} /\ Ends(t) = {} => owner[k] = t

NextOK ==
  phase # "redo" =>
    /\ \A i \in Recs : Log[i].lsn < next_lsn
    /\ \A l \in 0..(next_lsn - 1) : \E i \in Recs : Log[i].lsn = l

\* How far the log was read.
Read == IF phase = "redo" THEN offset + inner ELSE Len(disk)
Seen == {i \in Recs : i <= Read}

\* The store has what the log says, except that undoing a deletion puts the
\* key's text.
After(writes, x) ==
  \/ x = Absent /\ writes = {}
  \/ \E m \in writes : Last(writes, m) /\ x = Stored(Log[m])
Lost(t) == txn[t].at = "ended" /\ \A i \in Ends(t) : Log[i].type # "COMMIT"
StoreAt(k) ==
  \/ After(On(k), kv[k])
  \/ /\ kv[k] = KeyText
     /\ \E t \in Txns : \E m \in OnBy(t, k) : Last(On(k), m) /\ Log[m].type = "INSERT" /\ Lost(t)
StoreOK ==
  \A k \in Keys : IF phase = "redo" THEN After(On(k) \cap Seen, kv[k]) ELSE StoreAt(k)

(***************************************************************************)
(* Recovery.                                                               *)
(***************************************************************************)

RedoOK ==
  phase = "redo" =>
    /\ tail = <<>> /\ Read <= Len(disk)
    /\ Read < Len(disk) => disk[Read + 1] # Body
    /\ inner <= BufferSize
MappingOK ==
  phase \in {"redo", "undo"} =>
    /\ DOMAIN lsn_mapping = {Log[i].lsn : i \in Seen}
    /\ \A i \in Seen : lsn_mapping[Log[i].lsn] = i - 1

\* active_txn_ has the transactions not ended and their last records.
Known == IF phase = "redo" THEN Seen ELSE Recs
ActiveOK ==
  /\ phase \in {"redo", "undo"} =>
       /\ \A t \in Txns : Opens(t) \cap Known # {} /\ Ends(t) \cap Known = {} => t \in DOMAIN active_txn
       /\ \A t \in DOMAIN active_txn \cap Txns :
            /\ Ends(t) \cap Known = {}
            /\ \E i \in Opens(t) : Last(Opens(t) \cap Known, i) /\ Log[i].lsn = active_txn[t]
       /\ InvalidTxn \in DOMAIN active_txn =>
            \E i \in Seen : Log[i].type = "PREPARED" /\ Log[i].lsn = active_txn[InvalidTxn]
  /\ phase = "abort" => \A t \in DOMAIN active_txn : active_txn[t] \in Nat

\* The records in the list, and the writes already undone.
Todo == {i \in Seen : Log[i].lsn \in undo_list}
Done(t, k) == {i \in OnBy(t, k) \cap Seen : \A j \in Todo \cap Opens(t) : j < i}
UndoOK ==
  phase = "undo" =>
    /\ undo_list \subseteq {Log[i].lsn : i \in Seen}
    /\ \A t \in Txns, k \in Keys : OnBy(t, k) # {} => OnBy(t, k) \cap Seen # {}
    /\ \A i \in Todo : \/ Log[i].type = "PREPARED"
                       \/ Log[i].type \in Open /\ Log[i].txn \in DOMAIN active_txn
    /\ \A t \in Txns : \A i, j \in Todo \cap Opens(t) : i = j
    /\ \A t \in Txns : \A k \in Keys : \A f, m \in OnBy(t, k) :
         t \in DOMAIN active_txn /\ First(Done(t, k), f) /\ Last(OnBy(t, k), m)
           => Undoes(Log[m], Log[f])
AbortOK ==
  phase = "abort" =>
    \A t \in Txns :
      /\ t \in undo_list => UndoneBy(t) /\ Ends(t) = {} /\ Opens(t) # {}
      /\ Opens(t) # {} /\ Ends(t) = {} => t \in undo_list

RecInv ==
  /\ LogInv /\ TxnsOK /\ OwnersOK /\ NextOK /\ StoreOK
  /\ RedoOK /\ MappingOK /\ ActiveOK /\ UndoOK /\ AbortOK

(***************************************************************************)
(* First and last members.                                                 *)
(***************************************************************************)

Below == {p \in Nat \X Nat : p[1] < p[2]}

\* A set of numbers has a first member.
LEMMA HasFirst ==
  ASSUME NEW S \in SUBSET Nat, S # {}
  PROVE  \E i : First(S, i)
<1>0. IsWellFoundedOn(Below, Nat)
  BY NatLessThanWellFounded DEF OpToRel, Below
<1>1. PICK m \in S : \A y \in S : <<y, m>> \notin Below
  BY <1>0, WFMin
<1>2. ASSUME NEW y \in S PROVE m <= y
  <2>1. ASSUME y < m PROVE FALSE
    <3>1. <<y, m>> \in Nat \X Nat /\ <<y, m>>[1] < <<y, m>>[2]
      BY <2>1
    <3> QED
      BY <1>1, <3>1, Zenon DEF Below
  <2> QED
    BY <2>1
<1> QED
  BY <1>2 DEF First

\* A bounded set of numbers has a last member.
LEMMA HasLast ==
  ASSUME NEW S \in SUBSET Nat, S # {}, NEW n \in Nat, \A y \in S : y <= n
  PROVE  \E i : Last(S, i)
<1> DEFINE D == {d \in Nat : n - d \in S}
<1>1. \A y \in S : n - y \in D
  <2>1. ASSUME NEW y \in S PROVE n - y \in D
    <3>1. n - y \in Nat /\ n - (n - y) = y
      OBVIOUS
    <3> QED
      BY <3>1
  <2> QED
    BY <2>1
<1>2. D \in SUBSET Nat /\ D # {}
  BY <1>1
<1>3. PICK d : First(D, d)
  BY <1>2, HasFirst, Zenon
<1>4. d \in Nat /\ n - d \in S
  BY <1>3 DEF First
<1>5. ASSUME NEW y \in S PROVE y <= n - d
  <2>1. d <= n - y
    BY <1>1, <1>3 DEF First
  <2> QED
    BY <2>1, <1>4
<1> QED
  BY <1>4, <1>5 DEF Last

\* Max of FiniteSetsExt is the last member.
LEMMA MaxIsLast ==
  ASSUME NEW S \in SUBSET Int, NEW m, Last(S, m)
  PROVE  Max(S) = m
<1> DEFINE M == Max(S)
<1>1. \E x \in S : \A y \in S : x >= y
  BY DEF Last
<1>2. M \in S /\ \A y \in S : M >= y
  BY <1>1 DEF Max
<1>3. M <= m /\ m <= M /\ M \in Int /\ m \in Int
  BY <1>2 DEF Last
<1> QED
  BY <1>3

(***************************************************************************)
(* How the log changes: it grows by a record, or is cut before one.        *)
(***************************************************************************)

Typed == disk \in Seq(LogRecord) /\ tail \in Seq(LogRecord)

\* Cells of two logs put together.
LEMMA Joined ==
  ASSUME NEW d \in Seq(LogRecord), NEW e \in Seq(LogRecord)
  PROVE  /\ d \o e \in Seq(LogRecord) /\ Len(d \o e) = Len(d) + Len(e)
         /\ Len(d) \in Nat /\ Len(e) \in Nat
         /\ \A i \in 1..Len(d) : (d \o e)[i] = d[i]
         /\ \A i \in 1..Len(e) : (d \o e)[Len(d) + i] = e[i]
OBVIOUS

\* The records before n cells stay.
SameTo(n) ==
  /\ n \in Nat
  /\ \A i \in Nat : i <= n => (i \in Recs' <=> i \in Recs) /\ (i \in Recs => Log'[i] = Log[i])

Grown(r) ==
  /\ SameTo(Len(Log)) /\ Len(Log)' = Len(Log) + Size(r)
  /\ Len(Log) + 1 \notin Recs /\ Recs' = Recs \cup {Len(Log) + 1}
  /\ Log'[Len(Log) + 1] = r
  /\ \A i \in 1..Len(Log) : Log'[i] = Log[i]
  /\ Size(r) = 2 => Log'[Len(Log) + 2] = Body

Cut(n) ==
  /\ SameTo(n) /\ n <= Len(Log) /\ Len(Log)' = n
  /\ Recs' = {i \in Recs : i <= n}
  /\ \A i \in 1..n : Log'[i] = Log[i]
  /\ n < Len(Log) => n + 1 \in Recs

\* A body is not a record.
LEMMA BodyIsNoRecord ==
  /\ Body.type = "INVALID" /\ "INVALID" \notin Written
  /\ \A r : r.type \in Written => r # Body
BY DEF Body, Record, Written, Open, Ending

\* A body has the fields of a record.
LEMMA BodyIsTyped == Body \in LogRecord
BY DEF Body, Record, LogRecord, Types, INVALID_LSN, InvalidTxn, NoKey, Absent

\* Records are at places of the log.
LEMMA RecsAre ==
  ASSUME Typed
  PROVE  /\ Log \in Seq(LogRecord) /\ Len(Log) \in Nat
         /\ Recs \in SUBSET (1..Len(Log)) /\ Recs \in SUBSET Nat
         /\ \A i \in Recs : i \in Nat /\ i <= Len(Log) /\ Log[i] # Body
BY Joined DEF Typed, Log, Recs, Records

\* An append adds one record and its body behind the log.
LEMMA Growing ==
  ASSUME Typed, NEW r \in LogRecord, r.type \in Written, disk' = disk, tail' = tail \o Cells(r)
  PROVE  Typed' /\ Grown(r)
<1> DEFINE c == Cells(r)
           n == Len(Log)
<1>0. r # Body
  BY BodyIsNoRecord, Zenon
<1>1. /\ c \in Seq(LogRecord) /\ Len(c) = Size(r) /\ Size(r) \in {1, 2}
      /\ c[1] = r /\ (Size(r) = 2 => c[2] = Body)
  BY BodyIsTyped DEF Cells, Size
<1> HIDE DEF c
<1>2. tail' = tail \o c
  BY DEF c
<1>3. Typed' /\ Len(tail') = Len(tail) + Size(r)
  BY <1>1, <1>2, Joined DEF Typed
<1>4. /\ n \in Nat /\ n = Len(disk) + Len(tail) /\ Len(disk) \in Nat /\ Len(tail) \in Nat
      /\ \A i \in 1..Len(disk) : Log[i] = disk[i]
      /\ \A i \in 1..Len(tail) : Log[Len(disk) + i] = tail[i]
  BY Joined DEF Typed, Log
<1>5. /\ Len(Log') = Len(disk) + Len(tail')
      /\ \A i \in 1..Len(disk) : Log'[i] = disk[i]
      /\ \A i \in 1..Len(tail') : Log'[Len(disk) + i] = tail'[i]
  BY <1>3, Joined DEF Typed, Log
<1>6. /\ \A i \in 1..Len(tail) : tail'[i] = tail[i]
      /\ \A i \in 1..Len(c) : tail'[Len(tail) + i] = c[i]
  BY <1>1, <1>2, Joined DEF Typed
<1>7. ASSUME NEW i \in 1..n PROVE Log'[i] = Log[i]
  <2>1. CASE i <= Len(disk)
    BY <2>1, <1>4, <1>5
  <2>2. CASE i > Len(disk)
    <3>1. i - Len(disk) \in 1..Len(tail) /\ Len(disk) + (i - Len(disk)) = i
      BY <2>2, <1>4
    <3>2. i - Len(disk) \in 1..Len(tail')
      BY <3>1, <1>3, <1>1, <1>4
    <3> DEFINE j == i - Len(disk)
    <3>3. Log[Len(disk) + j] = tail[j] /\ Log'[Len(disk) + j] = tail'[j] /\ tail'[j] = tail[j]
      BY <3>1, <3>2, <1>4, <1>5, <1>6, Zenon
    <3> QED
      BY <3>1, <3>3
  <2> QED
    BY <2>1, <2>2, <1>4
<1>8. Log'[n + 1] = r /\ (Size(r) = 2 => Log'[n + 2] = Body)
  <2>1. Len(tail) + 1 \in 1..Len(tail') /\ Len(disk) + (Len(tail) + 1) = n + 1
    BY <1>1, <1>3, <1>4
  <2>2. tail'[Len(tail) + 1] = r
    <3>1. 1 \in 1..Len(c)
      BY <1>1
    <3>2. tail'[Len(tail) + 1] = c[1]
      BY <3>1, <1>6, Zenon
    <3> QED
      BY <3>2, <1>1
  <2>3. ASSUME Size(r) = 2 PROVE /\ Len(tail) + 2 \in 1..Len(tail') /\ Len(disk) + (Len(tail) + 2) = n + 2
                                 /\ tail'[Len(tail) + 2] = Body
    BY <2>3, <1>1, <1>3, <1>4, <1>6
  <2> QED
    BY <2>1, <2>2, <2>3, <1>5
<1>9. Len(Log') = n + Size(r)
  BY <1>5, <1>4, <1>3, <1>1
<1>10. \A i : i \in Recs' <=> i \in 1..Len(Log') /\ Log'[i] # Body
  BY DEF Recs, Records
<1>11. \A i : i \in Recs <=> i \in 1..n /\ Log[i] # Body
  BY DEF Recs, Records
<1>12. Recs' = Recs \cup {n + 1} /\ n + 1 \notin Recs
  <2>1. ASSUME NEW i PROVE i \in Recs' <=> i \in Recs \cup {n + 1}
    <3>1. CASE i \in 1..n
      BY <3>1, <1>7, <1>9, <1>10, <1>11, <1>1, <1>4
    <3>2. CASE i = n + 1
      BY <3>2, <1>8, <1>9, <1>10, <1>0, <1>1, <1>4
    <3>3. CASE i \notin 1..n /\ i # n + 1
      BY <3>3, <1>8, <1>9, <1>10, <1>11, <1>1, <1>4
    <3> QED
      BY <3>1, <3>2, <3>3
  <2> QED
    BY <2>1, <1>11, <1>4
<1>13. SameTo(n)
  BY <1>4, <1>7, <1>11, <1>12 DEF SameTo
<1> QED
  BY <1>3, <1>7, <1>8, <1>9, <1>12, <1>13 DEF Grown

\* A stop cuts the log before a record.
LEMMA Cutting ==
  ASSUME Typed, NEW n \in 0..Len(tail), n < Len(tail) => tail[n + 1] # Body,
         disk' = disk \o SubSeq(tail, 1, n), tail' = <<>>
  PROVE  Typed' /\ Cut(Len(disk) + n) /\ Len(disk') = Len(disk) + n
<1> DEFINE e == SubSeq(tail, 1, n)
           c == Len(disk) + n
<1>1. Len(disk) \in Nat /\ Len(tail) \in Nat /\ n \in Nat /\ n <= Len(tail)
  BY DEF Typed
<1>2. e \in Seq(LogRecord) /\ Len(e) = n /\ \A i \in 1..n : e[i] = tail[i]
  BY <1>1 DEF Typed
<1> HIDE DEF e
<1>3. disk' = disk \o e
  BY DEF e
<1>4. Typed' /\ Len(disk') = c
  BY <1>2, <1>3, Joined DEF Typed
<1>5. Log' = disk'
  BY <1>4 DEF Log, Typed
<1>6. /\ Len(Log) = Len(disk) + Len(tail)
      /\ \A i \in 1..Len(disk) : Log[i] = disk[i]
      /\ \A i \in 1..Len(tail) : Log[Len(disk) + i] = tail[i]
  BY Joined DEF Typed, Log
<1>7. /\ \A i \in 1..Len(disk) : Log'[i] = disk[i]
      /\ \A i \in 1..n : Log'[Len(disk) + i] = tail[i]
  BY <1>2, <1>3, <1>5, Joined DEF Typed
<1>8. ASSUME NEW i \in 1..c PROVE Log'[i] = Log[i]
  <2>1. CASE i <= Len(disk)
    BY <2>1, <1>1, <1>6, <1>7
  <2>2. CASE i > Len(disk)
    <3>1. i - Len(disk) \in 1..n /\ Len(disk) + (i - Len(disk)) = i
      BY <2>2, <1>1
    <3>2. i - Len(disk) \in 1..Len(tail)
      BY <3>1, <1>1
    <3> QED
      BY <3>1, <3>2, <1>6, <1>7
  <2> QED
    BY <2>1, <2>2, <1>1
<1>9. c \in Nat /\ c <= Len(Log) /\ Len(Log') = c
  BY <1>1, <1>4, <1>5, <1>6
<1>10. \A i : i \in Recs' <=> i \in 1..c /\ Log'[i] # Body
  BY <1>9 DEF Recs, Records
<1>11. \A i : i \in Recs <=> i \in 1..Len(Log) /\ Log[i] # Body
  BY DEF Recs, Records
<1>12. Recs' = {i \in Recs : i <= c}
  <2>1. ASSUME NEW i PROVE i \in Recs' <=> i \in Recs /\ i <= c
    <3>1. CASE i \in 1..c
      BY <3>1, <1>8, <1>9, <1>10, <1>11, <1>1, <1>6
    <3>2. CASE i \notin 1..c
      BY <3>2, <1>9, <1>10, <1>11, <1>1, <1>6
    <3> QED
      BY <3>1, <3>2
  <2> QED
    BY <2>1
<1>13. SameTo(c)
  BY <1>8, <1>9, <1>11, <1>12 DEF SameTo
<1>14. c < Len(Log) => c + 1 \in Recs
  <2>1. ASSUME c < Len(Log) PROVE n + 1 \in 1..Len(tail) /\ Len(disk) + (n + 1) = c + 1 /\ tail[n + 1] # Body
    BY <2>1, <1>1, <1>6
  <2>2. ASSUME c < Len(Log) PROVE Log[c + 1] # Body /\ c + 1 \in 1..Len(Log)
    BY <2>1, <2>2, <1>6, <1>9, <1>1
  <2> QED
    BY <2>2, <1>11
<1> QED
  BY <1>4, <1>8, <1>9, <1>12, <1>13, <1>14 DEF Cut

\* An append and the records of a transaction and of a key.
LEMMA GrownSets ==
  ASSUME Typed, NEW r, Grown(r)
  PROVE  /\ \A t, i : i \in By(t)' <=> i \in By(t) \/ (i = Len(Log) + 1 /\ r.txn = t)
         /\ \A t, i : i \in Ends(t)' <=>
              i \in Ends(t) \/ (i = Len(Log) + 1 /\ r.txn = t /\ r.type \in Ending)
         /\ \A t, i : i \in Opens(t)' <=>
              i \in Opens(t) \/ (i = Len(Log) + 1 /\ r.txn = t /\ r.type \in Open)
         /\ \A k, i : i \in On(k)' <=> i \in On(k) \/ (i = Len(Log) + 1 /\ r.key = k)
         /\ \A t, k, i : i \in OnBy(t, k)' <=>
              i \in OnBy(t, k) \/ (i = Len(Log) + 1 /\ r.key = k /\ r.txn = t)
         /\ \A i \in Recs : Log'[i] = Log[i] /\ i < Len(Log) + 1 /\ i \in Nat
         /\ Log'[Len(Log) + 1] = r /\ Len(Log) + 1 \notin Recs /\ Len(Log) + 1 \in Nat
         /\ Recs' = Recs \cup {Len(Log) + 1}
<1> DEFINE n == Len(Log) + 1
<1>1. /\ \A i \in Recs : Log'[i] = Log[i] /\ i < n /\ i \in Nat
      /\ Log'[n] = r /\ n \notin Recs /\ n \in Nat
      /\ Recs' = Recs \cup {n}
  BY RecsAre DEF Grown, SameTo
<1> HIDE DEF n
<1>2. \A t, i : i \in By(t)' <=> i \in By(t) \/ (i = n /\ r.txn = t)
  BY <1>1 DEF By
<1>3. \A t : By(t) \subseteq Recs
  BY DEF By
<1>4. \A t, i : i \in Ends(t)' <=> i \in Ends(t) \/ (i = n /\ r.txn = t /\ r.type \in Ending)
  BY <1>1, <1>2, <1>3 DEF Ends
<1>5. \A t, i : i \in Opens(t)' <=> i \in Opens(t) \/ (i = n /\ r.txn = t /\ r.type \in Open)
  BY <1>1, <1>2, <1>3 DEF Opens
<1>6. \A k, i : i \in On(k)' <=> i \in On(k) \/ (i = n /\ r.key = k)
  BY <1>1 DEF On
<1>7. \A k : On(k) \subseteq Recs
  BY DEF On
<1>8. \A t, k, i : i \in OnBy(t, k)' <=> i \in OnBy(t, k) \/ (i = n /\ r.key = k /\ r.txn = t)
  BY <1>1, <1>6, <1>7 DEF OnBy
<1> QED
  BY <1>1, <1>2, <1>4, <1>5, <1>6, <1>8 DEF n

\* A cut and the records of a transaction and of a key.
LEMMA CutSets ==
  ASSUME Typed, NEW c, Cut(c)
  PROVE  /\ \A t, i : i \in By(t)' <=> i \in By(t) /\ i <= c
         /\ \A t, i : i \in Ends(t)' <=> i \in Ends(t) /\ i <= c
         /\ \A t, i : i \in Opens(t)' <=> i \in Opens(t) /\ i <= c
         /\ \A k, i : i \in On(k)' <=> i \in On(k) /\ i <= c
         /\ \A t, k, i : i \in OnBy(t, k)' <=> i \in OnBy(t, k) /\ i <= c
         /\ \A i \in Recs' : Log'[i] = Log[i] /\ i \in Recs /\ i <= c /\ i \in Nat
         /\ \A i \in Recs : i <= c => i \in Recs'
<1>1. /\ \A i \in Recs' : Log'[i] = Log[i] /\ i \in Recs /\ i <= c /\ i \in Nat
      /\ \A i : i \in Recs' <=> i \in Recs /\ i <= c
  BY RecsAre DEF Cut, SameTo
<1>2. \A t, i : i \in By(t)' <=> i \in By(t) /\ i <= c
  BY <1>1 DEF By
<1>3. \A t : By(t)' \subseteq Recs'
  BY DEF By
<1>4. \A t, i : i \in Ends(t)' <=> i \in Ends(t) /\ i <= c
  BY <1>1, <1>2, <1>3 DEF Ends
<1>5. \A t, i : i \in Opens(t)' <=> i \in Opens(t) /\ i <= c
  BY <1>1, <1>2, <1>3 DEF Opens
<1>6. \A k, i : i \in On(k)' <=> i \in On(k) /\ i <= c
  BY <1>1 DEF On
<1>7. \A k : On(k)' \subseteq Recs'
  BY DEF On
<1>8. \A t, k, i : i \in OnBy(t, k)' <=> i \in OnBy(t, k) /\ i <= c
  BY <1>1, <1>6, <1>7 DEF OnBy
<1> QED
  BY <1>1, <1>2, <1>4, <1>5, <1>6, <1>8

\* What was committed in the part that stays is the same.
LEMMA SamePast ==
  ASSUME Typed, NEW c, SameTo(c), NEW n \in Int, n <= c, NEW k
  PROVE  /\ WinTo(n)' = WinTo(n) /\ ComTo(n, k)' = ComTo(n, k)
         /\ OverTo(n, k) => OverTo(n, k)'
<1>1. /\ Recs \subseteq Nat /\ Recs' \subseteq Nat /\ c \in Nat
      /\ \A i \in Nat : i <= c => (i \in Recs' <=> i \in Recs) /\ (i \in Recs => Log'[i] = Log[i])
  BY RecsAre DEF SameTo, Recs, Records
<1>2. ASSUME NEW m \in Int, m <= c
      PROVE  WinTo(m)' = WinTo(m) /\ WonTo(m, k)' = WonTo(m, k) /\ ComTo(m, k)' = ComTo(m, k)
  <2>0. \A i : i \in Nat /\ i <= m => i <= c
    BY <1>1, <1>2
  <2>1. {j \in Recs : j <= m /\ Log[j].type = "COMMIT"}' = {j \in Recs : j <= m /\ Log[j].type = "COMMIT"}
    BY <1>1, <2>0
  <2>2. WinTo(m)' = WinTo(m)
    BY <2>0, <2>1, <1>1 DEF WinTo
  <2>3. WonTo(m, k)' = WonTo(m, k)
    BY <1>1, <2>0, <2>2 DEF WonTo, On
  <2>4. CASE WonTo(m, k) = {}
    BY <2>2, <2>3, <2>4, Zenon DEF ComTo
  <2>5. CASE WonTo(m, k) # {}
    <3> DEFINE W == WonTo(m, k)
    <3>1. W \in SUBSET Nat /\ \A y \in W : y <= c /\ y \in Recs
      BY <1>1, <2>0 DEF WonTo, On
    <3>2. PICK x : Last(W, x)
      BY <3>1, <2>5, HasLast, <1>1
    <3>3. Max(W) = x
      BY <3>1, <3>2, MaxIsLast
    <3>4. Log'[x] = Log[x]
      BY <3>1, <3>2, <1>1 DEF Last
    <3>5. Max(W') = x /\ Log'[Max(W')] = Log[Max(W)]
      BY <2>3, <3>3, <3>4, Zenon
    <3> QED
      BY <2>2, <2>3, <3>5, Zenon DEF ComTo
  <2> QED
    BY <2>2, <2>3, <2>4, <2>5
<1>3. ASSUME OverTo(n, k) PROVE OverTo(n, k)'
  <2>1. PICK i \in On(k) :
          /\ i <= n /\ Log[i].txn \notin WinTo(n) /\ Log[i].type = "INSERT"
          /\ ComTo(i - 1, k) # Absent
          /\ ~ \E j \in OnBy(Log[i].txn, k) : j < i /\ Log[j].type = "DELETE"
    BY <1>3 DEF OverTo
  <2>2. i \in Recs /\ i \in Nat /\ i <= c /\ i - 1 \in Int /\ i - 1 <= c /\ Log[i].key = k
    BY <1>1, <2>1 DEF On
  <2>3. i \in Recs' /\ Log'[i] = Log[i]
    BY <1>1, <2>2
  <2>4. ComTo(i - 1, k)' = ComTo(i - 1, k) /\ WinTo(n)' = WinTo(n)
    BY <1>2, <2>2
  <2>5. ASSUME NEW j \in OnBy(Log[i].txn, k)', j < i, Log'[j].type = "DELETE" PROVE FALSE
    <3>1. j \in Recs' /\ j \in Nat /\ j <= c /\ Log'[j].key = k /\ Log'[j].txn = Log'[i].txn
      BY <2>5, <2>2, <1>1 DEF OnBy, On
    <3>2. j \in Recs /\ Log'[j] = Log[j]
      BY <3>1, <1>1
    <3> QED
      BY <3>1, <3>2, <2>1, <2>3, <2>5 DEF OnBy, On
  <2>6. i \in On(k)'
    BY <2>2, <2>3 DEF On
  <2> QED
    BY <2>1, <2>3, <2>4, <2>5, <2>6 DEF OverTo
<1> QED
  BY <1>2, <1>3

\* A stop keeps what is said of the log (LogManager loses only its end).
LEMMA CutLog ==
  ASSUME Typed, LogInv, NEW c, Cut(c)
  PROVE  LogInv'
<1> USE CutSets
<1>0. /\ c \in Nat /\ c <= Len(Log) /\ Len(Log') = c /\ SameTo(c)
      /\ \A i \in 1..c : Log'[i] = Log[i]
      /\ Len(Log) \in Nat
  BY RecsAre DEF Cut, SameTo
<1>1. Shaped'
  <2>1. ASSUME NEW i \in Recs', Size(Log'[i]) = 2 PROVE i + 1 <= Len(Log') /\ Log'[i + 1] = Body
    <3>1. i + 1 <= Len(Log) /\ Log[i + 1] = Body /\ i \in Nat /\ i <= c
      BY <2>1 DEF LogInv, Shaped
    <3>2. i # c
      BY <3>1, <1>0, RecsAre DEF Cut
    <3>3. i + 1 \in 1..c
      BY <3>1, <3>2, <1>0
    <3> QED
      BY <3>1, <3>3, <1>0
  <2>2. ASSUME NEW i \in 1..c, Log'[i] = Body PROVE i - 1 \in Recs' /\ Size(Log'[i - 1]) = 2
    <3>1. i \in 1..Len(Log) /\ Log[i] = Body
      BY <2>2, <1>0
    <3>2. i - 1 \in Recs /\ Size(Log[i - 1]) = 2 /\ i - 1 <= c
      BY <3>1, <1>0 DEF LogInv, Shaped
    <3>3. i - 1 \in Recs'
      BY <3>2
    <3> QED
      BY <3>2, <3>3
  <2>3. ASSUME NEW i \in Recs'
        PROVE  /\ Log'[i].type \in Written /\ Log'[i].lsn \in Nat
               /\ Log'[i].key \in Keys <=> Log'[i].type \in {"INSERT", "DELETE"}
               /\ Log'[i].key \in Keys => Log'[i].txn \in Txns
               /\ Log'[i].key \in Keys => Log'[i].value # Absent
               /\ Log'[i].type \in Open \cup {"PREPARED"} => Log'[i].txn \in Txns
    BY DEF LogInv, Shaped
  <2> QED
    BY <2>1, <2>2, <2>3, <1>0 DEF Shaped
<1>2. Numbered'
  <2>1. \A i, j \in Recs : i < j => Log[i].lsn < Log[j].lsn
    BY DEF LogInv, Numbered
  <2>2. ASSUME NEW i \in Recs', NEW l \in 0..Log'[i].lsn PROVE \E j \in Recs' : Log'[j].lsn = l
    <3>1. Log[i].lsn \in Nat /\ i \in Recs /\ l \in 0..Log[i].lsn
      BY DEF LogInv, Shaped
    <3>2. PICK j \in Recs : Log[j].lsn = l
      BY <3>1 DEF LogInv, Numbered
    <3>3. j <= i
      BY <2>1, <3>1, <3>2, RecsAre
    <3>4. j \in Recs'
      BY <3>3, <1>0, RecsAre
    <3> QED
      BY <3>2, <3>4
  <2> QED
    BY <2>1, <2>2 DEF Numbered
<1>3. Chained'
  <2>1. SUFFICES ASSUME NEW t \in Txns, NEW i \in Opens(t)' PROVE ChainAt(t, i)'
    BY DEF Chained
  <2>2. i \in Opens(t) /\ i \in Recs' /\ Log'[i] = Log[i] /\ i <= c /\ i \in Nat
    BY DEF Opens, By
  <2>3. ChainAt(t, i)
    BY <2>2 DEF LogInv, Chained
  <2>4. Opens(t) \subseteq Recs /\ Recs \subseteq Nat
    BY RecsAre DEF Opens, By
  <2>5. ASSUME Log[i].prev # INVALID_LSN
        PROVE  \E j \in Opens(t)' :
                 /\ j < i /\ Log'[j].lsn = Log[i].prev
                 /\ \A m \in Opens(t)' : m <= j \/ m >= i
    <3>1. PICK j \in Opens(t) : /\ j < i /\ Log[j].lsn = Log[i].prev
                                /\ \A m \in Opens(t) : m <= j \/ m >= i
      BY <2>3, <2>5 DEF ChainAt
    <3>2. j \in Recs /\ j \in Nat
      BY <3>1, <2>4
    <3>3. j <= c
      BY <3>1, <3>2, <2>2, <1>0
    <3>4. j \in Opens(t)' /\ Log'[j] = Log[j]
      BY <3>1, <3>2, <3>3
    <3>5. \A m \in Opens(t)' : m <= j \/ m >= i
      BY <3>1
    <3> QED
      BY <3>1, <3>4, <3>5
  <2>6. Log[i].prev = INVALID_LSN => \A j \in Opens(t)' : j >= i
    BY <2>3 DEF ChainAt
  <2> QED
    BY <2>2, <2>5, <2>6 DEF ChainAt
<1>4. Closed'
  BY DEF LogInv, Closed
<1>5. Blocks'
  <2>1. ASSUME NEW t \in Txns, NEW k \in Keys, NEW i \in OnBy(t, k)', NEW j \in On(k)', i < j, Log'[j].txn # t
        PROVE  \E r \in Ends(t)' : r < j
    <3>1. i \in OnBy(t, k) /\ j \in On(k) /\ j \in Recs'
      BY DEF On
    <3>2. Log'[j] = Log[j] /\ j <= c /\ j \in Nat
      BY <3>1
    <3>3. PICK r \in Ends(t) : r < j
      BY <3>1, <3>2, <2>1 DEF LogInv, Blocks
    <3>4. r \in Nat
      BY <3>3, RecsAre DEF Ends, By
    <3>5. r <= c
      BY <3>2, <3>3, <3>4, <1>0
    <3> QED
      BY <3>2, <3>3, <3>5
  <2> QED
    BY <2>1 DEF Blocks
<1>6. Aborted'
  <2>1. ASSUME NEW t \in Txns, NEW r \in Ends(t)', Log'[r].type = "ABORT" PROVE UndoneBy(t)'
    <3>1. r \in Ends(t) /\ r <= c /\ r \in Recs' /\ Log'[r] = Log[r] /\ r \in Nat
      BY DEF Ends, By
    <3>2. UndoneBy(t)
      BY <3>1, <2>1 DEF LogInv, Aborted
    <3>3. \A i \in By(t) : i <= c /\ i \in Nat
      BY <3>1, <1>0, RecsAre DEF LogInv, Closed, By
    <3>4. ASSUME NEW k PROVE OnBy(t, k)' = OnBy(t, k) /\ \A i \in OnBy(t, k) : Log'[i] = Log[i]
      <4>1. \A i \in OnBy(t, k) : i \in By(t) /\ i \in Recs
        BY DEF OnBy, On, By
      <4> QED
        BY <3>3, <4>1
    <3> QED
      BY <3>2, <3>4 DEF UndoneBy
  <2> QED
    BY <2>1 DEF Aborted
<1>7. Deletes'
  <2>1. SUFFICES ASSUME NEW t \in Txns, NEW k \in Keys, NEW f \in OnBy(t, k)', First(OnBy(t, k)', f),
                        Log'[f].type = "DELETE"
        PROVE  \/ OverTo(f - 1, k)'
               \/ /\ ComTo(f - 1, k)' # Absent
                  /\ Log'[f].value \in {ComTo(f - 1, k)', KeyText}
    BY DEF Deletes
  <2>2. f \in OnBy(t, k) /\ f \in Recs' /\ Log'[f] = Log[f] /\ f <= c /\ f \in Nat
    BY DEF On, OnBy
  <2>3. First(OnBy(t, k)', f)
    BY <2>1
  <2>4. First(OnBy(t, k), f)
    <3>1. \A i \in OnBy(t, k) : i \in Nat
      BY RecsAre DEF OnBy, On
    <3>2. \A i \in OnBy(t, k) : i <= c \/ i > c
      BY <3>1, <1>0
    <3> QED
      BY <2>2, <2>3, <3>1, <3>2, <1>0 DEF First
  <2>5. \/ OverTo(f - 1, k)
        \/ /\ ComTo(f - 1, k) # Absent
           /\ Log[f].value \in {ComTo(f - 1, k), KeyText}
    BY <2>1, <2>2, <2>4 DEF LogInv, Deletes
  <2>6. f - 1 \in Int /\ f - 1 <= c
    BY <2>2, <1>0
  <2>7. ComTo(f - 1, k)' = ComTo(f - 1, k) /\ (OverTo(f - 1, k) => OverTo(f - 1, k)')
    BY <2>6, <1>0, SamePast
  <2> QED
    BY <2>2, <2>5, <2>7
<1> QED
  BY <1>1, <1>2, <1>3, <1>4, <1>5, <1>6, <1>7 DEF LogInv

\* A record that may be appended.
Fits(r) ==
  /\ r.type \in Written /\ r.lsn \in Nat
  /\ r.key \in Keys <=> r.type \in {"INSERT", "DELETE"}
  /\ r.key \in Keys => r.txn \in Txns
  /\ r.key \in Keys => r.value # Absent
  /\ r.type \in Open \cup {"PREPARED"} => r.txn \in Txns
  /\ \A i \in Recs : Log[i].lsn < r.lsn
  /\ \A l \in 0..(r.lsn - 1) : \E i \in Recs : Log[i].lsn = l
  /\ r.txn \in Txns => Ends(r.txn) = {}
  /\ r.type \in Open =>
       /\ r.prev = INVALID_LSN => Opens(r.txn) = {}
       /\ r.prev # INVALID_LSN => \E j \in Opens(r.txn) : Log[j].lsn = r.prev /\ Last(Opens(r.txn), j)
  /\ r.key \in Keys => \A t \in Txns \ {r.txn} : OnBy(t, r.key) # {} => Ends(t) # {}
  /\ r.type = "ABORT" /\ r.txn \in Txns => UndoneBy(r.txn)
  /\ r.type = "DELETE" /\ OnBy(r.txn, r.key) = {} =>
       \/ OverTo(Len(Log), r.key)
       \/ /\ ComTo(Len(Log), r.key) # Absent
          /\ r.value \in {ComTo(Len(Log), r.key), KeyText}

\* A record that fits keeps what is said of the log.
LEMMA GrowLog ==
  ASSUME Typed, LogInv, NEW r, Grown(r), Fits(r)
  PROVE  LogInv'
<1> SUFFICES ASSUME NEW n, n = Len(Log) + 1 PROVE LogInv'
  OBVIOUS
<1>0. /\ \A t, i : i \in By(t)' <=> i \in By(t) \/ (i = n /\ r.txn = t)
      /\ \A t, i : i \in Ends(t)' <=> i \in Ends(t) \/ (i = n /\ r.txn = t /\ r.type \in Ending)
      /\ \A t, i : i \in Opens(t)' <=> i \in Opens(t) \/ (i = n /\ r.txn = t /\ r.type \in Open)
      /\ \A k, i : i \in On(k)' <=> i \in On(k) \/ (i = n /\ r.key = k)
      /\ \A t, k, i : i \in OnBy(t, k)' <=> i \in OnBy(t, k) \/ (i = n /\ r.key = k /\ r.txn = t)
      /\ \A i \in Recs : Log'[i] = Log[i] /\ i < n /\ i \in Nat
      /\ Log'[n] = r /\ n \notin Recs /\ n \in Nat
      /\ Recs' = Recs \cup {n}
  BY GrownSets
<1>1. Shaped'
  <2>0. Len(Log') = Len(Log) + Size(r) /\ Len(Log) \in Nat /\ Size(r) \in {1, 2}
    BY RecsAre DEF Grown, Size
  <2>1. ASSUME NEW i \in Recs', Size(Log'[i]) = 2 PROVE i + 1 <= Len(Log') /\ Log'[i + 1] = Body
    <3>1. CASE i \in Recs
      <4>1. i + 1 <= Len(Log) /\ Log[i + 1] = Body /\ i \in Nat
        BY <2>1, <3>1, <1>0 DEF LogInv, Shaped
      <4>2. i + 1 \in 1..Len(Log)
        BY <4>1, <2>0
      <4> QED
        BY <4>1, <4>2, <2>0 DEF Grown
    <3>2. CASE i = n
      <4>1. Size(r) = 2
        BY <2>1, <3>2, <1>0
      <4>2. Log'[Len(Log) + 2] = Body
        BY <4>1 DEF Grown
      <4>3. i + 1 = Len(Log) + 2
        BY <3>2, <2>0
      <4> QED
        BY <4>1, <4>2, <4>3, <2>0
    <3> QED
      BY <3>1, <3>2, <1>0
  <2>2. ASSUME NEW i \in 1..Len(Log'), Log'[i] = Body PROVE i - 1 \in Recs' /\ Size(Log'[i - 1]) = 2
    <3>1. CASE i \in 1..Len(Log)
      <4>1. Log[i] = Body
        BY <3>1, <2>2 DEF Grown
      <4>2. i - 1 \in Recs /\ Size(Log[i - 1]) = 2
        BY <4>1, <3>1 DEF LogInv, Shaped
      <4> QED
        BY <4>2, <1>0
    <3>2. CASE i = n
      BY <3>2, <2>2, <1>0, BodyIsNoRecord DEF Fits
    <3>3. CASE i = n + 1
      <4>1. Size(r) = 2 /\ i - 1 = n
        BY <3>3, <2>0
      <4> QED
        BY <4>1, <1>0
    <3> QED
      BY <3>1, <3>2, <3>3, <2>0
  <2>3. ASSUME NEW i \in Recs'
        PROVE  /\ Log'[i].type \in Written /\ Log'[i].lsn \in Nat
               /\ Log'[i].key \in Keys <=> Log'[i].type \in {"INSERT", "DELETE"}
               /\ Log'[i].key \in Keys => Log'[i].txn \in Txns
               /\ Log'[i].key \in Keys => Log'[i].value # Absent
               /\ Log'[i].type \in Open \cup {"PREPARED"} => Log'[i].txn \in Txns
    <3>1. CASE i \in Recs
      BY <3>1, <1>0 DEF LogInv, Shaped
    <3>2. CASE i = n
      BY <3>2, <1>0 DEF Fits
    <3> QED
      BY <3>1, <3>2, <1>0
  <2> QED
    BY <2>1, <2>2, <2>3 DEF Shaped
<1>2. Numbered'
  <2>1. ASSUME NEW i \in Recs', NEW j \in Recs', i < j PROVE Log'[i].lsn < Log'[j].lsn
    <3>1. CASE j \in Recs
      <4>1. i \in Recs
        BY <3>1, <2>1, <1>0
      <4> QED
        BY <3>1, <4>1, <2>1, <1>0 DEF LogInv, Numbered
    <3>2. CASE j = n
      <4>1. i \in Recs
        BY <3>2, <2>1, <1>0
      <4> QED
        BY <3>2, <4>1, <1>0 DEF Fits
    <3> QED
      BY <3>1, <3>2, <1>0
  <2>2. ASSUME NEW i \in Recs', NEW l \in 0..Log'[i].lsn PROVE \E j \in Recs' : Log'[j].lsn = l
    <3>1. CASE i \in Recs
      <4>1. \E j \in Recs : Log[j].lsn = l
        BY <3>1, <1>0 DEF LogInv, Numbered
      <4> QED
        BY <4>1, <1>0
    <3>2. CASE i = n /\ l # r.lsn
      <4>1. l \in 0..(r.lsn - 1)
        BY <3>2, <1>0 DEF Fits
      <4>2. \E j \in Recs : Log[j].lsn = l
        BY <4>1 DEF Fits
      <4> QED
        BY <4>2, <1>0
    <3>3. CASE i = n /\ l = r.lsn
      BY <3>3, <1>0
    <3> QED
      BY <3>1, <3>2, <3>3, <1>0
  <2> QED
    BY <2>1, <2>2 DEF Numbered
<1>3. Chained'
  <2>1. ASSUME NEW t \in Txns, NEW i \in Opens(t) PROVE ChainAt(t, i)'
    <3>1. ChainAt(t, i)
      BY DEF LogInv, Chained
    <3>2. i \in Recs /\ Log'[i] = Log[i] /\ i < n /\ i \in Nat
      BY <1>0 DEF Opens, By
    <3>3. \A j \in Opens(t)' : j \in Opens(t) \/ j = n
      BY <1>0
    <3>4. \A j \in Opens(t) : j \in Opens(t)' /\ Log'[j] = Log[j] /\ j \in Nat
      BY <1>0 DEF Opens, By
    <3>0. n >= i
      BY <3>2, <1>0
    <3>5. ASSUME Log[i].prev = INVALID_LSN, NEW j \in Opens(t)' PROVE j >= i
      BY <3>0, <3>1, <3>3, <3>5 DEF ChainAt
    <3>6. ASSUME Log[i].prev # INVALID_LSN
          PROVE  \E j \in Opens(t)' :
                   /\ j < i /\ Log'[j].lsn = Log[i].prev
                   /\ \A m \in Opens(t)' : m <= j \/ m >= i
      <4>1. PICK j \in Opens(t) : /\ j < i /\ Log[j].lsn = Log[i].prev
                                  /\ \A m \in Opens(t) : m <= j \/ m >= i
        BY <3>1, <3>6 DEF ChainAt
      <4>2. \A m \in Opens(t)' : m <= j \/ m >= i
        BY <4>1, <3>0, <3>3
      <4> QED
        BY <4>1, <4>2, <3>4
    <3> QED
      BY <3>2, <3>5, <3>6 DEF ChainAt
  <2>2. ASSUME NEW t \in Txns, r.txn = t, r.type \in Open PROVE ChainAt(t, n)'
    <3>1. \A j \in Opens(t) : j \in Opens(t)' /\ Log'[j] = Log[j] /\ j \in Nat /\ j < n
      BY <1>0 DEF Opens, By
    <3>2. \A j \in Opens(t)' : j \in Opens(t) \/ j = n
      BY <1>0
    <3>3. CASE r.prev = INVALID_LSN
      BY <2>2, <3>2, <3>3, <1>0 DEF ChainAt, Fits
    <3>4. CASE r.prev # INVALID_LSN
      <4>1. PICK j \in Opens(t) : Log[j].lsn = r.prev /\ Last(Opens(t), j)
        BY <2>2, <3>4 DEF Fits
      <4>2. \A m \in Opens(t)' : m <= j \/ m >= n
        BY <4>1, <3>2, <1>0 DEF Last
      <4>3. \E x \in Opens(t)' : /\ x < n /\ Log'[x].lsn = r.prev
                                 /\ \A m \in Opens(t)' : m <= x \/ m >= n
        BY <4>1, <4>2, <3>1
      <4> QED
        BY <3>4, <4>3, <1>0 DEF ChainAt
    <3> QED
      BY <3>3, <3>4
  <2> QED
    BY <2>1, <2>2, <1>0 DEF Chained
<1>4. Closed'
  <2>1. ASSUME NEW t \in Txns, NEW x \in Ends(t)', NEW i \in By(t)' PROVE i <= x
    <3>1. CASE x \in Ends(t)
      <4>1. r.txn # t
        BY <3>1 DEF Fits
      <4> QED
        BY <3>1, <4>1, <1>0 DEF LogInv, Closed
    <3>2. CASE x = n
      <4>1. i \in Recs \/ i = n
        BY <1>0 DEF By
      <4> QED
        BY <3>2, <4>1, <1>0
    <3> QED
      BY <3>1, <3>2, <1>0
  <2> QED
    BY <2>1 DEF Closed
<1>5. Blocks'
  <2>1. ASSUME NEW t \in Txns, NEW k \in Keys, NEW i \in OnBy(t, k)', NEW j \in On(k)', i < j, Log'[j].txn # t
        PROVE  \E x \in Ends(t)' : x < j
    <3>1. CASE j \in On(k)
      <4>1. j \in Recs /\ j < n /\ j \in Nat /\ Log'[j] = Log[j]
        BY <3>1, <1>0 DEF On
      <4>2. i \in OnBy(t, k)
        BY <4>1, <2>1, <1>0
      <4>3. \E x \in Ends(t) : x < j
        BY <3>1, <4>1, <4>2, <2>1 DEF LogInv, Blocks
      <4> QED
        BY <4>3, <1>0
    <3>2. CASE j = n
      <4>1. r.key = k /\ r.txn # t
        BY <3>2, <2>1, <1>0 DEF On
      <4>2. i \in OnBy(t, k)
        BY <3>2, <2>1, <1>0
      <4>3. Ends(t) # {}
        BY <4>1, <4>2 DEF Fits
      <4>4. \A x \in Ends(t) : x \in Ends(t)' /\ x < n
        BY <1>0 DEF Ends, By
      <4> QED
        BY <3>2, <4>3, <4>4
    <3> QED
      BY <3>1, <3>2, <1>0
  <2> QED
    BY <2>1 DEF Blocks
<1>6. Aborted'
  <2>0. \A t, k : \A i \in OnBy(t, k) : Log'[i] = Log[i]
    BY <1>0 DEF OnBy, On
  <2>1. ASSUME NEW t \in Txns, UndoneBy(t), r.txn # t \/ r.key \notin Keys PROVE UndoneBy(t)'
    <3>1. \A k \in Keys : OnBy(t, k)' = OnBy(t, k)
      <4>1. \A k \in Keys : \A i : i \in OnBy(t, k)' <=> i \in OnBy(t, k)
        BY <2>1, <1>0
      <4> QED
        BY <4>1, Zenon
    <3> QED
      BY <2>0, <2>1, <3>1 DEF UndoneBy
  <2>2. ASSUME NEW t \in Txns, NEW x \in Ends(t)', Log'[x].type = "ABORT" PROVE UndoneBy(t)'
    <3>1. CASE x \in Ends(t)
      <4>1. r.txn # t
        BY <3>1 DEF Fits
      <4>2. Log'[x] = Log[x]
        BY <3>1, <1>0 DEF Ends, By
      <4>3. UndoneBy(t)
        BY <3>1, <4>2, <2>2 DEF LogInv, Aborted
      <4> QED
        BY <4>1, <4>3, <2>1
    <3>2. CASE x = n
      <4>1. x \notin Recs /\ r.type = "ABORT"
        BY <3>2, <2>2, <1>0
      <4>2. r.txn = t /\ r.key \notin Keys
        BY <3>2, <4>1, <2>2, <1>0 DEF Ends, By, Fits
      <4>3. UndoneBy(t)
        BY <4>1, <4>2 DEF Fits
      <4> QED
        BY <4>2, <4>3, <2>1
    <3> QED
      BY <3>1, <3>2, <1>0
  <2> QED
    BY <2>2 DEF Aborted
<1>7. Deletes'
  <2>1. SUFFICES ASSUME NEW t \in Txns, NEW k \in Keys, NEW f \in OnBy(t, k)', First(OnBy(t, k)', f),
                        Log'[f].type = "DELETE"
        PROVE  \/ OverTo(f - 1, k)'
               \/ /\ ComTo(f - 1, k)' # Absent
                  /\ Log'[f].value \in {ComTo(f - 1, k)', KeyText}
    BY DEF Deletes
  <2>2. SameTo(Len(Log)) /\ Len(Log) \in Int /\ n = Len(Log) + 1
    BY RecsAre DEF Grown
  <2>3. CASE f \in OnBy(t, k)
    <3>1. First(OnBy(t, k), f)
      BY <2>1, <2>3, <1>0 DEF First
    <3>2. Log'[f] = Log[f] /\ f \in Nat /\ f < n
      BY <2>3, <1>0 DEF OnBy, On
    <3>3. \/ OverTo(f - 1, k)
          \/ /\ ComTo(f - 1, k) # Absent
             /\ Log[f].value \in {ComTo(f - 1, k), KeyText}
      BY <2>1, <2>3, <3>1, <3>2 DEF LogInv, Deletes
    <3>4. f - 1 \in Int /\ f - 1 <= Len(Log)
      BY <3>2, <2>2
    <3>5. ComTo(f - 1, k)' = ComTo(f - 1, k) /\ (OverTo(f - 1, k) => OverTo(f - 1, k)')
      BY <3>4, <2>2, SamePast
    <3> QED
      BY <3>2, <3>3, <3>5
  <2>4. CASE f = n
    <3>1. r.key = k /\ r.txn = t /\ r.type = "DELETE" /\ f - 1 = Len(Log)
      BY <2>1, <2>2, <2>4, <1>0 DEF OnBy, On
    <3>2. OnBy(t, k) = {}
      <4>1. ASSUME NEW i \in OnBy(t, k) PROVE FALSE
        <5>1. i < n /\ i \in Nat /\ i \in OnBy(t, k)'
          BY <1>0 DEF OnBy, On
        <5> QED
          BY <5>1, <2>1, <2>4, <1>0 DEF First
      <4> QED
        BY <4>1
    <3>3. \/ OverTo(f - 1, k)
          \/ /\ ComTo(f - 1, k) # Absent
             /\ r.value \in {ComTo(f - 1, k), KeyText}
      BY <3>1, <3>2 DEF Fits
    <3>4. f - 1 \in Int /\ f - 1 <= Len(Log)
      BY <3>1, <2>2
    <3>5. ComTo(f - 1, k)' = ComTo(f - 1, k) /\ (OverTo(f - 1, k) => OverTo(f - 1, k)')
      BY <3>4, <2>2, SamePast
    <3> QED
      BY <2>4, <3>3, <3>5, <1>0
  <2> QED
    BY <2>3, <2>4, <1>0
<1> QED
  BY <1>1, <1>2, <1>3, <1>4, <1>5, <1>6, <1>7 DEF LogInv

\* Steps that do not write the log keep its sets.
LEMMA KeptSets ==
  ASSUME UNCHANGED <<disk, tail>>
  PROVE  /\ Log' = Log /\ Recs' = Recs /\ (Typed => Typed')
         /\ \A t : By(t)' = By(t) /\ Ends(t)' = Ends(t) /\ Opens(t)' = Opens(t)
         /\ \A k : On(k)' = On(k)
         /\ \A t, k : OnBy(t, k)' = OnBy(t, k)
         /\ \A n : WinTo(n)' = WinTo(n)
         /\ \A t : UndoneBy(t)' <=> UndoneBy(t)
<1>1. Log' = Log
  BY DEF Log
<1>2. Recs' = Recs
  BY <1>1 DEF Recs, Records
<1>3. \A t : By(t)' = By(t) /\ Ends(t)' = Ends(t) /\ Opens(t)' = Opens(t)
  BY <1>1, <1>2, Zenon DEF By, Ends, Opens
<1>4. \A k : On(k)' = On(k)
  BY <1>1, <1>2, Zenon DEF On
<1>5. \A t, k : OnBy(t, k)' = OnBy(t, k)
  BY <1>1, <1>4, Zenon DEF OnBy
<1>6. \A n : WinTo(n)' = WinTo(n)
  BY <1>1, <1>2, Zenon DEF WinTo
<1>7. \A t : UndoneBy(t)' <=> UndoneBy(t)
  BY <1>1, <1>5, Zenon DEF UndoneBy
<1> QED
  BY <1>1, <1>2, <1>3, <1>4, <1>5, <1>6, <1>7, Zenon DEF Typed

\* Steps that do not write the log keep what is said of it.
LEMMA KeptLog ==
  ASSUME UNCHANGED <<disk, tail>>, LogInv
  PROVE  LogInv'
<1>0. /\ Log' = Log /\ Recs' = Recs
      /\ \A t : By(t)' = By(t) /\ Ends(t)' = Ends(t) /\ Opens(t)' = Opens(t)
      /\ \A k : On(k)' = On(k)
      /\ \A t, k : OnBy(t, k)' = OnBy(t, k)
      /\ \A n : WinTo(n)' = WinTo(n)
      /\ \A t : UndoneBy(t)' <=> UndoneBy(t)
  BY KeptSets, Zenon
<1>1. Shaped' /\ Numbered' /\ Closed' /\ Aborted'
  BY <1>0, Zenon DEF LogInv, Shaped, Numbered, Closed, Aborted
<1>2. Chained'
  BY <1>0, Zenon DEF LogInv, Chained, ChainAt
<1>3. Blocks'
  BY <1>0, Zenon DEF LogInv, Blocks
<1>4. \A n, k : WonTo(n, k)' = WonTo(n, k)
  BY <1>0, Zenon DEF WonTo
<1>5. \A n, k : ComTo(n, k)' = ComTo(n, k)
  BY <1>0, <1>4, Zenon DEF ComTo
<1>6. \A n, k : OverTo(n, k)' <=> OverTo(n, k)
  BY <1>0, <1>5, Zenon DEF OverTo
<1>7. Deletes'
  BY <1>0, <1>5, <1>6, Zenon DEF LogInv, Deletes
<1> QED
  BY <1>1, <1>2, <1>3, <1>7 DEF LogInv

(***************************************************************************)
(* What every step that appends a record shares.                           *)
(***************************************************************************)

StateTypes ==
  /\ Typed /\ next_lsn \in Nat
  /\ kv \in [Keys -> Values \cup {KeyText, Absent}]
  /\ txn \in [Txns -> [at : {"new", "active", "prepared", "ended"}, prev : Nat \cup {INVALID_LSN}]]
  /\ owner \in [Keys -> Txns \cup {InvalidTxn}]
  /\ phase \in {"normal", "redo", "undo", "abort"}
  /\ offset \in Nat /\ inner \in 0..BufferSize /\ crashes \in 0..MaxCrashes
  /\ DOMAIN active_txn \subseteq Txns \cup {InvalidTxn}
  /\ phase = "abort" => undo_list \subseteq DOMAIN active_txn

Inv == StateTypes /\ RecInv

\* AppendLogRecord gives the next number.
LEMMA GrowNext ==
  ASSUME Typed, NextOK, NEW r, Grown(r), r.lsn = next_lsn, next_lsn \in Nat, next_lsn' = next_lsn + 1,
         phase # "redo", LogInv
  PROVE  NextOK'
<1>0. /\ \A i \in Recs : Log'[i] = Log[i]
      /\ Log'[Len(Log) + 1] = r /\ Recs' = Recs \cup {Len(Log) + 1}
  BY GrownSets
<1>1. ASSUME NEW i \in Recs' PROVE Log'[i].lsn < next_lsn'
  <2>1. \A j \in Recs : Log[j].lsn < next_lsn /\ Log[j].lsn \in Nat
    BY DEF NextOK, LogInv, Shaped
  <2> QED
    BY <2>1, <1>0
<1>2. ASSUME NEW l \in 0..(next_lsn' - 1) PROVE \E i \in Recs' : Log'[i].lsn = l
  <2>1. CASE l = next_lsn
    BY <2>1, <1>0
  <2>2. CASE l # next_lsn
    <3>1. l \in 0..(next_lsn - 1)
      BY <2>2
    <3>2. \E i \in Recs : Log[i].lsn = l
      BY <3>1 DEF NextOK
    <3> QED
      BY <3>2, <1>0
  <2> QED
    BY <2>1, <2>2
<1> QED
  BY <1>1, <1>2 DEF NextOK

\* A record of another key leaves a key as it is.
LEMMA StoreStays ==
  ASSUME Typed, NEW k \in Keys, StoreAt(k), NEW r, Grown(r), r.key # k, kv'[k] = kv[k],
         \A t \in Txns : txn[t].at = "ended" => txn'[t].at = "ended" /\ (r.txn = t => r.type # "COMMIT")
  PROVE  StoreAt(k)'
<1>0. /\ \A t, i : i \in Ends(t)' <=> i \in Ends(t) \/ (i = Len(Log) + 1 /\ r.txn = t /\ r.type \in Ending)
      /\ \A i : i \in On(k)' <=> i \in On(k) \/ (i = Len(Log) + 1 /\ r.key = k)
      /\ \A t, i : i \in OnBy(t, k)' <=> i \in OnBy(t, k) \/ (i = Len(Log) + 1 /\ r.key = k /\ r.txn = t)
      /\ \A i \in Recs : Log'[i] = Log[i]
      /\ Log'[Len(Log) + 1] = r
  BY GrownSets
<1>1. On(k)' = On(k) /\ \A i \in On(k) : Log'[i] = Log[i]
  <2>1. \A i : i \in On(k)' <=> i \in On(k)
    BY <1>0
  <2>2. \A i \in On(k) : i \in Recs
    BY DEF On
  <2> QED
    BY <2>1, <2>2, <1>0
<1>2. CASE After(On(k), kv[k])
  <2>1. After(On(k), kv[k])'
    BY <1>1, <1>2 DEF After
  <2> QED
    BY <2>1 DEF StoreAt
<1>3. CASE /\ kv[k] = KeyText
           /\ \E t \in Txns : \E m \in OnBy(t, k) : Last(On(k), m) /\ Log[m].type = "INSERT" /\ Lost(t)
  <2>0. PICK t \in Txns : \E m \in OnBy(t, k) : Last(On(k), m) /\ Log[m].type = "INSERT" /\ Lost(t)
    BY <1>3
  <2>1. PICK m \in OnBy(t, k) : Last(On(k), m) /\ Log[m].type = "INSERT" /\ Lost(t)
    BY <2>0
  <2>2. m \in OnBy(t, k)' /\ Last(On(k)', m) /\ Log'[m].type = "INSERT"
    BY <2>1, <1>0, <1>1 DEF Last
  <2>3. Lost(t)'
    <3>1. txn'[t].at = "ended"
      BY <2>1 DEF Lost
    <3>2. ASSUME NEW i \in Ends(t)' PROVE Log'[i].type # "COMMIT"
      <4>1. CASE i \in Ends(t)
        <5>1. i \in Recs
          BY <4>1 DEF Ends, By
        <5> QED
          BY <4>1, <5>1, <2>1, <1>0 DEF Lost
      <4>2. CASE i \notin Ends(t)
        BY <4>2, <2>1, <1>0 DEF Lost
      <4> QED
        BY <4>1, <4>2
    <3> QED
      BY <3>1, <3>2 DEF Lost
  <2> QED
    BY <1>3, <2>2, <2>3 DEF StoreAt
<1> QED
  BY <1>2, <1>3 DEF StoreAt

\* A record that writes nothing.
LEMMA QuietStore ==
  ASSUME Typed, StoreOK, NEW r, Grown(r), r.key \notin Keys, kv' = kv, phase # "redo", phase' # "redo",
         \A t \in Txns : txn[t].at = "ended" => txn'[t].at = "ended" /\ (r.txn = t => r.type # "COMMIT")
  PROVE  StoreOK'
<1>1. ASSUME NEW k \in Keys PROVE StoreAt(k)'
  <2>1. StoreAt(k) /\ r.key # k /\ kv'[k] = kv[k]
    BY DEF StoreOK
  <2> QED
    BY <2>1, StoreStays
<1> QED
  BY <1>1 DEF StoreOK

\* A record that writes a key.
LEMMA WriteStore ==
  ASSUME Typed, StoreOK, NEW r, Grown(r), r.key \in Keys, r.txn \in Txns, phase # "redo", phase' # "redo",
         kv \in [Keys -> Values \cup {KeyText, Absent}], r.type \in {"INSERT", "DELETE"},
         NEW x, kv' = [kv EXCEPT ![r.key] = x],
         \/ x = Stored(r)
         \/ x = KeyText /\ r.type = "INSERT" /\ txn'[r.txn].at = "ended" /\ Ends(r.txn) = {},
         \A t \in Txns : txn[t].at = "ended" => txn'[t].at = "ended"
  PROVE  StoreOK'
<1>1. ASSUME NEW k \in Keys, k # r.key PROVE StoreAt(k)'
  <2>1. StoreAt(k) /\ r.key # k /\ kv'[k] = kv[k]
    BY <1>1 DEF StoreOK
  <2>2. \A t \in Txns : txn[t].at = "ended" => txn'[t].at = "ended" /\ (r.txn = t => r.type # "COMMIT")
    OBVIOUS
  <2> QED
    BY <2>1, <2>2, StoreStays
<1>2. StoreAt(r.key)'
  <2> SUFFICES ASSUME NEW k, k = r.key, NEW n, n = Len(Log) + 1, NEW t, t = r.txn PROVE StoreAt(k)'
    OBVIOUS
  <2>0. /\ \A i : i \in Ends(t)' <=> i \in Ends(t) \/ (i = n /\ r.txn = t /\ r.type \in Ending)
        /\ \A i : i \in On(k)' <=> i \in On(k) \/ (i = n /\ r.key = k)
        /\ \A i : i \in OnBy(t, k)' <=> i \in OnBy(t, k) \/ (i = n /\ r.key = k /\ r.txn = t)
        /\ \A i \in Recs : i < n /\ i \in Nat
        /\ Log'[n] = r /\ n \in Nat
    BY GrownSets
  <2>1. n \in OnBy(t, k)' /\ n \in On(k)' /\ Last(On(k)', n)
    BY <2>0 DEF Last, On
  <2>2. kv'[k] = x
    OBVIOUS
  <2>3. CASE x = Stored(r)
    <3>1. After(On(k), kv[k])'
      BY <2>0, <2>1, <2>2, <2>3 DEF After, Stored
    <3> QED
      BY <3>1 DEF StoreAt
  <2>4. CASE x = KeyText /\ r.type = "INSERT" /\ txn'[r.txn].at = "ended" /\ Ends(r.txn) = {}
    <3>1. Ends(t)' = {}
      BY <2>0, <2>4 DEF Ending
    <3>2. Lost(t)'
      BY <3>1, <2>4 DEF Lost
    <3> QED
      BY <3>2, <2>0, <2>1, <2>2, <2>4 DEF StoreAt
  <2> QED
    BY <2>3, <2>4
<1> QED
  BY <1>1, <1>2 DEF StoreOK

(***************************************************************************)
(* What recovery leaves.                                                   *)
(***************************************************************************)

\* A winner is a transaction with a COMMIT.
LEMMA WhoWon ==
  ASSUME NEW n, NEW t
  PROVE  t \in WinTo(n) <=> \E e \in Ends(t) : e <= n /\ Log[e].type = "COMMIT"
BY DEF WinTo, Ends, By, Ending

\* A transaction ends once.
LEMMA OneEnd ==
  ASSUME Typed, LogInv, NEW t \in Txns, NEW d \in Ends(t), NEW e \in Ends(t)
  PROVE  d = e
<1>1. d <= e /\ e <= d
  BY DEF LogInv, Closed, Ends
<1>2. d \in Nat /\ e \in Nat
  BY RecsAre DEF Ends, By
<1> QED
  BY <1>1, <1>2

\* Keys are written by transactions.
LEMMA Writers ==
  ASSUME Typed, LogInv, NEW k \in Keys, NEW i \in On(k)
  PROVE  /\ Log[i].txn \in Txns /\ i \in OnBy(Log[i].txn, k) /\ i \in By(Log[i].txn)
         /\ i \in Nat /\ i <= Len(Log) /\ i \in Recs
         /\ Log[i].type \in {"INSERT", "DELETE"}
BY RecsAre DEF On, OnBy, By, LogInv, Shaped

\* Who wrote a key before another transaction did had ended before.
LEMMA PastWinners ==
  ASSUME Typed, LogInv, NEW k \in Keys, NEW f \in On(k), NEW i \in On(k), i < f, Log[i].txn # Log[f].txn
  PROVE  Log[i].txn \in WinTo(Len(Log)) <=> Log[i].txn \in WinTo(f - 1)
<1> DEFINE u == Log[i].txn
<1>1. u \in Txns /\ i \in OnBy(u, k) /\ f \in Nat /\ f <= Len(Log) /\ Len(Log) \in Nat
  BY Writers, RecsAre
<1>2. PICK r \in Ends(u) : r < f
  BY <1>1 DEF LogInv, Blocks
<1>3. r \in Nat /\ \A e \in Ends(u) : e = r
  BY <1>1, <1>2, OneEnd, RecsAre DEF Ends, By
<1>4. r <= f - 1 /\ r <= Len(Log)
  BY <1>1, <1>2, <1>3
<1> QED
  BY <1>3, <1>4, WhoWon

\* A key last written by a transaction that was aborted.
LEMMA LostKey ==
  ASSUME Typed, LogInv, NEW k \in Keys, NEW t \in Txns, NEW m \in OnBy(t, k), Last(On(k), m),
         NEW e \in Ends(t), Log[e].type = "ABORT", NEW f, First(OnBy(t, k), f)
  PROVE  /\ t \notin WinTo(Len(Log)) /\ ComTo(Len(Log), k) = ComTo(f - 1, k)
         /\ OverTo(f - 1, k) => OverTo(Len(Log), k)
<1> DEFINE n == Len(Log)
<1>0. /\ f \in OnBy(t, k) /\ f \in On(k) /\ Log[f].txn = t /\ f \in Nat /\ f <= n /\ n \in Nat
      /\ m \in By(t) /\ e \in Nat /\ m \in Nat
  BY Writers, RecsAre DEF First, OnBy, Ends, By, On
<1>1. t \notin WinTo(n)
  <2>1. \A d \in Ends(t) : Log[d].type # "COMMIT"
    BY OneEnd
  <2> QED
    BY <2>1, WhoWon
<1>2. ASSUME NEW i \in On(k), Log[i].txn # t PROVE i < f /\ i \in Nat
  <2>1. i \in Nat /\ i <= m
    BY Writers DEF Last
  <2>2. i # f
    BY <1>0, <1>2
  <2>3. ASSUME f < i PROVE FALSE
    <3>1. PICK r \in Ends(t) : r < i
      BY <1>0, <1>2, <2>3 DEF LogInv, Blocks
    <3>2. r = e /\ m <= e
      BY <1>0, OneEnd DEF LogInv, Closed
    <3> QED
      BY <1>0, <2>1, <3>1, <3>2
  <2> QED
    BY <1>0, <2>1, <2>2, <2>3
<1>3. \A i \in On(k) : Log[i].txn # t => (Log[i].txn \in WinTo(n) <=> Log[i].txn \in WinTo(f - 1))
  BY <1>0, <1>2, PastWinners
<1>4. t \notin WinTo(f - 1)
  <2>1. \A d \in Ends(t) : Log[d].type # "COMMIT"
    BY OneEnd
  <2> QED
    BY <2>1, WhoWon
<1>5. WonTo(n, k) = WonTo(f - 1, k)
  <2>1. ASSUME NEW i \in On(k) PROVE i \in WonTo(n, k) <=> i \in WonTo(f - 1, k)
    <3>1. CASE Log[i].txn = t
      BY <3>1, <1>1, <1>4 DEF WonTo
    <3>2. CASE Log[i].txn # t
      <4>0. i < f /\ i \in Nat
        BY <3>2, <1>2
      <4>1. i <= n /\ i <= f - 1
        BY <4>0, <1>0
      <4> QED
        BY <3>2, <4>1, <1>3 DEF WonTo
    <3> QED
      BY <3>1, <3>2
  <2> QED
    BY <2>1 DEF WonTo
<1>6. ComTo(n, k) = ComTo(f - 1, k)
  BY <1>5, Zenon DEF ComTo
<1>7. ASSUME OverTo(f - 1, k) PROVE OverTo(n, k)
  <2>1. PICK i \in On(k) :
          /\ i <= f - 1 /\ Log[i].txn \notin WinTo(f - 1) /\ Log[i].type = "INSERT"
          /\ ComTo(i - 1, k) # Absent
          /\ ~ \E j \in OnBy(Log[i].txn, k) : j < i /\ Log[j].type = "DELETE"
    BY <1>7 DEF OverTo
  <2>2. i \in Nat /\ i <= n
    BY <2>1, Writers
  <2>3. Log[i].txn \notin WinTo(n)
    BY <1>1, <1>3, <2>1
  <2> QED
    BY <2>1, <2>2, <2>3 DEF OverTo
<1> QED
  BY <1>1, <1>6, <1>7

\* A key nobody is writing.
LEMMA KeyRecovered ==
  ASSUME StateTypes, LogInv, OwnersOK, StoreOK, phase = "normal", NEW k \in Keys, owner[k] = InvalidTxn
  PROVE  \/ OverTo(Len(Log), k)
         \/ kv[k] = ComTo(Len(Log), k)
         \/ /\ kv[k] = KeyText /\ ComTo(Len(Log), k) # Absent
            /\ \E i \in On(k) : Log[i].txn \notin WinTo(Len(Log)) /\ Log[i].type = "DELETE"
<1> DEFINE n == Len(Log)
<1>0. Typed /\ StoreAt(k) /\ n \in Nat /\ \A i \in On(k) : i \in Nat /\ i <= n
  BY RecsAre DEF StateTypes, StoreOK, On
<1>1. CASE On(k) = {}
  <2>1. kv[k] = Absent
    BY <1>0, <1>1 DEF StoreAt, After, OnBy
  <2>2. WonTo(n, k) = {}
    BY <1>1 DEF WonTo
  <2> QED
    BY <2>1, <2>2 DEF ComTo
<1>2. CASE On(k) # {}
  <2>0. On(k) \in SUBSET Nat
    BY <1>0
  <2>1. PICK m : Last(On(k), m)
    BY <1>0, <1>2, <2>0, HasLast
  <2>2. m \in On(k) /\ m \in Nat /\ m <= n
    BY <1>0, <2>1 DEF Last
  <2> DEFINE t == Log[m].txn
  <2>3. t \in Txns /\ m \in OnBy(t, k) /\ Log[m].type \in {"INSERT", "DELETE"}
    BY <1>0, <2>2, Writers
  <2>4. \A x : Last(On(k), x) => x = m
    BY <1>0, <2>1 DEF Last
  <2>5. Ends(t) # {}
    <3>1. t # InvalidTxn
      BY <2>3, RecoveryAssumption
    <3> QED
      BY <2>3, <3>1 DEF OwnersOK
  <2>6. PICK e \in Ends(t) : TRUE
    BY <2>5
  <2>7. kv[k] = Stored(Log[m]) \/ (kv[k] = KeyText /\ Log[m].type = "INSERT" /\ Lost(t))
    <3>1. CASE After(On(k), kv[k])
      BY <1>2, <2>4, <3>1 DEF After
    <3>2. CASE /\ kv[k] = KeyText
               /\ \E u \in Txns : \E x \in OnBy(u, k) : Last(On(k), x) /\ Log[x].type = "INSERT" /\ Lost(u)
      BY <2>4, <3>2 DEF OnBy
    <3> QED
      BY <1>0, <3>1, <3>2 DEF StoreAt
  <2>8. CASE Log[e].type = "COMMIT"
    <3>1. e <= n
      BY <1>0, <2>6, RecsAre DEF Ends, By
    <3>2. t \in WinTo(n)
      BY <2>6, <2>8, <3>1, WhoWon
    <3>3. Last(WonTo(n, k), m) /\ WonTo(n, k) \in SUBSET Int
      <4>1. m \in WonTo(n, k)
        BY <2>2, <3>2 DEF WonTo
      <4>2. WonTo(n, k) \subseteq On(k)
        BY DEF WonTo
      <4> QED
        BY <4>1, <4>2, <2>0, <2>1 DEF Last
    <3>4. Max(WonTo(n, k)) = m /\ WonTo(n, k) # {}
      BY <3>3, MaxIsLast DEF Last
    <3>5. ComTo(n, k) = Stored(Log[m])
      BY <3>4, Zenon DEF ComTo, Stored
    <3>6. ~Lost(t)
      BY <2>6, <2>8 DEF Lost
    <3> QED
      BY <2>7, <3>5, <3>6
  <2>9. CASE Log[e].type = "ABORT"
    <3>0. OnBy(t, k) \in SUBSET Nat /\ OnBy(t, k) # {}
      BY <1>0, <2>3 DEF OnBy
    <3>1. PICK f : First(OnBy(t, k), f)
      BY <3>0, HasFirst
    <3>2. Last(OnBy(t, k), m)
      BY <2>1, <2>3 DEF Last, OnBy
    <3>3. f \in OnBy(t, k) /\ f \in On(k) /\ Log[f].txn = t /\ Log[f].type \in {"INSERT", "DELETE"} /\ f <= n
      BY <1>0, <3>1, Writers DEF First, OnBy
    <3>4. Log[m].type # Log[f].type /\ Log[m].value = Log[f].value
      BY <2>3, <2>6, <2>9, <3>1, <3>2, <3>3 DEF LogInv, Aborted, UndoneBy, Undoes
    <3>5. /\ t \notin WinTo(n) /\ ComTo(n, k) = ComTo(f - 1, k)
          /\ OverTo(f - 1, k) => OverTo(n, k)
      BY <1>0, <2>1, <2>3, <2>6, <2>9, <3>1, LostKey
    <3>6. CASE Log[f].type = "INSERT"
      <4>1. kv[k] = Absent
        BY <2>3, <2>7, <3>3, <3>4, <3>6 DEF Stored
      <4>2. CASE ComTo(f - 1, k) = Absent
        BY <4>1, <4>2, <3>5
      <4>3. CASE ComTo(f - 1, k) # Absent
        <5>1. \A j \in OnBy(t, k) : f <= j /\ f \in Nat /\ j \in Nat
          BY <3>0, <3>1 DEF First
        <5>2. ~ \E j \in OnBy(t, k) : j < f /\ Log[j].type = "DELETE"
          BY <5>1
        <5>3. OverTo(n, k)
          BY <3>3, <3>5, <3>6, <4>3, <5>2 DEF OverTo
        <5> QED
          BY <5>3
      <4> QED
        BY <4>2, <4>3
    <3>7. CASE Log[f].type = "DELETE"
      <4>1. Log[m].type = "INSERT"
        BY <2>3, <3>4, <3>7
      <4>2. kv[k] = Log[f].value \/ kv[k] = KeyText
        BY <2>7, <3>4, <4>1 DEF Stored
      <4>3. \/ OverTo(f - 1, k)
            \/ /\ ComTo(f - 1, k) # Absent
               /\ Log[f].value \in {ComTo(f - 1, k), KeyText}
        BY <2>3, <3>1, <3>3, <3>7 DEF LogInv, Deletes
      <4> QED
        BY <4>2, <4>3, <3>3, <3>5, <3>7
    <3> QED
      BY <3>3, <3>6, <3>7
  <2> QED
    BY <2>6, <2>8, <2>9 DEF Ends, Ending
<1> QED
  BY <1>1, <1>2

(***************************************************************************)
(* Normal operation.                                                       *)
(***************************************************************************)

\* An append in normal operation keeps the invariant if transactions, locks and store follow.
LEMMA NormalStep ==
  ASSUME Inv, phase = "normal", phase' = phase, NEW r, Grown(r), Fits(r), r.lsn = next_lsn,
         next_lsn' = next_lsn + 1, TxnsOK', OwnersOK', StoreOK', StateTypes'
  PROVE  Inv'
<1>1. LogInv'
  BY GrowLog DEF Inv, RecInv, StateTypes
<1>2. NextOK'
  BY GrowNext DEF Inv, RecInv, StateTypes
<1>3. RedoOK' /\ MappingOK' /\ ActiveOK' /\ UndoOK' /\ AbortOK'
  BY DEF RedoOK, MappingOK, ActiveOK, UndoOK, AbortOK
<1> QED
  BY <1>1, <1>2, <1>3 DEF Inv, RecInv

\* A record leaves other transactions as they are.
LEMMA OtherTxn ==
  ASSUME Typed, NEW r, Grown(r), NEW u \in Txns, u # r.txn, TxnOK(u), txn'[u] = txn[u], phase' = phase
  PROVE  TxnOK(u)'
<1>0. /\ \A t, i : i \in By(t)' <=> i \in By(t) \/ (i = Len(Log) + 1 /\ r.txn = t)
      /\ \A t, i : i \in Ends(t)' <=> i \in Ends(t) \/ (i = Len(Log) + 1 /\ r.txn = t /\ r.type \in Ending)
      /\ \A t, i : i \in Opens(t)' <=> i \in Opens(t) \/ (i = Len(Log) + 1 /\ r.txn = t /\ r.type \in Open)
      /\ \A i \in Recs : Log'[i] = Log[i]
  BY GrownSets
<1>1. By(u)' = By(u) /\ Ends(u)' = Ends(u) /\ Opens(u)' = Opens(u)
  <2>1. \A i : i \in By(u)' <=> i \in By(u)
    BY <1>0
  <2>2. \A i : i \in Ends(u)' <=> i \in Ends(u)
    BY <1>0
  <2>3. \A i : i \in Opens(u)' <=> i \in Opens(u)
    BY <1>0
  <2> QED
    BY <2>1, <2>2, <2>3, Zenon
<1>2. \A i \in Opens(u) : Log'[i] = Log[i]
  BY <1>0 DEF Opens, By
<1> QED
  BY <1>1, <1>2 DEF TxnOK

\* A record of a transaction that is in progress and not ended by it.
LEMMA OwnTxn ==
  ASSUME Typed, NEW r, Grown(r), r.txn \in Txns, Ends(r.txn) = {}, r.type \notin Ending,
         phase = "normal", phase' = phase, txn'[r.txn].at \in {"active", "prepared"},
         txn'[r.txn].at = "active" => r.type \in Open /\ txn'[r.txn].prev = r.lsn
  PROVE  TxnOK(r.txn)'
<1> SUFFICES ASSUME NEW t, t = r.txn, NEW n, n = Len(Log) + 1 PROVE TxnOK(t)'
  OBVIOUS
<1>0. /\ \A i : i \in By(t)' <=> i \in By(t) \/ (i = n /\ r.txn = t)
      /\ \A i : i \in Ends(t)' <=> i \in Ends(t) \/ (i = n /\ r.txn = t /\ r.type \in Ending)
      /\ \A i : i \in Opens(t)' <=> i \in Opens(t) \/ (i = n /\ r.txn = t /\ r.type \in Open)
      /\ \A i \in Recs : i < n /\ i \in Nat
      /\ Log'[n] = r /\ n \in Nat
  BY GrownSets
<1>1. Ends(t)' = {}
  BY <1>0
<1>2. ASSUME txn'[t].at = "active" PROVE \E i \in Opens(t)' : Last(By(t)', i) /\ Log'[i].lsn = txn'[t].prev
  <2>1. n \in Opens(t)' /\ Log'[n].lsn = txn'[t].prev
    BY <1>0, <1>2
  <2>2. Last(By(t)', n)
    BY <1>0 DEF Last, By
  <2> QED
    BY <2>1, <2>2
<1> QED
  BY <1>1, <1>2 DEF TxnOK

\* A record that writes nothing and releases nothing.
LEMMA OwnersStay ==
  ASSUME Typed, NEW r, Grown(r), OwnersOK, owner' = owner, phase = "normal", r.key \notin Keys, r.type \notin Ending,
         owner \in [Keys -> Txns \cup {InvalidTxn}],
         \A u \in Txns : txn[u].at \in {"active", "prepared"} => txn'[u].at \in {"active", "prepared"}
  PROVE  OwnersOK'
<1>0. /\ \A t, i : i \in Ends(t)' <=> i \in Ends(t) \/ (i = Len(Log) + 1 /\ r.txn = t /\ r.type \in Ending)
      /\ \A t, k, i : i \in OnBy(t, k)' <=> i \in OnBy(t, k) \/ (i = Len(Log) + 1 /\ r.key = k /\ r.txn = t)
  BY GrownSets
<1>1. \A t, i : i \in Ends(t)' <=> i \in Ends(t)
  BY <1>0
<1>2. \A k \in Keys : \A t, i : i \in OnBy(t, k)' <=> i \in OnBy(t, k)
  BY <1>0
<1>3. \A k \in Keys : owner[k] # InvalidTxn =>
        txn'[owner[k]].at \in {"active", "prepared"} /\ OnBy(owner[k], k)' # {}
  <2>1. ASSUME NEW k \in Keys, NEW t, t = owner[k], t # InvalidTxn
        PROVE  txn'[t].at \in {"active", "prepared"} /\ OnBy(t, k)' # {}
    <3>1. t \in Txns /\ txn[t].at \in {"active", "prepared"} /\ OnBy(t, k) # {}
      BY <2>1 DEF OwnersOK
    <3> QED
      BY <3>1, <1>2
  <2> QED
    BY <2>1
<1>4. \A t \in Txns, k \in Keys : OnBy(t, k)' # {} /\ Ends(t)' = {} => owner[k] = t
  <2>1. ASSUME NEW t \in Txns, NEW k \in Keys, OnBy(t, k)' # {}, Ends(t)' = {} PROVE owner[k] = t
    <3>1. OnBy(t, k) # {} /\ Ends(t) = {}
      BY <2>1, <1>1, <1>2
    <3> QED
      BY <3>1 DEF OwnersOK
  <2> QED
    BY <2>1
<1> QED
  BY <1>3, <1>4 DEF OwnersOK

\* The fields of a transaction.
LEMMA TxnType ==
  ASSUME StateTypes, NEW t \in Txns
  PROVE  /\ txn[t].at \in {"new", "active", "prepared", "ended"}
         /\ txn[t].prev \in Nat \cup {INVALID_LSN}
         /\ t # InvalidTxn
BY RecoveryAssumption DEF StateTypes

\* The next number fits the log.
LEMMA NextFits ==
  ASSUME Inv, phase # "redo"
  PROVE  /\ next_lsn \in Nat
         /\ \A i \in Recs : Log[i].lsn < next_lsn
         /\ \A l \in 0..(next_lsn - 1) : \E i \in Recs : Log[i].lsn = l
BY DEF Inv, RecInv, NextOK, StateTypes

\* TransactionManager::Begin keeps the invariant.
LEMMA BeginKeeps ==
  ASSUME Inv, NEW t \in Txns, Begin(t)
  PROVE  Inv'
<1> SUFFICES ASSUME NEW r, r = Record(next_lsn, t, txn[t].prev, "BEGIN", NoKey, Absent) PROVE Inv'
  OBVIOUS
<1>0. /\ Typed /\ LogInv /\ StateTypes /\ TxnOK(t) /\ phase = "normal" /\ phase' = phase
      /\ txn' = [txn EXCEPT ![t] = [at |-> "active", prev |-> next_lsn]]
      /\ txn[t].at = "new" /\ kv' = kv /\ owner' = owner /\ next_lsn \in Nat
      /\ UNCHANGED <<offset, inner, lsn_mapping, active_txn, undo_list, crashes>>
  BY DEF Inv, RecInv, StateTypes, TxnsOK, Begin, recoveryVars, redoVars
<1>1. By(t) = {} /\ txn[t].prev = INVALID_LSN /\ NoKey \notin Keys
  BY <1>0, RecoveryAssumption DEF TxnOK
<1>2. /\ Typed' /\ Grown(r) /\ disk' = disk /\ next_lsn' = next_lsn + 1
      /\ r.lsn = next_lsn /\ r.txn = t /\ r.prev = txn[t].prev /\ r.type = "BEGIN" /\ r.key = NoKey
  <2>1. txn[t].prev \in Nat \cup {INVALID_LSN}
    BY <1>0, TxnType
  <2>2. /\ r.lsn = next_lsn /\ r.txn = t /\ r.prev = txn[t].prev /\ r.type = "BEGIN" /\ r.key = NoKey
        /\ r.type \in Written
    BY DEF Record, Written, Open
  <2>3. r \in LogRecord
    BY <1>0, <2>1 DEF Record, LogRecord, Types
  <2>4. tail' = tail \o Cells(r) /\ disk' = disk /\ next_lsn' = next_lsn + 1
    BY DEF Begin, Append_
  <2> QED
    BY <1>0, <2>2, <2>3, <2>4, Growing
<1>3. Ends(t) = {} /\ Opens(t) = {}
  BY <1>1 DEF Ends, Opens
<1>4. Fits(r)
  <2>1. r.type \in Written /\ r.type \in Open /\ r.type \notin {"INSERT", "DELETE", "ABORT"}
    BY <1>2 DEF Written, Open
  <2> QED
    BY <1>0, <1>1, <1>2, <1>3, <2>1, NextFits DEF Fits
<1>5. txn'[t] = [at |-> "active", prev |-> next_lsn] /\ \A u \in Txns \ {t} : txn'[u] = txn[u]
  BY <1>0 DEF StateTypes
<1>6. TxnsOK'
  <2>1. TxnOK(t)'
    <3>1. r.type \in Open /\ r.type \notin Ending
      BY <1>2 DEF Open, Ending
    <3> QED
      BY <1>0, <1>2, <1>3, <1>5, <3>1, OwnTxn
  <2>2. \A u \in Txns \ {t} : TxnOK(u)'
    BY <1>0, <1>2, <1>5, OtherTxn DEF Inv, RecInv, TxnsOK
  <2> QED
    BY <2>1, <2>2 DEF TxnsOK
<1>7. OwnersOK'
  <2>1. r.type \notin Ending
    BY <1>2 DEF Ending
  <2>2. \A u \in Txns : txn[u].at \in {"active", "prepared"} => txn'[u].at \in {"active", "prepared"}
    BY <1>5
  <2> QED
    BY <1>0, <1>1, <1>2, <2>1, <2>2, OwnersStay DEF Inv, RecInv, StateTypes
<1>8. StoreOK'
  <2>1. \A u \in Txns : txn[u].at = "ended" => txn'[u].at = "ended" /\ (r.txn = u => r.type # "COMMIT")
    BY <1>0, <1>2, <1>5
  <2> QED
    BY <1>0, <1>1, <1>2, <2>1, QuietStore DEF Inv, RecInv
<1>9. StateTypes'
  BY <1>0, <1>2 DEF StateTypes
<1> QED
  BY <1>0, <1>2, <1>4, <1>6, <1>7, <1>8, <1>9, NormalStep

\* A PREPARED record keeps the invariant.
LEMMA PrepareKeeps ==
  ASSUME Inv, NEW t \in Txns, PrepareCommit(t)
  PROVE  Inv'
<1> SUFFICES ASSUME NEW r, r = Record(next_lsn, t, txn[t].prev, "PREPARED", NoKey, Absent) PROVE Inv'
  OBVIOUS
<1>0. /\ Typed /\ LogInv /\ StateTypes /\ TxnOK(t) /\ phase = "normal" /\ phase' = phase
      /\ txn' = [txn EXCEPT ![t] = [at |-> "prepared", prev |-> next_lsn]]
      /\ txn[t].at = "active" /\ kv' = kv /\ owner' = owner /\ next_lsn \in Nat
      /\ UNCHANGED <<offset, inner, lsn_mapping, active_txn, undo_list, crashes>>
  BY DEF Inv, RecInv, StateTypes, TxnsOK, PrepareCommit, Running, recoveryVars, redoVars
<1>1. Ends(t) = {} /\ NoKey \notin Keys /\ txn[t].prev \in Nat \cup {INVALID_LSN}
  BY <1>0, RecoveryAssumption, TxnType DEF TxnOK
<1>2. /\ Typed' /\ Grown(r) /\ disk' = disk /\ next_lsn' = next_lsn + 1
      /\ r.lsn = next_lsn /\ r.txn = t /\ r.type = "PREPARED" /\ r.key = NoKey
  <2>1. txn[t].prev \in Nat \cup {INVALID_LSN}
    BY <1>0, TxnType
  <2>2. /\ r.lsn = next_lsn /\ r.txn = t /\ r.prev = txn[t].prev /\ r.type = "PREPARED" /\ r.key = NoKey
        /\ r.type \in Written
    BY DEF Record, Written, Open
  <2>3. r \in LogRecord
    BY <1>0, <2>1 DEF Record, LogRecord, Types
  <2>4. tail' = tail \o Cells(r) /\ disk' = disk /\ next_lsn' = next_lsn + 1
    BY DEF PrepareCommit, Append_
  <2> QED
    BY <1>0, <2>2, <2>3, <2>4, Growing
<1>3. r.type \in Written /\ r.type \notin Open /\ r.type \notin {"INSERT", "DELETE", "ABORT"} /\ r.type \notin Ending
  BY <1>2 DEF Written, Open, Ending
<1>4. Fits(r)
  BY <1>0, <1>1, <1>2, <1>3, NextFits DEF Fits
<1>5. txn'[t] = [at |-> "prepared", prev |-> next_lsn] /\ \A u \in Txns \ {t} : txn'[u] = txn[u]
  BY <1>0 DEF StateTypes
<1>6. TxnsOK'
  <2>1. TxnOK(t)'
    BY <1>0, <1>1, <1>2, <1>3, <1>5, OwnTxn
  <2>2. \A u \in Txns \ {t} : TxnOK(u)'
    BY <1>0, <1>2, <1>5, OtherTxn DEF Inv, RecInv, TxnsOK
  <2> QED
    BY <2>1, <2>2 DEF TxnsOK
<1>7. OwnersOK'
  <2>2. \A u \in Txns : txn[u].at \in {"active", "prepared"} => txn'[u].at \in {"active", "prepared"}
    BY <1>5
  <2> QED
    BY <1>0, <1>1, <1>2, <1>3, <2>2, OwnersStay DEF Inv, RecInv, StateTypes
<1>8. StoreOK'
  <2>1. \A u \in Txns : txn[u].at = "ended" => txn'[u].at = "ended" /\ (r.txn = u => r.type # "COMMIT")
    BY <1>0, <1>2, <1>5
  <2> QED
    BY <1>0, <1>1, <1>2, <2>1, QuietStore DEF Inv, RecInv
<1>9. StateTypes'
  BY <1>0, <1>2 DEF StateTypes
<1> QED
  BY <1>0, <1>2, <1>4, <1>6, <1>7, <1>8, <1>9, NormalStep

\* A COMMIT record keeps the invariant.
LEMMA CommitKeeps ==
  ASSUME Inv, NEW t \in Txns, CommitSingle(t)
  PROVE  Inv'
<1> SUFFICES ASSUME NEW r, r = Record(next_lsn, t, txn[t].prev, "COMMIT", NoKey, Absent) PROVE Inv'
  OBVIOUS
<1>0. /\ Typed /\ LogInv /\ StateTypes /\ TxnOK(t) /\ OwnersOK /\ phase = "normal" /\ phase' = phase
      /\ txn' = [txn EXCEPT ![t] = [at |-> "ended", prev |-> next_lsn]]
      /\ txn[t].at \in {"active", "prepared"} /\ kv' = kv /\ next_lsn \in Nat
      /\ owner' = [k \in Keys |-> IF owner[k] = t THEN InvalidTxn ELSE owner[k]]
      /\ UNCHANGED <<offset, inner, lsn_mapping, active_txn, undo_list, crashes>>
  BY DEF Inv, RecInv, StateTypes, TxnsOK, CommitSingle, recoveryVars, redoVars
<1>1. Ends(t) = {} /\ NoKey \notin Keys
  BY <1>0, RecoveryAssumption DEF TxnOK
<1>2. /\ Typed' /\ Grown(r) /\ disk' = disk /\ next_lsn' = next_lsn + 1
      /\ r.lsn = next_lsn /\ r.txn = t /\ r.type = "COMMIT" /\ r.key = NoKey
  <2>1. txn[t].prev \in Nat \cup {INVALID_LSN}
    BY <1>0, TxnType
  <2>2. /\ r.lsn = next_lsn /\ r.txn = t /\ r.prev = txn[t].prev /\ r.type = "COMMIT" /\ r.key = NoKey
        /\ r.type \in Written
    BY DEF Record, Written, Ending
  <2>3. r \in LogRecord
    BY <1>0, <2>1 DEF Record, LogRecord, Types
  <2>4. tail' = tail \o Cells(r) /\ disk' = disk /\ next_lsn' = next_lsn + 1
    BY DEF CommitSingle, Append_
  <2> QED
    BY <1>0, <2>2, <2>3, <2>4, Growing
<1>3. r.type \in Written /\ r.type \notin Open /\ r.type \notin {"INSERT", "DELETE", "ABORT", "PREPARED"} /\ r.type \in Ending
  BY <1>2 DEF Written, Open, Ending
<1>4. Fits(r)
  BY <1>0, <1>1, <1>2, <1>3, NextFits DEF Fits
<1>5. txn'[t] = [at |-> "ended", prev |-> next_lsn] /\ \A u \in Txns \ {t} : txn'[u] = txn[u]
  BY <1>0 DEF StateTypes
<1>6. TxnsOK'
  <2>1. TxnOK(t)'
    BY <1>5 DEF TxnOK
  <2>2. \A u \in Txns \ {t} : TxnOK(u)'
    BY <1>0, <1>2, <1>5, OtherTxn DEF Inv, RecInv, TxnsOK
  <2> QED
    BY <2>1, <2>2 DEF TxnsOK
<1>7. OwnersOK'
  <2>0. /\ \A u, i : i \in Ends(u)' <=> i \in Ends(u) \/ (i = Len(Log) + 1 /\ r.txn = u /\ r.type \in Ending)
        /\ \A u, k, i : i \in OnBy(u, k)' <=> i \in OnBy(u, k) \/ (i = Len(Log) + 1 /\ r.key = k /\ r.txn = u)
    BY <1>0, <1>2, GrownSets
  <2>1. ASSUME NEW k \in Keys, NEW u, u = owner'[k], u # InvalidTxn
        PROVE  txn'[u].at \in {"active", "prepared"} /\ OnBy(u, k)' # {}
    <3>1. u = owner[k] /\ u # t
      BY <2>1, <1>0
    <3>2. u \in Txns /\ txn[u].at \in {"active", "prepared"} /\ OnBy(u, k) # {}
      BY <3>1, <2>1, <1>0 DEF OwnersOK, StateTypes
    <3> QED
      BY <3>1, <3>2, <2>0, <1>5
  <2>2. ASSUME NEW u \in Txns, NEW k \in Keys, OnBy(u, k)' # {}, Ends(u)' = {} PROVE owner'[k] = u
    <3>1. u # t
      BY <2>0, <2>2, <1>2, <1>3
    <3>2. OnBy(u, k) # {} /\ Ends(u) = {}
      BY <2>0, <2>2, <1>1, <1>2
    <3>3. owner[k] = u
      BY <3>2, <1>0 DEF OwnersOK
    <3> QED
      BY <3>1, <3>3, <1>0
  <2>3. \A k \in Keys : owner'[k] # InvalidTxn => txn'[owner'[k]].at \in {"active", "prepared"} /\ (OnBy(owner[k], k) # {})'
    BY <2>1
  <2> QED
    BY <2>2, <2>3, <1>0 DEF OwnersOK
<1>8. StoreOK'
  <2>1. \A u \in Txns : txn[u].at = "ended" => txn'[u].at = "ended" /\ (r.txn = u => r.type # "COMMIT")
    BY <1>0, <1>2, <1>5
  <2> QED
    BY <1>0, <1>1, <1>2, <2>1, QuietStore DEF Inv, RecInv
<1>9. StateTypes'
  BY <1>0, <1>2 DEF StateTypes
<1> QED
  BY <1>0, <1>2, <1>4, <1>6, <1>7, <1>8, <1>9, NormalStep

\* A logged write keeps the invariant.
LEMMA WriteKeeps ==
  ASSUME Inv, NEW t \in Txns, NEW k \in Keys, Running(t), MayLock(t, k), NEW y \in {"INSERT", "DELETE"},
         NEW v \in Values \cup {KeyText, Absent}, NEW x \in Values \cup {KeyText, Absent},
         Write(t, k, y, v, x), x = IF y = "DELETE" THEN Absent ELSE v,
         v # Absent,
         y = "DELETE" /\ OnBy(t, k) = {} =>
           \/ OverTo(Len(Log), k)
           \/ ComTo(Len(Log), k) # Absent /\ v \in {ComTo(Len(Log), k), KeyText}
  PROVE  Inv'
<1> SUFFICES ASSUME NEW r, r = Record(next_lsn, t, txn[t].prev, y, k, v) PROVE Inv'
  OBVIOUS
<1>0. /\ Typed /\ LogInv /\ StateTypes /\ TxnOK(t) /\ OwnersOK /\ phase = "normal" /\ phase' = phase
      /\ txn' = [txn EXCEPT ![t].prev = next_lsn]
      /\ txn[t].at = "active" /\ kv' = [kv EXCEPT ![k] = x] /\ next_lsn \in Nat
      /\ owner' = [owner EXCEPT ![k] = t] /\ owner[k] \in {t, InvalidTxn}
      /\ UNCHANGED <<offset, inner, lsn_mapping, active_txn, undo_list, crashes>>
  BY DEF Inv, RecInv, StateTypes, TxnsOK, Write, Running, MayLock, recoveryVars, redoVars
<1>1. Ends(t) = {}
  BY <1>0 DEF TxnOK
<1>2. /\ Typed' /\ Grown(r) /\ disk' = disk /\ next_lsn' = next_lsn + 1
      /\ r.lsn = next_lsn /\ r.txn = t /\ r.type = y /\ r.key = k /\ r.value = v /\ r.prev = txn[t].prev
  <2>1. txn[t].prev \in Nat \cup {INVALID_LSN}
    BY <1>0, TxnType
  <2>2. /\ r.lsn = next_lsn /\ r.txn = t /\ r.prev = txn[t].prev /\ r.type = y /\ r.key = k /\ r.value = v
        /\ r.type \in Written
    BY DEF Record, Written, Open
  <2>3. r \in LogRecord
    BY <1>0, <2>1 DEF Record, LogRecord, Types
  <2>4. tail' = tail \o Cells(r) /\ disk' = disk /\ next_lsn' = next_lsn + 1
    BY DEF Write, Append_
  <2> QED
    BY <1>0, <2>2, <2>3, <2>4, Growing
<1>3. r.type \in Written /\ r.type \in Open /\ r.type \notin {"ABORT", "COMMIT"} /\ r.type \notin Ending
  BY <1>2 DEF Written, Open, Ending
<1>4. Fits(r)
  <2>1. /\ r.prev = INVALID_LSN => Opens(t) = {}
        /\ r.prev # INVALID_LSN => \E j \in Opens(t) : Log[j].lsn = r.prev /\ Last(Opens(t), j)
    <3>1. PICK j \in Opens(t) : Last(By(t), j) /\ Log[j].lsn = txn[t].prev
      BY <1>0 DEF TxnOK
    <3>2. Last(Opens(t), j)
      BY <3>1 DEF Last, Opens
    <3>3. Log[j].lsn \in Nat
      BY <1>0, <3>1 DEF Opens, By, LogInv, Shaped
    <3>4. r.prev # INVALID_LSN
      BY <1>2, <3>1, <3>3 DEF INVALID_LSN
    <3> QED
      BY <1>2, <3>1, <3>2, <3>4
  <2>2. ASSUME NEW u \in Txns \ {t}, OnBy(u, k) # {} PROVE Ends(u) # {}
    <3>1. u # InvalidTxn
      BY RecoveryAssumption
    <3> QED
      BY <2>2, <3>1, <1>0 DEF OwnersOK
  <2> QED
    BY <1>0, <1>1, <1>2, <1>3, <2>1, <2>2, NextFits DEF Fits
<1>5. txn'[t].at = "active" /\ txn'[t].prev = next_lsn /\ \A u \in Txns \ {t} : txn'[u] = txn[u]
  BY <1>0 DEF StateTypes
<1>6. TxnsOK'
  <2>1. TxnOK(t)'
    BY <1>0, <1>1, <1>2, <1>3, <1>5, OwnTxn
  <2>2. \A u \in Txns \ {t} : TxnOK(u)'
    BY <1>0, <1>2, <1>5, OtherTxn DEF Inv, RecInv, TxnsOK
  <2> QED
    BY <2>1, <2>2 DEF TxnsOK
<1>7. OwnersOK'
  <2>0. /\ \A u, i : i \in Ends(u)' <=> i \in Ends(u) \/ (i = Len(Log) + 1 /\ r.txn = u /\ r.type \in Ending)
        /\ \A u, z, i : i \in OnBy(u, z)' <=> i \in OnBy(u, z) \/ (i = Len(Log) + 1 /\ r.key = z /\ r.txn = u)
    BY <1>0, <1>2, GrownSets
  <2>1. ASSUME NEW z \in Keys, NEW u, u = owner'[z], u # InvalidTxn
        PROVE  txn'[u].at \in {"active", "prepared"} /\ OnBy(u, z)' # {}
    <3>1. CASE z = k
      <4>1. u = t
        BY <3>1, <2>1, <1>0 DEF StateTypes
      <4> QED
        BY <4>1, <3>1, <2>0, <1>2, <1>5
    <3>2. CASE z # k
      <4>1. u = owner[z]
        BY <3>2, <2>1, <1>0 DEF StateTypes
      <4>2. u \in Txns /\ txn[u].at \in {"active", "prepared"} /\ OnBy(u, z) # {}
        BY <4>1, <2>1, <1>0 DEF OwnersOK, StateTypes
      <4> QED
        BY <4>2, <2>0, <1>5
    <3> QED
      BY <3>1, <3>2
  <2>2. ASSUME NEW u \in Txns, NEW z \in Keys, OnBy(u, z)' # {}, Ends(u)' = {} PROVE owner'[z] = u
    <3>0. u # InvalidTxn /\ Ends(u) = {}
      BY RecoveryAssumption, <2>0, <2>2
    <3>1. CASE z = k
      <4>1. owner'[z] = t
        BY <3>1, <1>0 DEF StateTypes
      <4>2. CASE u # t
        <5>1. OnBy(u, k) # {}
          BY <2>0, <2>2, <3>1, <4>2, <1>2
        <5>2. owner[k] = u
          BY <3>0, <5>1, <1>0 DEF OwnersOK
        <5> QED
          BY <3>0, <4>2, <5>2, <1>0
      <4> QED
        BY <4>1, <4>2
    <3>2. CASE z # k
      <4>1. OnBy(u, z) # {}
        BY <2>0, <2>2, <3>2, <1>2
      <4>2. owner[z] = u
        BY <3>0, <4>1, <1>0 DEF OwnersOK
      <4> QED
        BY <3>2, <4>2, <1>0 DEF StateTypes
    <3> QED
      BY <3>1, <3>2
  <2>3. \A z \in Keys : owner'[z] # InvalidTxn => txn'[owner'[z]].at \in {"active", "prepared"} /\ (OnBy(owner[z], z) # {})'
    BY <2>1
  <2> QED
    BY <2>2, <2>3, <1>0 DEF OwnersOK
<1>8. StoreOK'
  <2>1. \A u \in Txns : txn[u].at = "ended" => txn'[u].at = "ended"
    BY <1>0, <1>5
  <2>2. x = Stored(r)
    BY <1>2 DEF Stored
  <2>3. kv' = [kv EXCEPT ![r.key] = x] /\ kv \in [Keys -> Values \cup {KeyText, Absent}] /\ StoreOK
    BY <1>0, <1>2 DEF StateTypes, Inv, RecInv
  <2>4. /\ Typed /\ Grown(r) /\ r.key \in Keys /\ r.txn \in Txns /\ phase # "redo" /\ phase' # "redo"
        /\ r.type \in {"INSERT", "DELETE"}
    BY <1>0, <1>2
  <2> QED
    BY <2>1, <2>2, <2>3, <2>4, WriteStore
<1>9. StateTypes'
  BY <1>0, <1>2 DEF StateTypes
<1> QED
  BY <1>0, <1>2, <1>4, <1>6, <1>7, <1>8, <1>9, NormalStep

\* KVStore::put keeps the invariant.
LEMMA PutKeeps ==
  ASSUME Inv, NEW t \in Txns, NEW k \in Keys, NEW v \in Values, put(t, k, v)
  PROVE  Inv'
<1>1. Running(t) /\ MayLock(t, k) /\ Write(t, k, "INSERT", v, v) /\ v # Absent
  BY RecoveryAssumption DEF put
<1> QED
  BY <1>1, WriteKeeps

\* KVStore::del keeps the invariant: what it logs is the committed value.
LEMMA DelKeeps ==
  ASSUME Inv, NEW t \in Txns, NEW k \in Keys, del(t, k)
  PROVE  Inv'
<1> SUFFICES ASSUME NEW v, v = kv[k] PROVE Inv'
  OBVIOUS
<1>1. Running(t) /\ MayLock(t, k) /\ v # Absent /\ Write(t, k, "DELETE", v, Absent)
  BY DEF del
<1>2. v \in Values \cup {KeyText, Absent}
  BY DEF Inv, StateTypes
<1>3. ASSUME OnBy(t, k) = {}
      PROVE  \/ OverTo(Len(Log), k)
             \/ ComTo(Len(Log), k) # Absent /\ v \in {ComTo(Len(Log), k), KeyText}
  <2>1. owner[k] = InvalidTxn /\ phase = "normal"
    BY <1>1, <1>3, TxnType DEF MayLock, Inv, RecInv, OwnersOK, Running
  <2> QED
    BY <1>1, <2>1, KeyRecovered DEF Inv, RecInv
<1> QED
  BY <1>1, <1>2, <1>3, WriteKeeps

(***************************************************************************)
(* A stop.                                                                 *)
(***************************************************************************)

\* After a start the log is the file.
LEMMA OnlyDisk ==
  ASSUME Typed, tail = <<>>
  PROVE  Log = disk
BY DEF Typed, Log

\* A stop and the start of recovery keep the invariant.
LEMMA CrashKeeps ==
  ASSUME Inv, Crash
  PROVE  Inv'
<1>0. Typed /\ LogInv /\ StateTypes /\ TxnsOK
  BY DEF Inv, RecInv, StateTypes
<1>1. PICK n \in 0..Len(tail) : /\ n < Len(tail) => tail[n + 1] # Body
                                /\ disk' = disk \o SubSeq(tail, 1, n)
  BY DEF Crash
<1>2. /\ tail' = <<>> /\ next_lsn' = 0 /\ kv' = EmptyStore /\ phase' = "redo" /\ offset' = 0 /\ inner' = 0
      /\ owner' = [k \in Keys |-> InvalidTxn] /\ lsn_mapping' = None /\ active_txn' = None /\ undo_list' = {}
      /\ txn' = [t \in Txns |-> IF txn[t].at = "new" THEN NewTxn ELSE [at |-> "ended", prev |-> INVALID_LSN]]
      /\ crashes' = crashes + 1 /\ crashes < MaxCrashes
  BY DEF Crash
<1> SUFFICES ASSUME NEW c, c = Len(disk) + n PROVE Inv'
  OBVIOUS
<1>3. Typed' /\ Cut(c) /\ Len(disk') = c
  BY <1>0, <1>1, <1>2, Cutting
<1>4. LogInv'
  BY <1>0, <1>3, CutLog
<1>5. Read' = 0 /\ Seen' = {}
  <2>1. Read' = 0
    BY <1>2 DEF Read
  <2>2. \A i \in Recs' : ~(i <= 0)
    BY <1>3 DEF Recs, Records
  <2> QED
    BY <2>1, <2>2 DEF Seen
<1>6. StateTypes'
  <2>1. crashes' \in 0..MaxCrashes
    BY <1>0, <1>2, RecoveryAssumption DEF StateTypes
  <2>2. txn' \in [Txns -> [at : {"new", "active", "prepared", "ended"}, prev : Nat \cup {INVALID_LSN}]]
    BY <1>2 DEF NewTxn
  <2> QED
    BY <1>2, <1>3, <2>1, <2>2, RecoveryAssumption DEF StateTypes, EmptyStore, None
<1>7. TxnsOK'
  <2>1. ASSUME NEW t \in Txns PROVE TxnOK(t)'
    <3>1. CASE txn[t].at = "new"
      <4>1. By(t) = {}
        BY <1>0, <3>1 DEF TxnsOK, TxnOK
      <4>2. By(t)' = {}
        <5>1. \A i : i \in By(t)' => i \in By(t)
          BY <1>0, <1>3, CutSets
        <5> QED
          BY <4>1, <5>1
      <4>3. txn'[t] = NewTxn
        BY <1>2, <3>1
      <4> QED
        BY <4>2, <4>3 DEF TxnOK, NewTxn
    <3>2. CASE txn[t].at # "new"
      <4>1. txn'[t].at = "ended"
        BY <1>2, <3>2
      <4> QED
        BY <4>1 DEF TxnOK
    <3> QED
      BY <3>1, <3>2
  <2> QED
    BY <2>1 DEF TxnsOK
<1>8. OwnersOK' /\ NextOK'
  BY <1>2 DEF OwnersOK, NextOK
<1>9. StoreOK'
  <2>1. ASSUME NEW k \in Keys PROVE After(On(k) \cap Seen, kv[k])'
    BY <1>2, <1>5 DEF After, EmptyStore
  <2> QED
    BY <2>1, <1>2 DEF StoreOK
<1>10. RedoOK'
  <2>1. Log' = disk' /\ Len(disk') \in Nat
    BY <1>2, <1>3 DEF Typed, Log
  <2>2. 0 \notin Recs'
    BY DEF Recs, Records
  <2>3. ASSUME Len(disk') > 0 PROVE disk'[1] # Body
    <3>1. 1 \in 1..Len(Log') /\ 1 - 1 = 0
      BY <2>1, <2>3
    <3> QED
      BY <3>1, <2>1, <2>2, <1>4 DEF LogInv, Shaped
  <2> QED
    BY <2>1, <2>3, <1>2, <1>5, RecoveryAssumption DEF RedoOK
<1>11. MappingOK' /\ ActiveOK' /\ UndoOK' /\ AbortOK'
  <2>1. Known' = {}
    BY <1>2, <1>5 DEF Known
  <2>2. DOMAIN lsn_mapping' = {} /\ DOMAIN active_txn' = {}
    BY <1>2 DEF None
  <2> QED
    BY <2>1, <2>2, <1>2, <1>5 DEF MappingOK, ActiveOK, UndoOK, AbortOK
<1> QED
  BY <1>4, <1>6, <1>7, <1>8, <1>9, <1>10, <1>11 DEF Inv, RecInv

(***************************************************************************)
(* Redo.                                                                   *)
(***************************************************************************)

\* During recovery no transaction is in progress and nothing is locked.
LEMMA NobodyRuns ==
  ASSUME Inv, phase # "normal"
  PROVE  /\ \A t \in Txns : txn[t].at \in {"new", "ended"} /\ (By(t) # {} => txn[t].at = "ended")
         /\ \A k \in Keys : owner[k] = InvalidTxn
<1>1. ASSUME NEW t \in Txns PROVE txn[t].at \in {"new", "ended"} /\ (By(t) # {} => txn[t].at = "ended")
  <2>1. TxnOK(t) /\ txn[t].at \in {"new", "active", "prepared", "ended"}
    BY TxnType DEF Inv, RecInv, TxnsOK
  <2> QED
    BY <2>1 DEF TxnOK
<1>2. ASSUME NEW k \in Keys, NEW u, u = owner[k], u # InvalidTxn PROVE FALSE
  <2>1. u \in Txns /\ txn[u].at \in {"active", "prepared"}
    BY <1>2 DEF Inv, RecInv, OwnersOK, StateTypes
  <2> QED
    BY <2>1, <1>1
<1> QED
  BY <1>1, <1>2

\* Steps of recovery that write no record.
LEMMA QuietTxns ==
  ASSUME Inv, phase # "normal", UNCHANGED <<disk, tail, txn, owner>>
  PROVE  /\ LogInv' /\ Typed' /\ TxnsOK'
         /\ phase' # "normal" => OwnersOK'
<1>0. /\ \A t : By(t)' = By(t) /\ Ends(t)' = Ends(t) /\ Opens(t)' = Opens(t)
      /\ Typed'
  BY KeptSets DEF Inv, StateTypes
<1>1. LogInv'
  BY KeptLog DEF Inv, RecInv
<1>2. /\ \A t \in Txns : txn[t].at \in {"new", "ended"} /\ (By(t) # {} => txn[t].at = "ended")
      /\ \A k \in Keys : owner[k] = InvalidTxn
  BY NobodyRuns
<1>3. ASSUME NEW t \in Txns PROVE TxnOK(t)'
  <2>1. TxnOK(t) /\ txn'[t] = txn[t] /\ txn[t].at \in {"new", "ended"}
    BY <1>2 DEF Inv, RecInv, TxnsOK
  <2> QED
    BY <2>1, <1>0 DEF TxnOK
<1>4. TxnsOK'
  BY <1>3 DEF TxnsOK
<1>5. phase' # "normal" => OwnersOK'
  BY <1>2 DEF OwnersOK
<1> QED
  BY <1>0, <1>1, <1>4, <1>5

\* The record an iteration of the inner loop reads.
LEMMA ReadsRecord ==
  ASSUME Inv, RedoRecord, NEW p, p = offset + inner + 1
  PROVE  /\ p \in Nat /\ p \in Recs /\ Log[p] = Buffer(inner) /\ Log[p].type \in Written /\ Log[p] \in LogRecord
         /\ Read = p - 1 /\ Read' = p - 1 + Size(Log[p])
         /\ \A i : i \in Seen' <=> i \in Seen \/ i = p
         /\ \A i \in Seen : i < p /\ i \in Nat /\ i \in Recs
         /\ RedoOK' /\ inner' \in 0..BufferSize
<1>0. /\ Typed /\ LogInv /\ Shaped /\ phase = "redo" /\ phase' = "redo" /\ RedoOK /\ offset \in Nat /\ inner \in Nat
      /\ offset' = offset /\ inner' = inner + Size(Buffer(inner)) /\ disk' = disk /\ tail' = tail
      /\ inner < BufferSize /\ Buffer(inner).type # "ZEROS" /\ Size(Buffer(inner)) + inner <= BufferSize
  BY DEF Inv, RecInv, LogInv, StateTypes, RedoRecord, RecordInBuffer, logVars
<1>1. tail = <<>> /\ Log = disk /\ Len(disk) \in Nat /\ Read = offset + inner
  BY <1>0, OnlyDisk DEF RedoOK, Typed, Read
<1>2. offset + inner < Len(disk)
  BY <1>0 DEF Buffer, Zeros, Record
<1>3. p \in 1..Len(Log) /\ Log[p] = Buffer(inner) /\ p \in Nat /\ Read = p - 1
  BY <1>0, <1>1, <1>2 DEF Buffer
<1>4. Log[p] # Body
  <2>1. Read < Len(disk) /\ Read + 1 = p
    BY <1>1, <1>2, <1>0
  <2> QED
    BY <1>0, <1>1, <2>1 DEF RedoOK
<1>5. p \in Recs
  BY <1>3, <1>4 DEF Recs, Records
<1>6. Log[p].type \in Written /\ (Size(Log[p]) = 2 => p + 1 <= Len(Log) /\ Log[p + 1] = Body) /\ Log[p] \in LogRecord
  BY <1>0, <1>5, RecsAre, <1>3 DEF Shaped
<1>7. Size(Log[p]) \in {1, 2}
  BY DEF Size
<1>8. Read' = p - 1 + Size(Log[p])
  BY <1>0, <1>1, <1>3, <1>7 DEF Read
<1>9. Log' = Log /\ Recs' = Recs
  BY <1>0, KeptSets
<1>10. \A i \in Recs : i \in Nat /\ i <= Len(Log) /\ Log[i] # Body
  BY <1>0, RecsAre
<1>11. ASSUME NEW i PROVE i \in Seen' <=> i \in Seen \/ i = p
  <2>1. i \in Seen' <=> i \in Recs /\ i <= Read'
    BY <1>9 DEF Seen
  <2>2. i \in Seen <=> i \in Recs /\ i <= Read
    BY DEF Seen
  <2>3. ASSUME i \in Recs PROVE i <= Read' <=> i <= Read \/ i = p
    <3>1. i \in Nat /\ Log[i] # Body
      BY <2>3, <1>10
    <3>2. CASE Size(Log[p]) = 1
      BY <3>1, <3>2, <1>3, <1>8
    <3>3. CASE Size(Log[p]) = 2
      <4>1. i # p + 1
        BY <3>1, <3>3, <1>6
      <4> QED
        BY <3>1, <3>3, <4>1, <1>3, <1>8
    <3> QED
      BY <3>2, <3>3, <1>7
  <2> QED
    BY <2>1, <2>2, <2>3, <1>5
<1>12. \A i \in Seen : i < p /\ i \in Nat /\ i \in Recs
  BY <1>3, <1>10 DEF Seen
<1>13. inner' \in 0..BufferSize
  BY <1>0, <1>3, <1>7, RecoveryAssumption
<1>14. RedoOK'
  <2>1. Read' \in Nat /\ Read' <= Len(disk)
    BY <1>1, <1>3, <1>6, <1>7, <1>8
  <2>2. ASSUME NEW x, x = Read', x < Len(disk), disk[x + 1] = Body PROVE FALSE
    <3>0. x + 1 \in 1..Len(Log) /\ (x + 1) - 1 = x /\ Log[x + 1] = Body
      <4>1. x \in Nat
        BY <2>1, <2>2, Zenon
      <4>2. x < Len(disk) /\ Len(disk) \in Nat
        BY <2>2, <1>1, Zenon
      <4>3. x + 1 \in 1..Len(disk) /\ (x + 1) - 1 = x
        BY <4>1, <4>2
      <4> QED
        BY <2>2, <4>3, <1>1, Zenon
    <3>1. x \in Recs /\ Size(Log[x]) = 2
      BY <3>0, <1>0 DEF Shaped
    <3>2. CASE Size(Log[p]) = 1
      <4>1. x = p
        BY <2>2, <3>2, <1>8, <1>3
      <4> QED
        BY <3>1, <3>2, <4>1
    <3>3. CASE Size(Log[p]) = 2
      <4>1. x = p + 1
        BY <2>2, <3>3, <1>8, <1>3
      <4> QED
        BY <3>1, <3>3, <4>1, <1>6, <1>10
    <3> QED
      BY <3>2, <3>3, <1>7
  <2> QED
    BY <2>1, <2>2, <1>0, <1>1, <1>13 DEF RedoOK
<1> QED
  BY <1>3, <1>5, <1>6, <1>8, <1>11, <1>12, <1>13, <1>14

\* An iteration of the inner loop of Redo keeps the invariant.
LEMMA RedoRecordKeeps ==
  ASSUME Inv, RedoRecord
  PROVE  Inv'
<1> SUFFICES ASSUME NEW p, p = offset + inner + 1, NEW q, q = Log[p], NEW r, r = DeserializeFrom(q) PROVE Inv'
  OBVIOUS
<1>0. /\ p \in Nat /\ p \in Recs /\ q = Buffer(inner) /\ q.type \in Written /\ q \in LogRecord
      /\ Read = p - 1 /\ Read' = p - 1 + Size(q)
      /\ \A i : i \in Seen' <=> i \in Seen \/ i = p
      /\ \A i \in Seen : i < p /\ i \in Nat /\ i \in Recs
      /\ RedoOK' /\ inner' \in 0..BufferSize
  BY ReadsRecord
<1>1. /\ Typed /\ LogInv /\ StateTypes /\ phase = "redo" /\ phase' = "redo" /\ offset' = offset
      /\ lsn_mapping' = With(lsn_mapping, r.lsn, offset + inner) /\ RedoLog(r)
      /\ UNCHANGED <<disk, tail, next_lsn, txn, owner, undo_list, crashes>>
  BY <1>0 DEF Inv, RecInv, StateTypes, RedoRecord, logVars
<1>2. /\ Log' = Log /\ Recs' = Recs
      /\ \A t : By(t)' = By(t) /\ Ends(t)' = Ends(t) /\ Opens(t)' = Opens(t)
      /\ \A k : On(k)' = On(k)
      /\ \A t, k : OnBy(t, k)' = OnBy(t, k)
  BY <1>1, KeptSets
<1>3. LogInv' /\ Typed' /\ TxnsOK' /\ OwnersOK'
  BY <1>1, QuietTxns
<1>4. /\ q.key \in Keys <=> q.type \in {"INSERT", "DELETE"}
      /\ q.type \in Open \cup {"PREPARED"} => q.txn \in Txns
      /\ q.lsn \in Nat /\ q.txn \in Txns \cup {InvalidTxn}
      /\ q.value \in Values \cup {KeyText, Absent}
  BY <1>0, <1>1 DEF LogInv, Shaped, LogRecord
<1>5. /\ r.lsn = q.lsn
      /\ q.type # "PREPARED" => r = q
      /\ q.type = "PREPARED" => r.txn = InvalidTxn /\ r.type = "INVALID"
  BY DEF DeserializeFrom, Record
<1>6. \A i \in Seen : Log[i].lsn < q.lsn /\ Log[i].lsn \in Nat
  BY <1>0, <1>1 DEF LogInv, Numbered, Shaped
<1>7. Known = Seen /\ Known' = Seen'
  BY <1>1 DEF Known
<1>8. StoreOK' /\ kv' \in [Keys -> Values \cup {KeyText, Absent}]
  <2>1. kv' = IF q.type = "INSERT" THEN [kv EXCEPT ![q.key] = q.value]
              ELSE IF q.type = "DELETE" THEN [kv EXCEPT ![q.key] = Absent] ELSE kv
    BY <1>1, <1>5 DEF RedoLog
  <2>2. kv \in [Keys -> Values \cup {KeyText, Absent}]
    BY <1>1 DEF StateTypes
  <2>3. ASSUME NEW k \in Keys PROVE After(On(k) \cap Seen, kv[k])'
    <3>0. After(On(k) \cap Seen, kv[k])
      BY <1>1 DEF Inv, RecInv, StoreOK
    <3>1. CASE q.key = k
      <4>1. kv'[k] = Stored(q)
        BY <2>1, <2>2, <3>1, <1>4 DEF Stored
      <4>2. p \in On(k) /\ p \in Seen'
        BY <3>1, <1>0 DEF On
      <4>3. Last(On(k) \cap Seen', p)
        <5>1. \A i \in Seen' : i <= p
          BY <1>0
        <5> QED
          BY <4>2, <5>1 DEF Last
      <4> QED
        BY <4>1, <4>2, <4>3, <1>2 DEF After
    <3>2. CASE q.key # k
      <4>1. kv'[k] = kv[k]
        BY <2>1, <2>2, <3>2, <1>4
      <4>2. On(k) \cap Seen' = On(k) \cap Seen
        <5>1. p \notin On(k)
          BY <3>2 DEF On
        <5> QED
          BY <5>1, <1>0
      <4> QED
        BY <3>0, <4>1, <4>2, <1>2 DEF After
    <3> QED
      BY <3>1, <3>2
  <2>4. kv' \in [Keys -> Values \cup {KeyText, Absent}]
    BY <2>1, <2>2, <1>4
  <2> QED
    BY <2>3, <2>4, <1>1 DEF StoreOK
<1>9. MappingOK'
  <2>0. /\ DOMAIN lsn_mapping = {Log[i].lsn : i \in Seen}
        /\ \A i \in Seen : lsn_mapping[Log[i].lsn] = i - 1
    BY <1>1 DEF Inv, RecInv, MappingOK
  <2>1. lsn_mapping' = [z \in DOMAIN lsn_mapping \cup {q.lsn} |-> IF z = q.lsn THEN p - 1 ELSE lsn_mapping[z]]
    BY <1>1, <1>5 DEF With, StateTypes
  <2>2. DOMAIN lsn_mapping' = {Log[i].lsn : i \in Seen'}
    BY <2>0, <2>1, <1>0
  <2>3. ASSUME NEW i \in Seen' PROVE lsn_mapping'[Log[i].lsn] = i - 1
    <3>1. CASE i = p
      BY <3>1, <2>1
    <3>2. CASE i # p
      <4>1. i \in Seen
        BY <3>2, <1>0
      <4>2. Log[i].lsn # q.lsn /\ Log[i].lsn \in DOMAIN lsn_mapping
        BY <4>1, <1>4, <1>6, <2>0
      <4> QED
        BY <4>1, <4>2, <2>0, <2>1
    <3> QED
      BY <3>1, <3>2
  <2> QED
    BY <2>2, <2>3, <1>2 DEF MappingOK
<1>10. /\ DOMAIN active_txn' \subseteq Txns \cup {InvalidTxn}
       /\ q.type \in Ending => /\ DOMAIN active_txn' = DOMAIN active_txn \ {q.txn}
                               /\ \A t \in DOMAIN active_txn' : active_txn'[t] = active_txn[t]
       /\ q.type \notin Ending => /\ DOMAIN active_txn' = DOMAIN active_txn \cup {r.txn} /\ active_txn'[r.txn] = q.lsn
                                  /\ \A t \in DOMAIN active_txn : t # r.txn => active_txn'[t] = active_txn[t]
  <2>0. DOMAIN active_txn \subseteq Txns \cup {InvalidTxn} /\ r.txn \in Txns \cup {InvalidTxn}
    BY <1>1, <1>4, <1>5 DEF StateTypes
  <2>1. r.type \in {"COMMIT", "ABORT"} <=> q.type \in Ending
    BY <1>5 DEF Ending
  <2>2. CASE q.type \in Ending
    <3>1. active_txn' = Restrict(active_txn, DOMAIN active_txn \ {q.txn})
      BY <2>1, <2>2, <1>1, <1>5 DEF RedoLog, Ending
    <3>2. active_txn' = [t \in DOMAIN active_txn \ {q.txn} |-> active_txn[t]]
      BY <3>1 DEF Restrict
    <3> QED
      BY <2>0, <2>2, <3>2
  <2>3. CASE q.type \notin Ending
    <3>1. active_txn' = [z \in DOMAIN active_txn \cup {r.txn} |-> IF z = r.txn THEN q.lsn ELSE active_txn[z]]
      BY <2>1, <2>3, <1>1, <1>5 DEF RedoLog, With
    <3> QED
      BY <2>0, <2>3, <3>1
  <2> QED
    BY <2>2, <2>3
<1>11. ASSUME NEW t \in Txns
       PROVE  /\ Opens(t) \cap Seen' # {} /\ Ends(t) \cap Seen' = {} => t \in DOMAIN active_txn'
              /\ t \in DOMAIN active_txn' =>
                   /\ Ends(t) \cap Seen' = {}
                   /\ \E i \in Opens(t) : Last(Opens(t) \cap Seen', i) /\ Log[i].lsn = active_txn'[t]
  <2>0. /\ Opens(t) \cap Seen # {} /\ Ends(t) \cap Seen = {} => t \in DOMAIN active_txn
        /\ t \in DOMAIN active_txn =>
             /\ Ends(t) \cap Seen = {}
             /\ \E i \in Opens(t) : Last(Opens(t) \cap Seen, i) /\ Log[i].lsn = active_txn[t]
    BY <1>1, <1>7 DEF Inv, RecInv, ActiveOK
  <2>1. CASE q.txn # t \/ q.type = "PREPARED"
    <3>1. p \notin Opens(t) /\ p \notin Ends(t)
      BY <2>1 DEF Opens, Ends, By, Open, Ending
    <3>2. Opens(t) \cap Seen' = Opens(t) \cap Seen /\ Ends(t) \cap Seen' = Ends(t) \cap Seen
      BY <3>1, <1>0
    <3>3. /\ t \in DOMAIN active_txn' <=> t \in DOMAIN active_txn
          /\ t \in DOMAIN active_txn => active_txn'[t] = active_txn[t]
      <4>1. t # r.txn /\ (q.type \in Ending => t # q.txn)
        BY <2>1, <1>5, RecoveryAssumption DEF Ending
      <4> QED
        BY <4>1, <1>10
    <3> QED
      BY <2>0, <3>2, <3>3
  <2>2. CASE q.txn = t /\ q.type \in Ending
    <3>1. p \in Ends(t) \cap Seen'
      BY <2>2, <1>0 DEF Ends, By
    <3> QED
      BY <3>1, <2>2, <1>10
  <2>3. CASE q.txn = t /\ q.type \in Open
    <3>1. q.type \notin Ending /\ r.txn = t
      BY <2>3, <1>5 DEF Open, Ending
    <3>2. t \in DOMAIN active_txn' /\ active_txn'[t] = q.lsn
      BY <3>1, <1>10
    <3>3. p \in Opens(t) /\ p \in By(t) /\ p \in Seen'
      BY <2>3, <1>0 DEF Opens, By
    <3>4. \A i \in Seen' : i <= p
      BY <1>0
    <3>5. Last(Opens(t) \cap Seen', p)
      BY <3>3, <3>4 DEF Last
    <3>6. ASSUME NEW e \in Ends(t) \cap Seen' PROVE FALSE
      <4>1. p <= e /\ e <= p
        BY <3>3, <3>4, <1>1 DEF LogInv, Closed
      <4>2. e \in Nat /\ e # p
        <5>1. p \notin Ends(t)
          BY <3>1 DEF Ends
        <5> QED
          BY <5>1, <1>0
      <4> QED
        BY <4>1, <4>2, <1>0
    <3> QED
      BY <3>2, <3>3, <3>5, <3>6
  <2> QED
    BY <2>1, <2>2, <2>3, <1>0 DEF Written
<1>12. ASSUME InvalidTxn \in DOMAIN active_txn'
       PROVE  \E i \in Seen' : Log[i].type = "PREPARED" /\ Log[i].lsn = active_txn'[InvalidTxn]
  <2>1. CASE q.type = "PREPARED"
    <3>1. q.type \notin Ending /\ r.txn = InvalidTxn
      BY <2>1, <1>5 DEF Ending
    <3> QED
      BY <3>1, <2>1, <1>0, <1>10
  <2>2. CASE q.type # "PREPARED"
    <3>1. InvalidTxn \in DOMAIN active_txn /\ active_txn'[InvalidTxn] = active_txn[InvalidTxn]
      <4>1. CASE q.type \in Ending
        BY <4>1, <1>10, <1>12
      <4>2. CASE q.type \notin Ending
        <5>1. r.txn # InvalidTxn
          BY <2>2, <4>2, <1>0, <1>4, <1>5, RecoveryAssumption DEF Written
        <5> QED
          BY <5>1, <4>2, <1>10, <1>12
      <4> QED
        BY <4>1, <4>2
    <3>2. \E i \in Seen : Log[i].type = "PREPARED" /\ Log[i].lsn = active_txn[InvalidTxn]
      BY <3>1, <1>1 DEF Inv, RecInv, ActiveOK
    <3> QED
      BY <3>1, <3>2, <1>0
  <2> QED
    BY <2>1, <2>2
<1>13. ActiveOK'
  BY <1>1, <1>2, <1>7, <1>11, <1>12 DEF ActiveOK
<1>14. NextOK' /\ UndoOK' /\ AbortOK'
  BY <1>1 DEF NextOK, UndoOK, AbortOK
<1>15. StateTypes'
  BY <1>0, <1>1, <1>3, <1>8, <1>10 DEF StateTypes
<1> QED
  BY <1>0, <1>3, <1>8, <1>9, <1>13, <1>14, <1>15 DEF Inv, RecInv

\* No two records have the same number.
LEMMA LsnUnique ==
  ASSUME Typed, LogInv, NEW i \in Recs, NEW j \in Recs, Log[i].lsn = Log[j].lsn
  PROVE  i = j
<1>1. i \in Nat /\ j \in Nat /\ Log[i].lsn \in Nat /\ Log[j].lsn \in Nat
  BY RecsAre DEF LogInv, Shaped
<1>2. ~(i < j) /\ ~(j < i)
  BY <1>1 DEF LogInv, Numbered
<1> QED
  BY <1>1, <1>2

\* An iteration of the outer loop of Redo keeps the invariant.
LEMMA NextChunkKeeps ==
  ASSUME Inv, NextChunk
  PROVE  Inv'
<1>1. /\ Typed /\ LogInv /\ StateTypes /\ phase = "redo" /\ phase' = "redo" /\ offset' = offset + inner /\ inner' = 0
      /\ UNCHANGED <<disk, tail, next_lsn, kv, txn, owner, lsn_mapping, active_txn, undo_list, crashes>>
      /\ offset \in Nat /\ inner \in Nat
  BY DEF Inv, RecInv, StateTypes, NextChunk, logVars
<1>2. /\ Log' = Log /\ Recs' = Recs
      /\ \A t : By(t)' = By(t) /\ Ends(t)' = Ends(t) /\ Opens(t)' = Opens(t)
      /\ \A k : On(k)' = On(k)
      /\ \A t, k : OnBy(t, k)' = OnBy(t, k)
  BY <1>1, KeptSets
<1>3. LogInv' /\ Typed' /\ TxnsOK' /\ OwnersOK'
  BY <1>1, QuietTxns
<1>4. Read' = Read
  BY <1>1 DEF Read
<1>5. Seen' = Seen /\ Known' = Seen /\ Known = Seen
  BY <1>1, <1>2, <1>4 DEF Seen, Known
<1>6. StoreOK'
  <2>1. ASSUME NEW k \in Keys PROVE After(On(k) \cap Seen, kv[k])'
    <3>1. After(On(k) \cap Seen, kv[k])
      BY <1>1 DEF Inv, RecInv, StoreOK
    <3> QED
      BY <3>1, <1>1, <1>2, <1>5 DEF After
  <2> QED
    BY <2>1, <1>1 DEF StoreOK
<1>7. RedoOK'
  BY <1>1, <1>4, RecoveryAssumption DEF RedoOK, Inv, RecInv
<1>8. MappingOK'
  <2>1. /\ DOMAIN lsn_mapping = {Log[i].lsn : i \in Seen}
        /\ \A i \in Seen : lsn_mapping[Log[i].lsn] = i - 1
    BY <1>1 DEF Inv, RecInv, MappingOK
  <2> QED
    BY <2>1, <1>1, <1>2, <1>5, Zenon DEF MappingOK
<1>9. ActiveOK'
  <2>1. /\ \A t \in Txns : Opens(t) \cap Seen # {} /\ Ends(t) \cap Seen = {} => t \in DOMAIN active_txn
        /\ \A t \in DOMAIN active_txn \cap Txns :
             /\ Ends(t) \cap Seen = {}
             /\ \E i \in Opens(t) : Last(Opens(t) \cap Seen, i) /\ Log[i].lsn = active_txn[t]
        /\ InvalidTxn \in DOMAIN active_txn =>
             \E i \in Seen : Log[i].type = "PREPARED" /\ Log[i].lsn = active_txn[InvalidTxn]
    BY <1>1, <1>5 DEF Inv, RecInv, ActiveOK
  <2> QED
    BY <2>1, <1>1, <1>2, <1>5 DEF ActiveOK
<1>10. NextOK' /\ UndoOK' /\ AbortOK'
  BY <1>1 DEF NextOK, UndoOK, AbortOK
<1>11. StateTypes'
  BY <1>1, <1>3, RecoveryAssumption DEF StateTypes
<1> QED
  BY <1>3, <1>6, <1>7, <1>8, <1>9, <1>10, <1>11 DEF Inv, RecInv

\* The end of Redo, with the next number and the list for Undo, keeps the invariant.
LEMMA RedoEndKeeps ==
  ASSUME Inv, RedoEnd
  PROVE  Inv'
<1>1. /\ Typed /\ LogInv /\ StateTypes /\ RedoOK /\ phase = "redo" /\ phase' = "undo" /\ offset >= Len(disk)
      /\ UNCHANGED <<disk, tail, kv, txn, owner, offset, inner, lsn_mapping, active_txn, crashes>>
      /\ offset \in Nat /\ inner \in Nat /\ undo_list' = Range(active_txn)
      /\ next_lsn' = Max(DOMAIN lsn_mapping \cup {INVALID_LSN}) + 1
  BY DEF Inv, RecInv, StateTypes, RedoEnd, redoVars
<1>2. /\ Log' = Log /\ Recs' = Recs
      /\ \A t : By(t)' = By(t) /\ Ends(t)' = Ends(t) /\ Opens(t)' = Opens(t)
      /\ \A k : On(k)' = On(k)
      /\ \A t, k : OnBy(t, k)' = OnBy(t, k)
  BY <1>1, KeptSets
<1>3. LogInv' /\ Typed' /\ TxnsOK' /\ OwnersOK'
  BY <1>1, QuietTxns
<1>4. Log = disk /\ Len(disk) \in Nat /\ Read = Len(disk) /\ Read' = Len(disk)
  <2>1. tail = <<>> /\ offset + inner <= Len(disk) /\ Read = offset + inner
    BY <1>1 DEF RedoOK, Read
  <2>2. Len(disk) \in Nat /\ Log = disk
    BY <1>1, <2>1, OnlyDisk DEF Typed
  <2> QED
    BY <1>1, <2>1, <2>2 DEF Read
<1>5. \A i \in Recs : i \in Nat /\ i <= Len(Log) /\ Log[i].lsn \in Nat
  BY <1>1, RecsAre DEF LogInv, Shaped
<1>6. Seen = Recs /\ Seen' = Recs /\ Known' = Recs /\ Known = Recs
  BY <1>1, <1>2, <1>4, <1>5 DEF Seen, Known
<1>7. /\ DOMAIN lsn_mapping = {Log[i].lsn : i \in Recs}
      /\ \A i \in Recs : lsn_mapping[Log[i].lsn] = i - 1
  BY <1>1, <1>6 DEF Inv, RecInv, MappingOK
<1>8. /\ \A t \in Txns : Opens(t) # {} /\ Ends(t) = {} => t \in DOMAIN active_txn
      /\ \A t \in DOMAIN active_txn \cap Txns :
           Ends(t) = {} /\ \E i \in Opens(t) : Last(Opens(t), i) /\ Log[i].lsn = active_txn[t]
      /\ InvalidTxn \in DOMAIN active_txn =>
           \E i \in Recs : Log[i].type = "PREPARED" /\ Log[i].lsn = active_txn[InvalidTxn]
  <2>1. \A t : Opens(t) \cap Recs = Opens(t) /\ Ends(t) \cap Recs = Ends(t)
    BY DEF Opens, Ends, By
  <2> QED
    BY <1>1, <1>6, <2>1 DEF Inv, RecInv, ActiveOK
<1>9. /\ next_lsn' \in Nat
      /\ \A i \in Recs : Log[i].lsn < next_lsn'
      /\ \A l \in 0..(next_lsn' - 1) : \E i \in Recs : Log[i].lsn = l
  <2> DEFINE S == DOMAIN lsn_mapping \cup {INVALID_LSN}
  <2>1. S \in SUBSET Int /\ INVALID_LSN = -1
    BY <1>5, <1>7 DEF INVALID_LSN
  <2>2. CASE Recs = {}
    <3>1. S = {INVALID_LSN}
      BY <2>2, <1>7
    <3>2. Last(S, INVALID_LSN)
      BY <3>1, <2>1 DEF Last
    <3>3. Max(S) = INVALID_LSN
      BY <3>2, <2>1, MaxIsLast
    <3>4. next_lsn' = 0
      BY <3>3, <2>1, <1>1
    <3> QED
      BY <3>4, <2>2
  <2>3. CASE Recs # {}
    <3>0. Recs \in SUBSET Nat /\ Len(Log) \in Nat /\ \A i \in Recs : i <= Len(Log)
      BY <1>4, <1>5
    <3>1. PICK m : Last(Recs, m)
      BY <2>3, <3>0, HasLast
    <3>2. m \in Recs /\ \A i \in Recs : Log[i].lsn <= Log[m].lsn
      <4>1. m \in Recs /\ \A i \in Recs : i <= m
        BY <3>1 DEF Last
      <4>2. ASSUME NEW i \in Recs PROVE Log[i].lsn <= Log[m].lsn
        <5>1. i < m => Log[i].lsn < Log[m].lsn
          BY <4>1, <1>1 DEF LogInv, Numbered
        <5>2. i <= m /\ i \in Nat /\ m \in Nat /\ Log[i].lsn \in Nat /\ Log[m].lsn \in Nat
          BY <4>1, <1>5
        <5>3. i = m \/ i < m
          BY <5>2
        <5> QED
          BY <5>1, <5>2, <5>3
      <4> QED
        BY <4>1, <4>2
    <3>3. Last(S, Log[m].lsn)
      BY <3>2, <1>5, <1>7, <2>1 DEF Last
    <3>4. Max(S) = Log[m].lsn
      BY <3>3, <2>1, MaxIsLast
    <3>5. next_lsn' = Log[m].lsn + 1 /\ Log[m].lsn \in Nat
      BY <3>2, <3>4, <1>1, <1>5
    <3>6. \A l \in 0..Log[m].lsn : \E i \in Recs : Log[i].lsn = l
      BY <3>2, <1>1 DEF LogInv, Numbered
    <3>7. \A i \in Recs : Log[i].lsn < next_lsn'
      BY <3>2, <3>5, <1>5
    <3>8. next_lsn' - 1 = Log[m].lsn
      BY <3>5
    <3> QED
      BY <3>5, <3>6, <3>7, <3>8
  <2> QED
    BY <2>2, <2>3
<1>10. NextOK'
  BY <1>2, <1>9 DEF NextOK
<1>11. StoreOK'
  <2>1. ASSUME NEW k \in Keys PROVE StoreAt(k)'
    <3>1. After(On(k), kv[k])
      <4>1. On(k) \cap Seen = On(k)
        BY <1>6 DEF On
      <4> QED
        BY <1>1, <4>1 DEF Inv, RecInv, StoreOK
    <3>2. After(On(k), kv[k])'
      BY <3>1, <1>1, <1>2 DEF After
    <3> QED
      BY <3>2 DEF StoreAt
  <2> QED
    BY <2>1, <1>1 DEF StoreOK
<1>12. MappingOK' /\ RedoOK'
  BY <1>1, <1>2, <1>6, <1>7 DEF MappingOK, RedoOK
<1>13. ActiveOK'
  <2>1. \A t : Opens(t) \cap Recs = Opens(t) /\ Ends(t) \cap Recs = Ends(t)
    BY DEF Opens, Ends, By
  <2> QED
    BY <1>1, <1>2, <1>6, <1>8, <2>1 DEF ActiveOK
<1>14. ASSUME NEW i \in Recs, Log[i].lsn \in undo_list'
       PROVE  \/ Log[i].type = "PREPARED"
              \/ /\ Log[i].type \in Open /\ Log[i].txn \in DOMAIN active_txn \cap Txns
                 /\ Last(Opens(Log[i].txn), i)
  <2>1. PICK t \in DOMAIN active_txn : Log[i].lsn = active_txn[t]
    BY <1>1, <1>14 DEF Range
  <2>2. t \in Txns \cup {InvalidTxn}
    BY <1>1 DEF StateTypes
  <2>3. CASE t \in Txns
    <3>1. PICK j \in Opens(t) : Last(Opens(t), j) /\ Log[j].lsn = active_txn[t]
      BY <2>3, <1>8
    <3>2. j \in Recs /\ Log[j].txn = t /\ Log[j].type \in Open
      BY DEF Opens, By
    <3>3. i = j
      BY <2>1, <3>1, <3>2, <1>1, LsnUnique
    <3> QED
      BY <2>3, <3>1, <3>2, <3>3
  <2>4. CASE t = InvalidTxn
    <3>1. PICK j \in Recs : Log[j].type = "PREPARED" /\ Log[j].lsn = active_txn[InvalidTxn]
      BY <2>4, <1>8
    <3>2. i = j
      BY <2>1, <2>4, <3>1, <1>1, LsnUnique
    <3> QED
      BY <3>1, <3>2
  <2> QED
    BY <2>2, <2>3, <2>4
<1>15. \A i : i \in Todo' <=> i \in Recs /\ Log[i].lsn \in undo_list'
  BY <1>2, <1>6 DEF Todo
<1>16. UndoOK'
  <2>1. undo_list' \subseteq {Log[i].lsn : i \in Recs}
    <3>1. ASSUME NEW t \in DOMAIN active_txn PROVE \E i \in Recs : Log[i].lsn = active_txn[t]
      <4>1. t \in Txns \cup {InvalidTxn}
        BY <1>1 DEF StateTypes
      <4> QED
        BY <4>1, <1>8 DEF Opens, By
    <3> QED
      BY <3>1, <1>1 DEF Range
  <2>2. \A t \in Txns, k \in Keys : OnBy(t, k) \cap Recs = OnBy(t, k)
    BY DEF OnBy, On
  <2>3. \A i \in Todo' : Log[i].type = "PREPARED" \/ (Log[i].type \in Open /\ Log[i].txn \in DOMAIN active_txn)
    BY <1>14, <1>15
  <2>4. ASSUME NEW t \in Txns, NEW i \in Todo' \cap Opens(t) PROVE Last(Opens(t), i)
    <3>1. Log[i].txn = t /\ Log[i].type # "PREPARED"
      BY DEF Opens, By, Open
    <3> QED
      BY <3>1, <1>14, <1>15
  <2>5. ASSUME NEW t \in Txns, NEW i \in Todo' \cap Opens(t), NEW j \in Todo' \cap Opens(t) PROVE i = j
    <3>1. i <= j /\ j <= i /\ i \in Recs /\ j \in Recs
      BY <2>4, <2>5 DEF Last, Opens, By
    <3> QED
      BY <3>1, <1>5
  <2>6. ASSUME NEW t \in Txns, NEW k \in Keys, NEW f \in OnBy(t, k), t \in DOMAIN active_txn,
               \A j \in Todo' \cap Opens(t) : j < f
        PROVE  FALSE
    <3>1. PICK j \in Opens(t) : Last(Opens(t), j) /\ Log[j].lsn = active_txn[t]
      BY <2>6, <1>8
    <3>2. j \in Todo'
      <4>1. active_txn[t] \in undo_list'
        BY <2>6, <1>1 DEF Range
      <4> QED
        BY <3>1, <4>1, <1>15 DEF Opens, By
    <3>3. f \in Opens(t) /\ f \in Nat
      BY <1>1, <1>5 DEF OnBy, On, Opens, By, LogInv, Shaped, Open
    <3>4. f <= j /\ j < f /\ j \in Nat
      BY <3>1, <3>2, <3>3, <2>6, <1>5 DEF Last, Opens, By
    <3> QED
      BY <3>3, <3>4
  <2>7. ASSUME NEW t \in Txns, NEW k \in Keys, NEW f, t \in DOMAIN active_txn, First(Done(t, k)', f) PROVE FALSE
    <3>1. f \in Done(t, k)'
      BY <2>7 DEF First
    <3>2. f \in OnBy(t, k) /\ \A j \in Todo' \cap Opens(t) : j < f
      BY <3>1, <1>2 DEF Done
    <3> QED
      BY <3>2, <2>6, <2>7
  <2> QED
    BY <2>1, <2>2, <2>3, <2>5, <2>7, <1>1, <1>2, <1>6 DEF UndoOK
<1>17. AbortOK' /\ StateTypes'
  BY <1>1, <1>3, <1>9 DEF AbortOK, StateTypes
<1> QED
  BY <1>3, <1>10, <1>11, <1>12, <1>13, <1>16, <1>17 DEF Inv, RecInv

(***************************************************************************)
(* Undo.                                                                   *)
(***************************************************************************)

\* The writes behind the records to be undone next.
DoneBy(N, t, k) == {i \in OnBy(t, k) \cap Seen : \A j \in N \cap Opens(t) : j < i}

\* Records of keys are among those prev_lsn_ leads through.
LEMMA WritesAreOpen ==
  ASSUME Typed, LogInv, NEW t, NEW k \in Keys, NEW i \in OnBy(t, k)
  PROVE  i \in Opens(t) /\ i \in By(t) /\ i \in On(k) /\ i \in Recs /\ i \in Nat /\ Log[i].txn = t /\ Log[i].key = k
BY RecsAre DEF OnBy, On, Opens, By, LogInv, Shaped, Open

\* The record undone: one of the list, read by Redo.
LEMMA UndoReads ==
  ASSUME Inv, UndoStep
  PROVE  \E i \in Todo :
           LET r == DeserializeFrom(Log[i])
           IN  /\ UndoLog(r)
               /\ undo_list' = (undo_list \ {Log[i].lsn}) \cup ({r.prev} \ {INVALID_LSN})
<1>1. /\ Typed /\ LogInv /\ phase = "undo" /\ undo_list # {} /\ next_lsn \in Nat
      /\ undo_list \subseteq {Log[i].lsn : i \in Seen}
      /\ \A i \in Seen : lsn_mapping[Log[i].lsn] = i - 1
      /\ \A i \in Recs : Log[i].lsn < next_lsn /\ Log[i].lsn \in Nat
  BY DEF Inv, RecInv, StateTypes, UndoStep, UndoOK, MappingOK, NextOK, LogInv, Shaped
<1>2. \A i \in Seen : i \in Recs /\ i \in Nat /\ i <= Len(disk) /\ i >= 1
  BY <1>1, RecsAre DEF Seen, Read, Recs, Records
<1>3. undo_list \in SUBSET Nat /\ \A l \in undo_list : l <= next_lsn
  BY <1>1, <1>2
<1>4. PICK l : Last(undo_list, l)
  BY <1>1, <1>3, HasLast
<1>5. Max(undo_list) = l /\ l \in undo_list
  <2>1. undo_list \in SUBSET Int
    BY <1>3
  <2> QED
    BY <1>4, <2>1, MaxIsLast DEF Last
<1>6. PICK i \in Seen : Log[i].lsn = l
  BY <1>1, <1>5
<1>7. i \in Todo
  BY <1>5, <1>6 DEF Todo
<1>8. disk[lsn_mapping[l] + 1] = Log[i]
  <2>1. lsn_mapping[l] + 1 = i /\ i \in 1..Len(disk)
    BY <1>1, <1>2, <1>6
  <2>2. Log[i] = disk[i]
    BY <2>1, <1>1, Joined DEF Typed, Log
  <2> QED
    BY <2>1, <2>2
<1>9. /\ UndoLog(DeserializeFrom(Log[i]))
      /\ undo_list' = (undo_list \ {l}) \cup ({DeserializeFrom(Log[i]).prev} \ {INVALID_LSN})
  BY <1>5, <1>8 DEF UndoStep
<1> QED
  BY <1>6, <1>7, <1>9

\* What an iteration of Undo does to the list and to the writes undone.
LEMMA UndoMoves ==
  ASSUME Inv, UndoStep
  PROVE  \E i \in Todo : \E N \in SUBSET Seen :
           /\ UndoLog(DeserializeFrom(Log[i]))
           /\ undo_list' \subseteq {Log[x].lsn : x \in Seen}
           /\ N = {x \in Seen : Log[x].lsn \in undo_list'}
           /\ \A x \in N : \/ Log[x].type = "PREPARED"
                           \/ Log[x].type \in Open /\ Log[x].txn \in DOMAIN active_txn
           /\ \A t \in Txns : \A x, y \in N \cap Opens(t) : x = y
           /\ \A t \in Txns, k \in Keys : \A x :
                x \in DoneBy(N, t, k) <=> x \in Done(t, k) \/ (x = i /\ i \in OnBy(t, k))
           /\ \A t \in Txns, k \in Keys : \A x \in Done(t, k) : i \in OnBy(t, k) => i < x
<1>1. PICK i \in Todo :
         LET r == DeserializeFrom(Log[i])
         IN  /\ UndoLog(r)
             /\ undo_list' = (undo_list \ {Log[i].lsn}) \cup ({r.prev} \ {INVALID_LSN})
  BY UndoReads
<1> SUFFICES ASSUME NEW q, q = Log[i], NEW r, r = DeserializeFrom(q), NEW N, N = {x \in Seen : Log[x].lsn \in undo_list'}
             PROVE
               /\ undo_list' \subseteq {Log[x].lsn : x \in Seen}
               /\ \A x \in N : \/ Log[x].type = "PREPARED"
                               \/ Log[x].type \in Open /\ Log[x].txn \in DOMAIN active_txn
               /\ \A t \in Txns : \A x, y \in N \cap Opens(t) : x = y
               /\ \A t \in Txns, k \in Keys : \A x :
                    x \in DoneBy(N, t, k) <=> x \in Done(t, k) \/ (x = i /\ i \in OnBy(t, k))
               /\ \A t \in Txns, k \in Keys : \A x \in Done(t, k) : i \in OnBy(t, k) => i < x
  <2>1. {x \in Seen : Log[x].lsn \in undo_list'} \in SUBSET Seen
    OBVIOUS
  <2> QED
    BY <1>1, <2>1
<1>2. /\ UndoLog(r) /\ undo_list' = (undo_list \ {q.lsn}) \cup ({r.prev} \ {INVALID_LSN})
  BY <1>1
<1>3. /\ Typed /\ LogInv /\ phase = "undo"
      /\ undo_list \subseteq {Log[x].lsn : x \in Seen}
      /\ \A x \in Todo : \/ Log[x].type = "PREPARED"
                         \/ Log[x].type \in Open /\ Log[x].txn \in DOMAIN active_txn
      /\ \A t \in Txns : \A x, y \in Todo \cap Opens(t) : x = y
  BY DEF Inv, RecInv, StateTypes, UndoStep, UndoOK
<1>4. \A x \in Seen : x \in Recs /\ x \in Nat /\ x <= Read
  BY <1>3, RecsAre DEF Seen
<1>5. i \in Seen /\ i \in Recs /\ i \in Nat
  BY <1>4 DEF Todo
<1>6. Read \in Nat
  BY <1>3 DEF Read, Typed
<1>7. \A x, y \in Seen : Log[x].lsn = Log[y].lsn => x = y
  BY <1>3, <1>4, LsnUnique
<1>8. ASSUME NEW t \in Txns, NEW k \in Keys, NEW x \in Done(t, k), i \in OnBy(t, k) PROVE i < x
  <2>1. i \in Opens(t)
    BY <1>3, <1>8, WritesAreOpen
  <2> QED
    BY <2>1, <1>8 DEF Done
<1>9. CASE q.type = "PREPARED"
  <2>1. r.prev = INVALID_LSN
    BY <1>9 DEF DeserializeFrom, Record
  <2>2. undo_list' = undo_list \ {q.lsn}
    BY <2>1, <1>2
  <2>3. N = Todo \ {i}
    BY <2>2, <1>5, <1>7 DEF Todo
  <2>4. \A t : N \cap Opens(t) = Todo \cap Opens(t)
    <3>1. \A t : i \notin Opens(t)
      BY <1>9 DEF Opens, Open
    <3> QED
      BY <3>1, <2>3
  <2>5. \A t, k : DoneBy(N, t, k) = Done(t, k)
    BY <2>4, Zenon DEF DoneBy, Done
  <2>6. \A t : \A k \in Keys : i \notin OnBy(t, k)
    BY <1>9, <1>3, WritesAreOpen DEF Opens, Open
  <2>7. \A t \in Txns, k \in Keys : \A x :
          x \in DoneBy(N, t, k) <=> x \in Done(t, k) \/ (x = i /\ i \in OnBy(t, k))
    BY <2>5, <2>6
  <2>8. undo_list' \subseteq {Log[x].lsn : x \in Seen}
    BY <2>2, <1>3
  <2>9. \A t \in Txns : \A x, y \in N \cap Opens(t) : x = y
    BY <2>4, <1>3
  <2> QED
    BY <2>3, <2>7, <2>8, <2>9, <1>3, <1>8
<1>10. CASE q.type \in Open /\ q.txn \in DOMAIN active_txn
  <2> SUFFICES ASSUME NEW t, t = q.txn
               PROVE
               /\ undo_list' \subseteq {Log[x].lsn : x \in Seen}
               /\ \A x \in N : \/ Log[x].type = "PREPARED"
                               \/ Log[x].type \in Open /\ Log[x].txn \in DOMAIN active_txn
               /\ \A u \in Txns : \A x, y \in N \cap Opens(u) : x = y
               /\ \A u \in Txns, k \in Keys : \A x :
                    x \in DoneBy(N, u, k) <=> x \in Done(u, k) \/ (x = i /\ i \in OnBy(u, k))
               /\ \A u \in Txns, k \in Keys : \A x \in Done(u, k) : i \in OnBy(u, k) => i < x
    OBVIOUS
  <2>1. r = q /\ i \in Opens(t) /\ t \in Txns /\ t \in DOMAIN active_txn
    BY <1>3, <1>5, <1>10 DEF DeserializeFrom, Opens, By, LogInv, Shaped, Open
  <2>2. ChainAt(t, i)
    BY <2>1, <1>3 DEF LogInv, Chained
  <2>3. \A x \in Opens(t) : x \in Recs /\ x \in Nat /\ Log[x].txn = t /\ Log[x].type \in Open
    BY <1>3, RecsAre DEF Opens, By
  <2>4. \A x \in Todo \cap Opens(t) : x = i
    BY <2>1, <1>3
  <2>5. ASSUME NEW P, P \subseteq Opens(t) \cap Seen, N = (Todo \ {i}) \cup P,
               \A x, y \in P : x = y,
               \A x \in Opens(t) : (\A y \in P : y < x) <=> i <= x,
               undo_list' \subseteq {Log[x].lsn : x \in Seen}
        PROVE
               /\ \A x \in N : \/ Log[x].type = "PREPARED"
                               \/ Log[x].type \in Open /\ Log[x].txn \in DOMAIN active_txn
               /\ \A u \in Txns : \A x, y \in N \cap Opens(u) : x = y
               /\ \A u \in Txns, k \in Keys : \A x :
                    x \in DoneBy(N, u, k) <=> x \in Done(u, k) \/ (x = i /\ i \in OnBy(u, k))
    <3>1. \A x \in N : \/ Log[x].type = "PREPARED"
                       \/ Log[x].type \in Open /\ Log[x].txn \in DOMAIN active_txn
      BY <2>1, <2>3, <2>5, <1>3
    <3>2. N \cap Opens(t) = P
      BY <2>4, <2>5
    <3>3. ASSUME NEW u \in Txns, u # t PROVE N \cap Opens(u) = Todo \cap Opens(u)
      <4>1. \A x \in Opens(u) : x \notin Opens(t)
        BY <3>3, <2>3 DEF Opens, By
      <4> QED
        BY <4>1, <2>1, <2>5
    <3>4. \A u \in Txns : \A x, y \in N \cap Opens(u) : x = y
      BY <3>2, <3>3, <2>5, <1>3
    <3>5. ASSUME NEW u \in Txns, NEW k \in Keys, NEW x
          PROVE  x \in DoneBy(N, u, k) <=> x \in Done(u, k) \/ (x = i /\ i \in OnBy(u, k))
      <4>1. CASE u # t
        <5>1. i \notin OnBy(u, k)
          BY <4>1, <2>3, <2>1 DEF OnBy
        <5>2. DoneBy(N, u, k) = Done(u, k)
          BY <4>1, <3>3, Zenon DEF DoneBy, Done
        <5> QED
          BY <5>1, <5>2
      <4>2. CASE u = t
        <5>1. ASSUME x \in OnBy(t, k), x \in Seen
              PROVE  x \in DoneBy(N, t, k) <=> x \in Done(t, k) \/ x = i
          <6>1. x \in Opens(t) /\ x \in Nat
            BY <5>1, <1>3, WritesAreOpen
          <6>2. x \in DoneBy(N, t, k) <=> i <= x
            BY <5>1, <6>1, <3>2, <2>5 DEF DoneBy
          <6>3. x \in Done(t, k) <=> i < x
            BY <5>1, <6>1, <2>1, <2>4 DEF Done
          <6>4. i <= x <=> i < x \/ x = i
            BY <6>1, <1>5
          <6> QED
            BY <6>2, <6>3, <6>4
        <5>2. x \in DoneBy(N, t, k) \/ x \in Done(t, k) => x \in OnBy(t, k) /\ x \in Seen
          BY DEF DoneBy, Done
        <5> QED
          BY <5>1, <5>2, <4>2, <1>5
      <4> QED
        BY <4>1, <4>2
    <3> QED
      BY <3>1, <3>4, <3>5
  <2>6. CASE q.prev = INVALID_LSN
    <3>1. undo_list' = undo_list \ {q.lsn} /\ N = Todo \ {i}
      <4>1. undo_list' = undo_list \ {q.lsn}
        BY <2>6, <2>1, <1>2
      <4> QED
        BY <4>1, <1>5, <1>7 DEF Todo
    <3>2. \A x \in Opens(t) : i <= x
      BY <2>2, <2>3, <2>6, <1>5 DEF ChainAt
    <3>3. undo_list' \subseteq {Log[x].lsn : x \in Seen}
      BY <3>1, <1>3
    <3> DEFINE P == {}
    <3>4. /\ P \subseteq Opens(t) \cap Seen /\ N = (Todo \ {i}) \cup P /\ \A x, y \in P : x = y
          /\ \A x \in Opens(t) : (\A y \in P : y < x) <=> i <= x
      BY <3>1, <3>2
    <3> HIDE DEF P
    <3> QED
      BY <3>3, <3>4, <2>5, <1>8
  <2>7. CASE q.prev # INVALID_LSN
    <3>1. PICK j \in Opens(t) : /\ j < i /\ Log[j].lsn = q.prev
                                /\ \A m \in Opens(t) : m <= j \/ m >= i
      BY <2>2, <2>7 DEF ChainAt
    <3>2. j \in Seen /\ j \in Nat
      <4>1. i <= Read /\ j \in Nat /\ j \in Recs /\ i \in Nat
        BY <2>3, <3>1, <1>4, <1>5
      <4> QED
        BY <4>1, <3>1, <1>6 DEF Seen
    <3>3. undo_list' = (undo_list \ {q.lsn}) \cup {Log[j].lsn}
      BY <2>7, <2>1, <3>1, <1>2
    <3>4. N = (Todo \ {i}) \cup {j}
      <4>1. ASSUME NEW x PROVE x \in N <=> x \in (Todo \ {i}) \cup {j}
        <5>1. x \in N <=> x \in Seen /\ ((x \in Todo /\ Log[x].lsn # q.lsn) \/ Log[x].lsn = Log[j].lsn)
          BY <3>3 DEF Todo
        <5>2. x \in Seen => (Log[x].lsn = q.lsn <=> x = i) /\ (Log[x].lsn = Log[j].lsn <=> x = j)
          BY <1>5, <1>7, <3>2
        <5>3. x \in Todo => x \in Seen
          BY DEF Todo
        <5> QED
          BY <5>1, <5>2, <5>3, <3>2
      <4> QED
        BY <4>1
    <3>5. ASSUME NEW x \in Opens(t) PROVE (\A y \in {j} : y < x) <=> i <= x
      <4>1. x \in Nat /\ (x <= j \/ x >= i)
        BY <2>3, <3>1
      <4>2. j < i
        BY <3>1
      <4> QED
        BY <4>1, <4>2, <3>2, <1>5
    <3>6. undo_list' \subseteq {Log[x].lsn : x \in Seen}
      BY <3>2, <3>3, <1>3
    <3>7. {j} \subseteq Opens(t) \cap Seen /\ \A x, y \in {j} : x = y
      BY <3>1, <3>2
    <3> QED
      BY <3>4, <3>5, <3>6, <3>7, <2>5, <1>8
  <2> QED
    BY <2>6, <2>7
<1> QED
  BY <1>3, <1>9, <1>10

\* Steps that write neither log nor store keep their agreement.
LEMMA KeptStore ==
  ASSUME UNCHANGED <<disk, tail, kv, txn, next_lsn>>, StoreOK, NextOK, phase # "redo", phase' # "redo"
  PROVE  StoreOK' /\ NextOK'
<1>0. /\ Log' = Log /\ Recs' = Recs
      /\ \A t : Ends(t)' = Ends(t)
      /\ \A k : On(k)' = On(k)
      /\ \A t, k : OnBy(t, k)' = OnBy(t, k)
  BY KeptSets
<1>1. NextOK'
  BY <1>0 DEF NextOK
<1>2. ASSUME NEW k \in Keys PROVE StoreAt(k)'
  <2>1. StoreAt(k)
    BY DEF StoreOK
  <2>2. \A x : After(On(k), x)' <=> After(On(k), x)
    BY <1>0, Zenon DEF After
  <2>3. \A t : Lost(t)' <=> Lost(t)
    BY <1>0, Zenon DEF Lost
  <2> QED
    BY <2>1, <2>2, <2>3, <1>0 DEF StoreAt
<1> QED
  BY <1>1, <1>2 DEF StoreOK

\* What Redo read is not changed by an append.
LEMMA SeenStays ==
  ASSUME Typed, NEW r, Grown(r), disk' = disk, phase # "redo", phase' # "redo"
  PROVE  Seen' = Seen /\ \A i \in Seen : i \in Recs /\ i \in Nat /\ i # Len(Log) + 1 /\ Log'[i] = Log[i]
<1>0. /\ \A i \in Recs : Log'[i] = Log[i] /\ i < Len(Log) + 1 /\ i \in Nat
      /\ Len(Log) + 1 \notin Recs /\ Recs' = Recs \cup {Len(Log) + 1}
  BY GrownSets
<1>1. Read = Len(disk) /\ Read' = Len(disk)
  BY DEF Read
<1>2. Len(Log) \in Nat /\ Len(disk) \in Nat /\ Len(disk) <= Len(Log)
  BY Joined DEF Typed, Log
<1>3. ~(Len(Log) + 1 <= Len(disk))
  BY <1>2
<1>4. ASSUME NEW i PROVE i \in Seen' <=> i \in Seen
  BY <1>0, <1>1, <1>3 DEF Seen
<1>5. Seen' = Seen
  BY <1>4
<1> QED
  BY <1>5, <1>0 DEF Seen

\* A record that recovery appends.
LEMMA RecoveryGrows ==
  ASSUME Inv, phase \in {"undo", "abort"}, phase' = phase, txn' = txn, owner' = owner, NEW r, Grown(r), Fits(r),
         r.txn \in Txns => By(r.txn) # {}, r.lsn = next_lsn, next_lsn' = next_lsn + 1
  PROVE  LogInv' /\ NextOK' /\ TxnsOK' /\ OwnersOK'
<1>0. Typed /\ LogInv /\ NextOK /\ next_lsn \in Nat /\ phase # "redo"
  BY DEF Inv, RecInv, StateTypes
<1>1. LogInv'
  BY <1>0, GrowLog
<1>2. NextOK'
  BY <1>0, GrowNext
<1>3. /\ \A t \in Txns : txn[t].at \in {"new", "ended"} /\ (By(t) # {} => txn[t].at = "ended")
      /\ \A k \in Keys : owner[k] = InvalidTxn
  BY NobodyRuns
<1>4. ASSUME NEW t \in Txns PROVE TxnOK(t)'
  <2>1. CASE t = r.txn
    <3>1. txn'[t].at = "ended"
      BY <2>1, <1>3
    <3> QED
      BY <3>1 DEF TxnOK
  <2>2. CASE t # r.txn
    BY <2>2, <1>0, OtherTxn DEF Inv, RecInv, TxnsOK
  <2> QED
    BY <2>1, <2>2
<1>5. TxnsOK'
  BY <1>4 DEF TxnsOK
<1>6. OwnersOK'
  BY <1>3 DEF OwnersOK
<1> QED
  BY <1>1, <1>2, <1>5, <1>6

\* An iteration of Undo with its compensation keeps the invariant.
LEMMA UndoStepKeeps ==
  ASSUME Inv, UndoStep
  PROVE  Inv'
<1>0. PICK i \in Todo : \E N \in SUBSET Seen :
           /\ UndoLog(DeserializeFrom(Log[i]))
           /\ undo_list' \subseteq {Log[x].lsn : x \in Seen}
           /\ N = {x \in Seen : Log[x].lsn \in undo_list'}
           /\ \A x \in N : \/ Log[x].type = "PREPARED"
                           \/ Log[x].type \in Open /\ Log[x].txn \in DOMAIN active_txn
           /\ \A t \in Txns : \A x, y \in N \cap Opens(t) : x = y
           /\ \A t \in Txns, k \in Keys : \A x :
                x \in DoneBy(N, t, k) <=> x \in Done(t, k) \/ (x = i /\ i \in OnBy(t, k))
           /\ \A t \in Txns, k \in Keys : \A x \in Done(t, k) : i \in OnBy(t, k) => i < x
  BY UndoMoves
<1>1. PICK N \in SUBSET Seen :
           /\ UndoLog(DeserializeFrom(Log[i]))
           /\ undo_list' \subseteq {Log[x].lsn : x \in Seen}
           /\ N = {x \in Seen : Log[x].lsn \in undo_list'}
           /\ \A x \in N : \/ Log[x].type = "PREPARED"
                           \/ Log[x].type \in Open /\ Log[x].txn \in DOMAIN active_txn
           /\ \A t \in Txns : \A x, y \in N \cap Opens(t) : x = y
           /\ \A t \in Txns, k \in Keys : \A x :
                x \in DoneBy(N, t, k) <=> x \in Done(t, k) \/ (x = i /\ i \in OnBy(t, k))
           /\ \A t \in Txns, k \in Keys : \A x \in Done(t, k) : i \in OnBy(t, k) => i < x
  BY <1>0
<1> SUFFICES ASSUME NEW q, q = Log[i], NEW n, n = Len(Log) + 1 PROVE Inv'
  OBVIOUS
<1>2. /\ Typed /\ LogInv /\ StateTypes /\ phase = "undo" /\ phase' = "undo" /\ MappingOK /\ ActiveOK /\ UndoOK
      /\ UNCHANGED <<txn, owner, offset, inner, lsn_mapping, crashes>> /\ next_lsn \in Nat
  BY DEF Inv, RecInv, StateTypes, UndoStep, redoVars
<1>3. i \in Seen /\ i \in Recs /\ i \in Nat
  BY <1>2, RecsAre DEF Todo, Seen
<1>4. q.type = "PREPARED" \/ (q.type \in Open /\ q.txn \in DOMAIN active_txn /\ DeserializeFrom(q) = q)
  BY <1>2 DEF UndoOK, DeserializeFrom, Open
<1>5. Known = Recs /\ Known' = Recs'
  BY <1>2 DEF Known
<1>6. /\ \A t \in Txns : Opens(t) # {} /\ Ends(t) = {} => t \in DOMAIN active_txn
      /\ \A t \in DOMAIN active_txn \cap Txns :
           Ends(t) = {} /\ \E x \in Opens(t) : Last(Opens(t), x) /\ Log[x].lsn = active_txn[t]
      /\ InvalidTxn \in DOMAIN active_txn =>
           \E x \in Seen : Log[x].type = "PREPARED" /\ Log[x].lsn = active_txn[InvalidTxn]
  <2>1. \A t : Opens(t) \cap Recs = Opens(t) /\ Ends(t) \cap Recs = Ends(t)
    BY DEF Opens, Ends, By
  <2> QED
    BY <1>2, <1>5, <2>1 DEF ActiveOK
<1>7. /\ DOMAIN lsn_mapping = {Log[x].lsn : x \in Seen}
      /\ \A x \in Seen : lsn_mapping[Log[x].lsn] = x - 1
  BY <1>2 DEF MappingOK
<1>8. /\ \A t \in Txns, k \in Keys : OnBy(t, k) # {} => OnBy(t, k) \cap Seen # {}
      /\ \A t \in Txns : \A k \in Keys : \A f, m \in OnBy(t, k) :
           t \in DOMAIN active_txn /\ First(Done(t, k), f) /\ Last(OnBy(t, k), m)
             => Undoes(Log[m], Log[f])
  BY <1>2 DEF UndoOK
<1>9. CASE q.type \notin {"INSERT", "DELETE"}
  <2>1. UNCHANGED <<kv, disk, tail, next_lsn, active_txn>>
    <3>1. DeserializeFrom(q).type \notin {"INSERT", "DELETE"}
      BY <1>9 DEF DeserializeFrom, Record
    <3> QED
      BY <3>1, <1>1 DEF UndoLog, logVars
  <2>2. /\ Log' = Log /\ Recs' = Recs
        /\ \A t : By(t)' = By(t) /\ Ends(t)' = Ends(t) /\ Opens(t)' = Opens(t)
        /\ \A k : On(k)' = On(k)
        /\ \A t, k : OnBy(t, k)' = OnBy(t, k)
    BY <2>1, KeptSets
  <2>3. LogInv' /\ Typed' /\ TxnsOK' /\ OwnersOK'
    BY <2>1, <1>2, QuietTxns
  <2>4. Seen' = Seen /\ Known' = Recs
    BY <2>1, <2>2, <1>2, <1>5 DEF Seen, Read
  <2>5. Todo' = N
    BY <2>2, <2>4, <1>1, Zenon DEF Todo
  <2>6. ASSUME NEW t \in Txns, NEW k \in Keys PROVE Done(t, k)' = Done(t, k)
    <3>1. i \notin OnBy(t, k)
      <4>1. q.key \notin Keys
        BY <1>2, <1>3, <1>9 DEF LogInv, Shaped
      <4> QED
        BY <4>1 DEF OnBy, On
    <3>2. Done(t, k)' = DoneBy(N, t, k)
      BY <2>2, <2>4, <2>5, Zenon DEF Done, DoneBy
    <3>3. \A x : x \in DoneBy(N, t, k) <=> x \in Done(t, k)
      BY <3>1, <1>1
    <3> QED
      BY <3>2, <3>3, Zenon
  <2>7. UndoOK'
    <3>1. \A t \in Txns : \A k \in Keys : \A f, m \in OnBy(t, k)' :
            t \in DOMAIN active_txn' /\ First(Done(t, k)', f) /\ Last(OnBy(t, k)', m)
              => Undoes(Log'[m], Log'[f])
      BY <2>1, <2>2, <2>6, <1>8
    <3>2. undo_list' \subseteq {Log'[x].lsn : x \in Seen'}
      BY <2>2, <2>4, <1>1
    <3>3. \A t \in Txns, k \in Keys : OnBy(t, k)' # {} => OnBy(t, k)' \cap Seen' # {}
      BY <2>2, <2>4, <1>8
    <3>4. \A x \in Todo' : \/ Log'[x].type = "PREPARED"
                           \/ Log'[x].type \in Open /\ Log'[x].txn \in DOMAIN active_txn'
      BY <2>1, <2>2, <2>5, <1>1
    <3>5. \A t \in Txns : \A x, y \in Todo' \cap Opens(t)' : x = y
      BY <2>2, <2>5, <1>1
    <3> QED
      BY <3>1, <3>2, <3>3, <3>4, <3>5 DEF UndoOK
  <2>8. MappingOK' /\ RedoOK'
    BY <2>2, <2>4, <1>2, <1>7 DEF MappingOK, RedoOK
  <2>9. ActiveOK'
    <3>1. \A t : Opens(t) \cap Recs = Opens(t) /\ Ends(t) \cap Recs = Ends(t)
      BY DEF Opens, Ends, By
    <3> QED
      BY <3>1, <2>1, <2>2, <2>4, <1>2, <1>6 DEF ActiveOK
  <2>10. StoreOK' /\ NextOK'
    BY <2>1, <1>2, KeptStore DEF Inv, RecInv
  <2>11. AbortOK' /\ StateTypes'
    BY <2>1, <2>3, <1>2 DEF AbortOK, StateTypes
  <2> QED
    BY <2>3, <2>7, <2>8, <2>9, <2>10, <2>11 DEF Inv, RecInv
<1>10. CASE q.type \in {"INSERT", "DELETE"}
  <2>1. PICK y \in {"INSERT", "DELETE"}, w \in {Absent, KeyText} :
          y # q.type /\ Compensate(q, y, w) /\ w = IF y = "DELETE" THEN Absent ELSE KeyText
    <3>1. DeserializeFrom(q) = q
      BY <1>10 DEF DeserializeFrom
    <3> QED
      BY <3>1, <1>1, <1>10 DEF UndoLog
  <2> SUFFICES ASSUME NEW t, t = q.txn, NEW k, k = q.key,
                      NEW c, c = Record(next_lsn, t, active_txn[t], y, k, q.value) PROVE Inv'
    OBVIOUS
  <2>2. /\ kv' = [kv EXCEPT ![k] = w] /\ disk' = disk /\ tail' = tail \o Cells(c) /\ next_lsn' = next_lsn + 1
        /\ active_txn' = With(active_txn, t, next_lsn)
    BY <2>1 DEF Compensate, Append_
  <2>3. /\ k \in Keys /\ t \in Txns /\ t \in DOMAIN active_txn /\ q.value # Absent /\ i \in OnBy(t, k)
        /\ q.value \in Values \cup {KeyText, Absent} /\ t # InvalidTxn
    <3>1. q \in LogRecord
      <4>1. Log \in Seq(LogRecord) /\ i \in 1..Len(Log)
        BY <1>2, <1>3, RecsAre
      <4> QED
        BY <4>1
    <3>2. k \in Keys /\ t \in Txns /\ q.value # Absent
      BY <1>2, <1>3, <1>10 DEF LogInv, Shaped
    <3>3. t \in DOMAIN active_txn /\ t # InvalidTxn
      BY <1>4, <1>10, <3>2, RecoveryAssumption
    <3>4. i \in OnBy(t, k)
      BY <1>3 DEF OnBy, On
    <3> QED
      BY <3>1, <3>2, <3>3, <3>4 DEF LogRecord
  <2>4. /\ i \in Opens(t) /\ i \in By(t) /\ Ends(t) = {}
    BY <1>2, <1>6, <2>3, WritesAreOpen
  <2>5. PICK j \in Opens(t) : Last(Opens(t), j) /\ Log[j].lsn = active_txn[t]
    BY <1>6, <2>3
  <2>6. active_txn[t] \in Nat
    BY <2>5, <1>2 DEF Opens, By, LogInv, Shaped
  <2>7. /\ c.lsn = next_lsn /\ c.txn = t /\ c.prev = active_txn[t] /\ c.type = y /\ c.key = k /\ c.value = q.value
        /\ c.type \in Written /\ c.type \in Open /\ c.type \notin Ending
    BY DEF Record, Written, Open, Ending
  <2>8. Typed' /\ Grown(c)
    <3>1. c \in LogRecord
      BY <2>3, <2>6, <1>2 DEF Record, LogRecord, Types
    <3> QED
      BY <3>1, <2>2, <2>7, <1>2, Growing
  <2>9. ASSUME NEW u \in Txns \ {t}, OnBy(u, k) # {} PROVE Ends(u) # {}
    <3>1. PICK x \in OnBy(u, k) : TRUE
      BY <2>9
    <3>2. x \in On(k) /\ Log[x].txn = u /\ x \in Nat /\ i \in On(k) /\ Log[i].txn = t
      BY <1>2, <2>3, WritesAreOpen
    <3>3. CASE x < i
      BY <3>2, <3>3, <1>2, <2>3 DEF LogInv, Blocks
    <3>4. CASE i < x
      BY <3>2, <3>4, <1>2, <2>3, <2>4 DEF LogInv, Blocks
    <3>5. x # i
      BY <3>2
    <3> QED
      BY <3>2, <3>3, <3>4, <3>5, <1>3
  <2>10. Fits(c)
    <3>1. c.prev # INVALID_LSN
      BY <2>6, <2>7 DEF INVALID_LSN
    <3>2. /\ next_lsn \in Nat
          /\ \A x \in Recs : Log[x].lsn < next_lsn
          /\ \A l \in 0..(next_lsn - 1) : \E x \in Recs : Log[x].lsn = l
      BY <1>2, NextFits
    <3>3. OnBy(c.txn, c.key) # {} /\ c.type # "ABORT"
      BY <2>3, <2>7
    <3> QED
      BY <3>1, <3>2, <3>3, <2>3, <2>4, <2>5, <2>7, <2>9 DEF Fits
  <2>11. LogInv' /\ NextOK' /\ TxnsOK' /\ OwnersOK'
    BY <2>2, <2>4, <2>7, <2>8, <2>10, <1>2, RecoveryGrows
  <2>12. StoreOK'
    <3>1. txn'[t].at = "ended" /\ \A u \in Txns : txn[u].at = "ended" => txn'[u].at = "ended"
      BY <1>2, <2>3, <2>4, NobodyRuns
    <3>2. w = Stored(c) \/ (w = KeyText /\ c.type = "INSERT" /\ txn'[c.txn].at = "ended" /\ Ends(c.txn) = {})
      BY <2>1, <2>4, <2>7, <3>1 DEF Stored
    <3>3. /\ kv' = [kv EXCEPT ![c.key] = w] /\ kv \in [Keys -> Values \cup {KeyText, Absent}] /\ StoreOK
          /\ Typed /\ Grown(c) /\ c.key \in Keys /\ c.txn \in Txns /\ phase # "redo" /\ phase' # "redo"
          /\ c.type \in {"INSERT", "DELETE"}
      BY <1>2, <2>2, <2>3, <2>7, <2>8 DEF StateTypes, Inv, RecInv
    <3> QED
      BY <3>1, <3>2, <3>3, WriteStore
  <2>13. /\ DOMAIN active_txn' = DOMAIN active_txn /\ active_txn'[t] = next_lsn
         /\ \A u \in DOMAIN active_txn : u # t => active_txn'[u] = active_txn[u]
    BY <2>2, <2>3 DEF With
  <2>14. StateTypes'
    <3>1. kv' \in [Keys -> Values \cup {KeyText, Absent}]
      BY <1>2, <2>1, <2>2 DEF StateTypes
    <3> QED
      BY <3>1, <1>2, <2>2, <2>8, <2>13 DEF StateTypes
  <2>15. Seen' = Seen /\ \A x \in Seen : x \in Recs /\ x \in Nat /\ x # n /\ Log'[x] = Log[x]
    BY <1>2, <2>2, <2>8, SeenStays
  <2>16. /\ \A u, x : x \in Ends(u)' <=> x \in Ends(u)
         /\ \A u, x : x \in Opens(u)' <=> x \in Opens(u) \/ (x = n /\ u = t)
         /\ \A u, z, x : x \in OnBy(u, z)' <=> x \in OnBy(u, z) \/ (x = n /\ u = t /\ z = k)
         /\ \A x \in Recs : Log'[x] = Log[x] /\ x < n /\ x \in Nat
         /\ Log'[n] = c /\ n \in Nat /\ n \notin Recs /\ Recs' = Recs \cup {n}
    BY <1>2, <2>7, <2>8, GrownSets
  <2>17. MappingOK' /\ RedoOK'
    <3>1. {Log'[x].lsn : x \in Seen'} = {Log[x].lsn : x \in Seen}
      BY <2>15
    <3> QED
      BY <3>1, <2>15, <1>2, <1>7 DEF MappingOK, RedoOK
  <2>18. ActiveOK'
    <3>1. ASSUME NEW u \in Txns
          PROVE  /\ Opens(u)' # {} /\ Ends(u)' = {} => u \in DOMAIN active_txn
                 /\ u \in DOMAIN active_txn =>
                      Ends(u)' = {} /\ \E x \in Opens(u)' : Last(Opens(u)', x) /\ Log'[x].lsn = active_txn'[u]
      <4>1. CASE u = t
        <5>1. Ends(t)' = {} /\ n \in Opens(t)'
          BY <2>4, <2>16
        <5>2. Last(Opens(t)', n)
          BY <5>1, <2>16 DEF Last, Opens, By
        <5>3. Log'[n].lsn = active_txn'[t]
          BY <2>7, <2>13, <2>16
        <5> QED
          BY <4>1, <5>1, <5>2, <5>3, <2>3
      <4>2. CASE u # t
        <5>0. \A x : (x \in Opens(u)' <=> x \in Opens(u)) /\ (x \in Ends(u)' <=> x \in Ends(u))
          BY <4>2, <2>16
        <5>1. Opens(u)' = Opens(u) /\ Ends(u)' = Ends(u)
          BY <5>0, Zenon
        <5>2. \A x \in Opens(u) : Log'[x] = Log[x]
          BY <2>16 DEF Opens, By
        <5> QED
          BY <4>2, <5>1, <5>2, <2>13, <1>6
      <4> QED
        BY <4>1, <4>2
    <3>2. ASSUME InvalidTxn \in DOMAIN active_txn
          PROVE  \E x \in Seen' : Log'[x].type = "PREPARED" /\ Log'[x].lsn = active_txn'[InvalidTxn]
      BY <3>2, <1>6, <2>3, <2>13, <2>15
    <3>3. \A u : Opens(u)' \cap Recs' = Opens(u)' /\ Ends(u)' \cap Recs' = Ends(u)'
      BY DEF Opens, Ends, By
    <3> QED
      BY <3>1, <3>2, <3>3, <2>13, <1>2, <1>5 DEF ActiveOK
  <2>19. Todo' = N /\ \A u : N \cap Opens(u)' = N \cap Opens(u)
    <3>1. \A x \in Seen : Log'[x].lsn = Log[x].lsn
      BY <2>15
    <3>2. Todo' = N
      BY <3>1, <2>15, <1>1 DEF Todo
    <3> QED
      BY <3>2, <2>15, <2>16
  <2>20. ASSUME NEW u \in Txns, NEW z \in Keys, NEW x PROVE x \in Done(u, z)' <=> x \in DoneBy(N, u, z)
    BY <2>15, <2>16, <2>19 DEF Done, DoneBy
  <2>21. ASSUME NEW u \in Txns, NEW z \in Keys, NEW f \in OnBy(u, z)', NEW m \in OnBy(u, z)',
                u \in DOMAIN active_txn, First(Done(u, z)', f), Last(OnBy(u, z)', m)
         PROVE  Undoes(Log'[m], Log'[f])
    <3>1. f \in DoneBy(N, u, z) /\ \A x \in DoneBy(N, u, z) : f <= x
      BY <2>20, <2>21 DEF First
    <3>2. f \in OnBy(u, z) /\ f \in Seen
      BY <3>1 DEF DoneBy
    <3>3. CASE u = t /\ z = k
      <4>1. m = n
        <5>0. n \in OnBy(u, z)'
          BY <3>3, <2>16
        <5>1. m \in Recs'
          BY <2>21 DEF OnBy, On
        <5>2. n <= m
          BY <5>0, <2>21 DEF Last
        <5>3. \A x \in Recs : x < n /\ x \in Nat
          BY <2>16
        <5>4. m \in Recs \/ m = n
          BY <5>1, <2>16
        <5> QED
          BY <5>2, <5>3, <5>4, <2>16
      <4>2. f = i
        <5>1. i \in DoneBy(N, u, z)
          BY <3>3, <2>3, <1>1
        <5>2. f <= i
          BY <5>1, <3>1
        <5>3. f \in Done(u, z) => i < f
          BY <3>3, <2>3, <1>1
        <5>4. f \in Done(u, z) \/ f = i
          BY <3>1, <1>1, <2>21
        <5>5. f \in Nat
          BY <3>2, <2>15
        <5> QED
          BY <5>2, <5>3, <5>4, <5>5, <1>3
      <4>3. Log'[m] = c /\ Log'[f] = q
        BY <4>1, <4>2, <2>16, <1>3
      <4> QED
        BY <4>3, <2>1, <2>7 DEF Undoes
    <3>4. CASE ~(u = t /\ z = k)
      <4>1. i \notin OnBy(u, z)
        BY <3>4 DEF OnBy, On
      <4>2. \A x : x \in DoneBy(N, u, z) <=> x \in Done(u, z)
        BY <4>1, <1>1
      <4>3. First(Done(u, z), f)
        BY <4>2, <3>1 DEF First
      <4>4. \A x : x \in OnBy(u, z)' <=> x \in OnBy(u, z)
        BY <3>4, <2>16
      <4>5. m \in OnBy(u, z) /\ Last(OnBy(u, z), m)
        BY <4>4, <2>21 DEF Last
      <4>6. Undoes(Log[m], Log[f])
        BY <4>3, <4>5, <3>2, <2>21, <1>8
      <4>7. Log'[m] = Log[m] /\ Log'[f] = Log[f]
        BY <4>5, <3>2, <2>16 DEF OnBy, On
      <4> QED
        BY <4>6, <4>7
    <3> QED
      BY <3>3, <3>4
  <2>22. UndoOK'
    <3>1. undo_list' \subseteq {Log'[x].lsn : x \in Seen'}
      BY <2>15, <1>1
    <3>2. ASSUME NEW u \in Txns, NEW z \in Keys, OnBy(u, z)' # {} PROVE OnBy(u, z)' \cap Seen' # {}
      <4>1. CASE u = t /\ z = k
        BY <4>1, <2>3, <2>15, <2>16, <1>3
      <4>2. CASE ~(u = t /\ z = k)
        <5>0. \A x : x \in OnBy(u, z)' <=> x \in OnBy(u, z)
          BY <4>2, <2>16
        <5>1. OnBy(u, z)' = OnBy(u, z)
          BY <5>0, Zenon
        <5> QED
          BY <5>1, <3>2, <2>15, <1>8
      <4> QED
        BY <4>1, <4>2
    <3>3. \A x \in Todo' : \/ Log'[x].type = "PREPARED"
                           \/ Log'[x].type \in Open /\ Log'[x].txn \in DOMAIN active_txn'
      BY <2>13, <2>15, <2>19, <1>1
    <3>4. \A u \in Txns : \A x, z \in Todo' \cap Opens(u)' : x = z
      BY <2>19, <1>1
    <3>5. \A u \in Txns : \A z \in Keys : \A f, m \in OnBy(u, z)' :
            u \in DOMAIN active_txn' /\ First(Done(u, z)', f) /\ Last(OnBy(u, z)', m)
              => Undoes(Log'[m], Log'[f])
      BY <2>13, <2>21
    <3> QED
      BY <3>1, <3>2, <3>3, <3>4, <3>5 DEF UndoOK
  <2>23. AbortOK'
    BY <1>2 DEF AbortOK
  <2> QED
    BY <2>11, <2>12, <2>14, <2>17, <2>18, <2>22, <2>23 DEF Inv, RecInv
<1> QED
  BY <1>9, <1>10

(***************************************************************************)
(* The end of recovery.                                                    *)
(***************************************************************************)

\* The end of Undo keeps the invariant: everything in active_txn_ is undone.
LEMMA UndoEndKeeps ==
  ASSUME Inv, UndoEnd
  PROVE  Inv'
<1>1. /\ Typed /\ LogInv /\ StateTypes /\ ActiveOK /\ UndoOK /\ phase = "undo" /\ phase' = "abort" /\ undo_list = {}
      /\ UNCHANGED <<disk, tail, next_lsn, kv, txn, owner, offset, inner, lsn_mapping, active_txn, crashes>>
      /\ undo_list' = DOMAIN active_txn /\ StoreOK /\ NextOK
  BY DEF Inv, RecInv, StateTypes, UndoEnd, redoVars, logVars
<1>2. /\ Log' = Log
      /\ \A t : Ends(t)' = Ends(t) /\ Opens(t)' = Opens(t)
      /\ \A t : UndoneBy(t)' <=> UndoneBy(t)
  BY <1>1, KeptSets
<1>3. LogInv' /\ Typed' /\ TxnsOK' /\ OwnersOK'
  BY <1>1, QuietTxns
<1>4. StoreOK' /\ NextOK'
  BY <1>1, KeptStore
<1>5. /\ \A t \in Txns : Opens(t) # {} /\ Ends(t) = {} => t \in DOMAIN active_txn
      /\ \A t \in DOMAIN active_txn \cap Txns :
           Ends(t) = {} /\ \E i \in Opens(t) : Log[i].lsn = active_txn[t]
      /\ InvalidTxn \in DOMAIN active_txn => \E i \in Seen : Log[i].lsn = active_txn[InvalidTxn]
  <2>1. Known = Recs /\ \A t : Opens(t) \cap Recs = Opens(t) /\ Ends(t) \cap Recs = Ends(t)
    BY <1>1 DEF Known, Opens, Ends, By
  <2> QED
    BY <1>1, <2>1 DEF ActiveOK
<1>6. ActiveOK'
  <2>1. ASSUME NEW t \in DOMAIN active_txn PROVE active_txn[t] \in Nat
    <3>1. t \in Txns \cup {InvalidTxn}
      BY <1>1 DEF StateTypes
    <3>2. \E i \in Recs : Log[i].lsn = active_txn[t]
      BY <3>1, <1>5 DEF Opens, By, Seen
    <3> QED
      BY <3>2, <1>1 DEF LogInv, Shaped
  <2> QED
    BY <2>1, <1>1 DEF ActiveOK
<1>7. ASSUME NEW t \in Txns, t \in DOMAIN active_txn PROVE UndoneBy(t)
  <2>1. ASSUME NEW k \in Keys, NEW f \in OnBy(t, k), NEW m \in OnBy(t, k), First(OnBy(t, k), f), Last(OnBy(t, k), m)
        PROVE  Undoes(Log[m], Log[f])
    <3>1. PICK x \in OnBy(t, k) : x \in Seen
      BY <1>1, <2>1 DEF UndoOK
    <3>2. f <= x /\ x <= Read /\ f \in Nat /\ x \in Nat /\ Read \in Nat /\ f \in Recs
      BY <1>1, <2>1, <3>1, WritesAreOpen DEF First, Seen, Read, Typed
    <3>3. f \in Seen
      BY <3>2 DEF Seen
    <3>4. Todo = {}
      BY <1>1 DEF Todo
    <3>5. Done(t, k) = OnBy(t, k) \cap Seen
      BY <3>4 DEF Done
    <3>6. First(Done(t, k), f)
      BY <2>1, <3>3, <3>5 DEF First
    <3> QED
      BY <1>1, <1>7, <2>1, <3>6 DEF UndoOK
  <2> QED
    BY <2>1 DEF UndoneBy
<1>8. AbortOK'
  BY <1>1, <1>2, <1>5, <1>7 DEF AbortOK
<1>9. RedoOK' /\ MappingOK' /\ UndoOK'
  BY <1>1 DEF RedoOK, MappingOK, UndoOK
<1>10. StateTypes'
  BY <1>1, <1>3 DEF StateTypes
<1> QED
  BY <1>3, <1>4, <1>6, <1>8, <1>9, <1>10 DEF Inv, RecInv

\* An ABORT record of recovery keeps the invariant.
LEMMA WriteAbortKeeps ==
  ASSUME Inv, WriteAbort
  PROVE  Inv'
<1>1. PICK t \in undo_list : Append_(t, active_txn[t], "ABORT", NoKey, Absent) /\ undo_list' = undo_list \ {t}
  BY DEF WriteAbort
<1> SUFFICES ASSUME NEW c, c = Record(next_lsn, t, active_txn[t], "ABORT", NoKey, Absent), NEW n, n = Len(Log) + 1
             PROVE  Inv'
  OBVIOUS
<1>2. /\ Typed /\ LogInv /\ StateTypes /\ ActiveOK /\ AbortOK /\ phase = "abort" /\ phase' = "abort"
      /\ UNCHANGED <<kv, txn, owner, offset, inner, lsn_mapping, active_txn, crashes>>
      /\ next_lsn \in Nat /\ StoreOK /\ NextOK /\ undo_list \subseteq DOMAIN active_txn
      /\ DOMAIN active_txn \subseteq Txns \cup {InvalidTxn}
  BY DEF Inv, RecInv, StateTypes, WriteAbort, redoVars
<1>3. t \in Txns \cup {InvalidTxn} /\ active_txn[t] \in Nat /\ InvalidTxn \notin Txns /\ NoKey \notin Keys
  BY <1>2, RecoveryAssumption DEF ActiveOK
<1>4. t \in Txns => UndoneBy(t) /\ Ends(t) = {} /\ By(t) # {}
  BY <1>2 DEF AbortOK, Opens
<1>5. /\ c.lsn = next_lsn /\ c.txn = t /\ c.type = "ABORT" /\ c.key = NoKey
      /\ c.type \in Written /\ c.type \notin Open /\ c.type \in Ending
      /\ c.type \notin {"INSERT", "DELETE", "PREPARED", "COMMIT"}
  BY DEF Record, Written, Open, Ending
<1>6. Typed' /\ Grown(c) /\ next_lsn' = next_lsn + 1
  <2>1. c \in LogRecord
    BY <1>2, <1>3 DEF Record, LogRecord, Types
  <2>2. tail' = tail \o Cells(c) /\ disk' = disk /\ next_lsn' = next_lsn + 1
    BY <1>1 DEF Append_
  <2> QED
    BY <2>1, <2>2, <1>2, <1>5, Growing
<1>7. Fits(c)
  <2>1. /\ \A i \in Recs : Log[i].lsn < next_lsn
        /\ \A l \in 0..(next_lsn - 1) : \E i \in Recs : Log[i].lsn = l
    BY <1>2, NextFits
  <2> QED
    BY <2>1, <1>2, <1>3, <1>4, <1>5 DEF Fits
<1>8. LogInv' /\ NextOK' /\ TxnsOK' /\ OwnersOK'
  BY <1>2, <1>4, <1>5, <1>6, <1>7, RecoveryGrows
<1>9. StoreOK'
  <2>1. \A u \in Txns : txn[u].at = "ended" => txn'[u].at = "ended" /\ (c.txn = u => c.type # "COMMIT")
    BY <1>2, <1>5
  <2> QED
    BY <2>1, <1>2, <1>3, <1>5, <1>6, QuietStore
<1>10. AbortOK'
  <2>0. /\ \A u, x : x \in Ends(u)' <=> x \in Ends(u) \/ (x = n /\ u = t)
        /\ \A u, x : x \in Opens(u)' <=> x \in Opens(u)
        /\ \A k \in Keys : \A u, x : x \in OnBy(u, k)' <=> x \in OnBy(u, k)
        /\ \A x \in Recs : Log'[x] = Log[x]
    BY <1>2, <1>3, <1>5, <1>6, GrownSets
  <2>1. ASSUME NEW u \in Txns, u # t PROVE Ends(u)' = Ends(u) /\ Opens(u)' = Opens(u) /\ (UndoneBy(u) => UndoneBy(u)')
    <3>1. \A x : (x \in Ends(u)' <=> x \in Ends(u)) /\ (x \in Opens(u)' <=> x \in Opens(u))
      BY <2>0, <2>1
    <3>2. ASSUME NEW k \in Keys PROVE OnBy(u, k)' = OnBy(u, k)
      <4>1. \A x : x \in OnBy(u, k)' <=> x \in OnBy(u, k)
        BY <2>0
      <4> QED
        BY <4>1, Zenon
    <3>3. \A k : \A x \in OnBy(u, k) : Log'[x] = Log[x]
      BY <2>0 DEF OnBy, On
    <3>4. UndoneBy(u) => UndoneBy(u)'
      BY <3>2, <3>3 DEF UndoneBy
    <3> QED
      BY <3>1, <3>4, Zenon
  <2>2. ASSUME NEW u \in Txns, u \in undo_list' PROVE UndoneBy(u)' /\ Ends(u)' = {} /\ Opens(u)' # {}
    <3>1. u # t /\ u \in undo_list
      BY <2>2, <1>1
    <3> QED
      BY <3>1, <2>1, <1>2 DEF AbortOK
  <2>3. ASSUME NEW u \in Txns, Opens(u)' # {}, Ends(u)' = {} PROVE u \in undo_list'
    <3>1. u # t
      BY <2>0, <2>3
    <3> QED
      BY <3>1, <2>1, <2>3, <1>1, <1>2 DEF AbortOK
  <2> QED
    BY <2>2, <2>3 DEF AbortOK
<1>11. ActiveOK' /\ RedoOK' /\ MappingOK' /\ UndoOK'
  BY <1>2 DEF ActiveOK, RedoOK, MappingOK, UndoOK
<1>12. StateTypes'
  BY <1>1, <1>2, <1>6 DEF StateTypes
<1> QED
  BY <1>8, <1>9, <1>10, <1>11, <1>12 DEF Inv, RecInv

\* The end of recovery keeps the invariant: every transaction has ended.
LEMMA RecoveryEndKeeps ==
  ASSUME Inv, RecoveryEnd
  PROVE  Inv'
<1>1. /\ Typed /\ LogInv /\ StateTypes /\ AbortOK /\ phase = "abort" /\ phase' = "normal" /\ undo_list = {}
      /\ UNCHANGED <<disk, tail, next_lsn, kv, txn, owner, undo_list, crashes>> /\ StoreOK /\ NextOK
      /\ offset' = 0 /\ inner' = 0 /\ lsn_mapping' = None /\ active_txn' = None
  BY DEF Inv, RecInv, StateTypes, RecoveryEnd, logVars
<1>2. LogInv' /\ Typed' /\ TxnsOK'
  BY <1>1, QuietTxns
<1>3. StoreOK' /\ NextOK'
  BY <1>1, KeptStore
<1>4. OwnersOK'
  <2>0. \A t : Ends(t)' = Ends(t) /\ \A k : OnBy(t, k)' = OnBy(t, k)
    BY <1>1, KeptSets
  <2>1. \A k \in Keys : owner'[k] = InvalidTxn
    BY <1>1, NobodyRuns
  <2>2. ASSUME NEW t \in Txns, NEW k \in Keys, OnBy(t, k) # {}, Ends(t) = {} PROVE FALSE
    <3>1. Opens(t) # {}
      BY <1>1, <2>2, WritesAreOpen
    <3> QED
      BY <1>1, <2>2, <3>1 DEF AbortOK
  <2> QED
    BY <2>0, <2>1, <2>2 DEF OwnersOK
<1>5. ActiveOK' /\ RedoOK' /\ MappingOK' /\ UndoOK' /\ AbortOK'
  BY <1>1 DEF ActiveOK, RedoOK, MappingOK, UndoOK, AbortOK
<1>6. StateTypes'
  BY <1>1, <1>2, RecoveryAssumption DEF StateTypes, None
<1> QED
  BY <1>2, <1>3, <1>4, <1>5, <1>6 DEF Inv, RecInv

(***************************************************************************)
(* The invariant.                                                          *)
(***************************************************************************)

\* The invariant holds at first.
LEMMA InvInit == Init => Inv
<1> SUFFICES ASSUME Init PROVE Inv
  OBVIOUS
<1>1. /\ disk = <<>> /\ tail = <<>> /\ next_lsn = 0 /\ kv = EmptyStore /\ txn = [t \in Txns |-> NewTxn]
      /\ owner = [k \in Keys |-> InvalidTxn] /\ phase = "normal" /\ offset = 0 /\ inner = 0 /\ lsn_mapping = None
      /\ active_txn = None /\ undo_list = {} /\ crashes = 0
  BY DEF Init
<1>2. Typed /\ Log = <<>> /\ Recs = {}
  BY <1>1 DEF Typed, Log, Recs, Records
<1>3. StateTypes
  BY <1>1, <1>2, RecoveryAssumption DEF StateTypes, EmptyStore, NewTxn, None
<1>4. \A t : By(t) = {} /\ Ends(t) = {} /\ Opens(t) = {}
  BY <1>2 DEF By, Ends, Opens
<1>5. \A k : On(k) = {} /\ \A t : OnBy(t, k) = {}
  BY <1>2 DEF On, OnBy
<1>6. LogInv
  <2>1. 1..Len(Log) = {}
    BY <1>2
  <2> QED
    BY <1>2, <1>4, <1>5, <2>1 DEF LogInv, Shaped, Numbered, Chained, Closed, Blocks, Aborted, Deletes
<1>7. TxnsOK /\ OwnersOK
  BY <1>1, <1>4, <1>5 DEF TxnsOK, TxnOK, OwnersOK, NewTxn
<1>8. NextOK /\ StoreOK
  <2>1. 0..(next_lsn - 1) = {}
    BY <1>1
  <2>2. \A k \in Keys : kv[k] = Absent
    BY <1>1 DEF EmptyStore
  <2> QED
    BY <1>1, <1>2, <1>5, <2>1, <2>2 DEF NextOK, StoreOK, StoreAt, After
<1>9. RedoOK /\ MappingOK /\ ActiveOK /\ UndoOK /\ AbortOK
  BY <1>1 DEF RedoOK, MappingOK, ActiveOK, UndoOK, AbortOK
<1> QED
  BY <1>3, <1>6, <1>7, <1>8, <1>9 DEF Inv, RecInv

\* A step that changes nothing keeps the invariant.
LEMMA InvStutters ==
  ASSUME Inv, UNCHANGED vars
  PROVE  Inv'
<1>1. /\ UNCHANGED <<disk, tail, next_lsn, kv, txn, owner, phase, offset, inner, lsn_mapping, active_txn, undo_list, crashes>>
  BY DEF vars, logVars, recoveryVars, redoVars
<1>2. /\ Log' = Log /\ Recs' = Recs /\ (Typed => Typed')
      /\ \A t : By(t)' = By(t) /\ Ends(t)' = Ends(t) /\ Opens(t)' = Opens(t)
      /\ \A k : On(k)' = On(k)
      /\ \A t, k : OnBy(t, k)' = OnBy(t, k)
      /\ \A t : UndoneBy(t)' <=> UndoneBy(t)
  BY <1>1, KeptSets
<1>3. Seen' = Seen /\ Known' = Known /\ Todo' = Todo /\ Read' = Read
  <2>1. Read' = Read
    BY <1>1 DEF Read
  <2>2. Seen' = Seen
    BY <1>2, <2>1, Zenon DEF Seen
  <2> QED
    BY <1>1, <1>2, <2>1, <2>2, Zenon DEF Known, Todo
<1>4. \A t, k : Done(t, k)' = Done(t, k)
  BY <1>2, <1>3, Zenon DEF Done
<1>5. LogInv' /\ StateTypes'
  BY <1>1, <1>2, KeptLog DEF Inv, RecInv, StateTypes
<1>6. TxnsOK' /\ OwnersOK' /\ NextOK'
  BY <1>1, <1>2, Zenon DEF Inv, RecInv, TxnsOK, TxnOK, OwnersOK, NextOK
<1>7. StoreOK'
  <2>1. \A S, x : After(S, x)' <=> After(S, x)
    BY <1>2, Zenon DEF After
  <2>2. \A t : Lost(t)' <=> Lost(t)
    BY <1>1, <1>2, Zenon DEF Lost
  <2>3. \A k : StoreAt(k)' <=> StoreAt(k)
    BY <1>1, <1>2, <2>1, <2>2, Zenon DEF StoreAt
  <2>4. \A k : After(On(k) \cap Seen, kv[k])' <=> After(On(k) \cap Seen, kv[k])
    BY <1>1, <1>2, <1>3, <2>1, Zenon
  <2> QED
    BY <1>1, <2>3, <2>4 DEF Inv, RecInv, StoreOK
<1>8. RedoOK' /\ MappingOK'
  BY <1>1, <1>2, <1>3, Zenon DEF Inv, RecInv, RedoOK, MappingOK
<1>9. ActiveOK'
  BY <1>1, <1>2, <1>3, Zenon DEF Inv, RecInv, ActiveOK
<1>10. UndoOK' /\ AbortOK'
  BY <1>1, <1>2, <1>3, <1>4, Zenon DEF Inv, RecInv, UndoOK, AbortOK
<1> QED
  BY <1>5, <1>6, <1>7, <1>8, <1>9, <1>10 DEF Inv, RecInv

\* Every step keeps the invariant.
LEMMA InvSteps == Inv /\ [Next]_vars => Inv'
<1> SUFFICES ASSUME Inv, [Next]_vars PROVE Inv'
  OBVIOUS
<1>1. CASE UNCHANGED vars
  BY <1>1, InvStutters
<1>2. ASSUME NEW t \in Txns, TxnStep(t) PROVE Inv'
  <2>1. CASE Begin(t)
    BY <2>1, BeginKeeps
  <2>2. CASE \E k \in Keys : del(t, k) \/ \E v \in Values : put(t, k, v)
    BY <2>2, DelKeeps, PutKeeps
  <2>3. CASE PrepareCommit(t)
    BY <2>3, PrepareKeeps
  <2>4. CASE CommitSingle(t)
    BY <2>4, CommitKeeps
  <2> QED
    BY <1>2, <2>1, <2>2, <2>3, <2>4 DEF TxnStep
<1>3. CASE Crash
  BY <1>3, CrashKeeps
<1>4. CASE ARIES
  BY <1>4, RedoRecordKeeps, NextChunkKeeps, RedoEndKeeps, UndoStepKeeps, UndoEndKeeps, WriteAbortKeeps, RecoveryEndKeeps
     DEF ARIES
<1> QED
  BY <1>1, <1>2, <1>3, <1>4 DEF Next

\* The inductive invariant holds: the log is shaped, numbered, chained and
\* closed over any number of stops, and the store, the tables of recovery and
\* the list of records to undo agree with it (recovery_manager.cpp).
THEOREM InvAlways == Spec => []Inv
<1>1. Init => Inv
  BY InvInit
<1>2. Inv /\ [Next]_vars => Inv'
  BY InvSteps
<1> QED
  BY <1>1, <1>2, PTL DEF Spec

\* Every variable has its type, and Undo looks up only records that Redo read
\* (RecoveryManager::Undo, lsn_mapping_[lsn]).
THEOREM TypeCorrect == Spec => []TypeOK
<1>1. ASSUME Inv PROVE TypeOK
  <2>1. phase = "undo" => undo_list \subseteq DOMAIN lsn_mapping
    BY <1>1 DEF Inv, RecInv, UndoOK, MappingOK
  <2> QED
    BY <1>1, <2>1 DEF Inv, StateTypes, Typed, TypeOK
<1> QED
  BY <1>1, InvAlways, PTL

\* Whatever stops before, during and after recovery, records are numbered
\* consecutively, recovery's own included (LogManager::SetNextLsn after Redo).
THEOREM LsnsStayConsecutive == Spec => []LsnsConsecutive
<1>1. ASSUME Inv PROVE LsnsConsecutive
  <2>0. Typed /\ LogInv
    BY <1>1 DEF Inv, RecInv, StateTypes
  <2>1. ASSUME NEW i \in Recs, NEW S, S = {j \in Recs : j < i} PROVE Log[i].lsn = Cardinality(S)
    <3>1. i \in Nat /\ i <= Len(Log) /\ Len(Log) \in Nat /\ Log[i].lsn \in Nat
      BY <2>0, RecsAre DEF LogInv, Shaped
    <3>2. \A j : j \in S <=> j \in Recs /\ j < i
      BY <2>1
    <3>3. IsFiniteSet(S)
      <4>1. S \subseteq 1..Len(Log)
        BY <2>0, <2>1, RecsAre
      <4>2. IsFiniteSet(1..Len(Log))
        BY <3>1, FS_Interval
      <4> QED
        BY <4>1, <4>2, FS_Subset
    <3> DEFINE T == 0..(Log[i].lsn - 1)
               f == [j \in S |-> Log[j].lsn]
    <3>4. ASSUME NEW j \in S PROVE Log[j].lsn \in T
      <4>1. j \in Recs /\ j < i
        BY <3>2
      <4>2. Log[j].lsn < Log[i].lsn /\ Log[j].lsn \in Nat
        BY <4>1, <2>0 DEF LogInv, Numbered, Shaped
      <4> QED
        BY <4>2, <3>1
    <3>5. ASSUME NEW j \in S, NEW m \in S, Log[j].lsn = Log[m].lsn PROVE j = m
      BY <2>0, <3>2, <3>5, LsnUnique
    <3>6. ASSUME NEW l \in T PROVE \E j \in S : Log[j].lsn = l
      <4>1. l \in 0..Log[i].lsn /\ l < Log[i].lsn
        BY <3>1
      <4>2. PICK j \in Recs : Log[j].lsn = l
        BY <4>1, <2>0 DEF LogInv, Numbered
      <4>3. j \in Nat /\ j # i
        BY <4>1, <4>2, <3>1, <2>0, RecsAre
      <4>4. ~(i < j)
        <5>1. i < j => Log[i].lsn < Log[j].lsn
          BY <2>0 DEF LogInv, Numbered
        <5> QED
          BY <4>1, <4>2, <5>1, <3>1
      <4>5. j < i
        BY <4>3, <4>4, <3>1
      <4> QED
        BY <4>2, <4>5, <3>2
    <3>7. f \in Bijection(S, T)
      <4>1. f \in [S -> T]
        BY <3>4
      <4>2. f \in Injection(S, T)
        BY <4>1, <3>5 DEF Injection, IsInjective
      <4>3. f \in Surjection(S, T)
        BY <4>1, <3>6 DEF Surjection
      <4> QED
        BY <4>2, <4>3 DEF Bijection
    <3>8. Cardinality(T) = Cardinality(S)
      <4>1. ExistsBijection(S, T)
        BY <3>7 DEF ExistsBijection
      <4> QED
        BY <3>3, <4>1, FS_Bijection, Zenon
    <3>9. Cardinality(T) = Log[i].lsn
      <4>1. 0 \in Int /\ Log[i].lsn - 1 \in Int
        BY <3>1
      <4>2. Cardinality(T) = IF 0 > Log[i].lsn - 1 THEN 0 ELSE (Log[i].lsn - 1) - 0 + 1
        BY <4>1, FS_Interval, Zenon
      <4> QED
        BY <4>2, <3>1
    <3> QED
      BY <3>8, <3>9
  <2> QED
    BY <2>1 DEF LsnsConsecutive, Recs
<1> QED
  BY <1>1, InvAlways, PTL

\* The committed value, by places and as the property states it.
LEMMA CommittedIs ==
  ASSUME Typed, LogInv, NEW k \in Keys, NEW n \in Nat, n <= Len(Log), NEW log \in Seq(LogRecord), Len(log) = n,
         \A i \in 1..n : log[i] = Log[i]
  PROVE  Winners(log) = WinTo(n) /\ Committed(log, k) = ComTo(n, k)
<1>0. DOMAIN log = 1..n
  OBVIOUS
<1>1. \A i \in 1..n : Log[i].type = "COMMIT" \/ Log[i].key = k => i \in Recs
  <2>1. Body.type # "COMMIT" /\ Body.key # k
    BY RecoveryAssumption DEF Body, Record
  <2>2. \A i \in 1..n : i \in 1..Len(Log)
    BY RecsAre
  <2> QED
    BY <2>1, <2>2 DEF Recs, Records
<1>2. \A i \in Recs : i <= n <=> i \in 1..n
  BY RecsAre
<1>3. Winners(log) = WinTo(n)
  BY <1>0, <1>1, <1>2 DEF Winners, WinTo
<1> DEFINE W == {i \in DOMAIN log : log[i].txn \in Winners(log) /\ log[i].key = k}
<1>4. W = WonTo(n, k)
  <2>1. ASSUME NEW i PROVE i \in W <=> i \in WonTo(n, k)
    BY <1>0, <1>1, <1>2, <1>3 DEF WonTo, On
  <2> QED
    BY <2>1, Zenon
<1>5. Committed(log, k) = IF W = {} \/ log[Max(W)].type = "DELETE" THEN Absent ELSE log[Max(W)].value
  BY DEF Committed
<1>6. W # {} => Max(W) \in 1..n
  <2>1. ASSUME W # {} PROVE Max(W) \in 1..n
    <3>1. W \in SUBSET Nat /\ \A i \in W : i <= n
      BY <1>0
    <3>2. PICK m : Last(W, m)
      BY <2>1, <3>1, HasLast
    <3>3. Max(W) = m
      <4>1. W \in SUBSET Int
        BY <3>1
      <4> QED
        BY <4>1, <3>2, MaxIsLast
    <3> QED
      BY <3>2, <3>3, <1>0 DEF Last
  <2> QED
    BY <2>1
<1>7. Committed(log, k) = ComTo(n, k)
  <2>1. CASE W = {}
    BY <2>1, <1>4, <1>5 DEF ComTo
  <2>2. CASE W # {}
    <3>1. log[Max(W)] = Log[Max(W)]
      BY <2>2, <1>6
    <3> HIDE DEF W
    <3> QED
      BY <3>1, <1>4, <1>5, Zenon DEF ComTo
  <2> QED
    BY <2>1, <2>2
<1> QED
  BY <1>3, <1>7

\* In operation, however often the process stopped before and during recovery,
\* a key nobody is writing has what the committed transactions left, unless a
\* loser overwrote a committed value or deleted the key, or the key is in doubt:
\* what RedoLog and UndoLog do with the records of recovery_manager.cpp.
THEOREM CommittedStateRecovered == Spec => []RecoveredState
<1>1. ASSUME Inv PROVE RecoveredState
  <2> SUFFICES ASSUME phase = "normal", NEW k \in Keys, owner[k] = InvalidTxn, ~LoserOverwrote(k)
               PROVE  \/ kv[k] = Committed(Log, k)
                      \/ LoserDeleted(k) /\ kv[k] = KeyText /\ Committed(Log, k) # Absent
    BY DEF RecoveredState
  <2>0. Typed /\ LogInv /\ Log \in Seq(LogRecord) /\ Len(Log) \in Nat /\ Recs \in SUBSET (1..Len(Log))
    BY <1>1, RecsAre DEF Inv, RecInv, StateTypes
  <2>1. Winners(Log) = WinTo(Len(Log)) /\ Committed(Log, k) = ComTo(Len(Log), k)
    <3>1. \A i \in 1..Len(Log) : Log[i] = Log[i]
      OBVIOUS
    <3>2. Len(Log) <= Len(Log)
      BY <2>0
    <3> QED
      BY <2>0, <3>1, <3>2, CommittedIs
  <2>2. DOMAIN Log = 1..Len(Log) /\ On(k) \subseteq DOMAIN Log /\ \A i \in On(k) : Log[i].key = k
    <3>1. DOMAIN Log = 1..Len(Log)
      BY <2>0
    <3> QED
      BY <2>0, <3>1 DEF On
  <2>3. ASSUME OverTo(Len(Log), k) PROVE FALSE
    <3>1. PICK i \in On(k) :
            /\ i <= Len(Log) /\ Log[i].txn \notin WinTo(Len(Log)) /\ Log[i].type = "INSERT"
            /\ ComTo(i - 1, k) # Absent
            /\ ~ \E j \in OnBy(Log[i].txn, k) : j < i /\ Log[j].type = "DELETE"
      BY <2>3 DEF OverTo
    <3>2. i \in 1..Len(Log) /\ i - 1 \in Nat /\ i - 1 <= Len(Log)
      BY <2>0, <2>2
    <3> DEFINE log == SubSeq(Log, 1, i - 1)
    <3>3. log \in Seq(LogRecord) /\ Len(log) = i - 1 /\ \A j \in 1..(i - 1) : log[j] = Log[j]
      BY <2>0, <3>2
    <3> HIDE DEF log
    <3>4. Committed(log, k) = ComTo(i - 1, k)
      BY <2>0, <3>2, <3>3, CommittedIs
    <3>5. ASSUME NEW j \in 1..(i - 1), Log[j].txn = Log[i].txn, Log[j].key = k, Log[j].type = "DELETE" PROVE FALSE
      <4>1. j \in 1..Len(Log) /\ j < i
        BY <2>0, <3>2
      <4>2. Log[j] # Body
        BY <3>5, BodyIsNoRecord
      <4>3. j \in OnBy(Log[i].txn, k)
        BY <4>1, <4>2, <3>5 DEF OnBy, On, Recs, Records
      <4> QED
        BY <4>1, <4>3, <3>1, <3>5
    <3>6. LoserOverwrote(k)
      BY <2>1, <2>2, <3>1, <3>4, <3>5 DEF LoserOverwrote, log
    <3> QED
      BY <3>6
  <2>4. \/ kv[k] = ComTo(Len(Log), k)
        \/ /\ kv[k] = KeyText /\ ComTo(Len(Log), k) # Absent
           /\ \E i \in On(k) : Log[i].txn \notin WinTo(Len(Log)) /\ Log[i].type = "DELETE"
    BY <1>1, <2>3, KeyRecovered DEF Inv, RecInv
  <2>5. ASSUME NEW i \in On(k), Log[i].txn \notin WinTo(Len(Log)), Log[i].type = "DELETE" PROVE LoserDeleted(k)
    BY <2>1, <2>2, <2>5 DEF LoserDeleted
  <2> QED
    BY <2>1, <2>4, <2>5
<1> QED
  BY <1>1, InvAlways, PTL
=============================================================================
