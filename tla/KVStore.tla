------------------------------ MODULE KVStore ------------------------------
(***************************************************************************)
(* The LSM store: KVStore_beta (src/src/storage/KVStore_beta.cpp) with its *)
(* memtable, the transactional KVStore over it (KVStore_new.h), and        *)
(* DiskStorage and LevelZero, which keep the tables on disk.  put moves a  *)
(* full memtable into a new table while it holds mutex_; get and del look  *)
(* into the tables after they gave mutex_ back.  What a table answers is   *)
(* the content of the memtable it was built from: that is module SSTable.  *)
(* The process may be closed, or stop between any two writes to disk.      *)
(*                                                                         *)
(* Callers hold the row lock of the key: no two calls on a key overlap     *)
(* unless both are gets.                                                   *)
(***************************************************************************)
EXTENDS Naturals, Sequences, FiniteSets, FiniteSetsExt, Functions

CONSTANTS Threads,     \* callers
          Keys,
          Values,      \* values other than the empty string
          TableSpace,  \* Option::SSTABLE_SPACE
          MaxNo        \* bound: numbers of tables, and tables listed

Empty  == "empty"    \* the value ""
Absent == "absent"   \* the key is not there
Unknown == "unknown" \* of the history: a stop may have undone the last call
Unreadable == "partial" \* of a file that is still being written, or was never finished

ASSUME KVAssumption ==
  /\ Keys # {} /\ "none" \notin Keys
  /\ Values \cap {Empty, Absent, Unknown, Unreadable} = {}
  /\ TableSpace \in Nat /\ MaxNo \in Nat \ {0}

Numbers == 0..MaxNo
Contents == [Keys -> Values \cup {Empty, Absent}]
NoContents == [k \in Keys |-> Absent]
Partial == [k \in Keys |-> Unreadable]

VARIABLES
  memtable,   \* KVStore_beta::memtable_
  ssts,       \* LevelZero::ssts_, numbers of the tables
  no,         \* DiskStorage::no_
  file,       \* the .sst files
  index,      \* the file level_0/index
  meta,       \* the file meta
  up,         \* the process has the store open
  adder,      \* the call that is moving the memtable to disk, and how far it is
  pending,    \* the get or del of a thread that has given mutex_ back
  reply,      \* history: what the last step answered to a get
  latest,     \* history: the last value put, per key
  rewritten,  \* history: keys put or deleted again since they were put, and keys
              \* whose table was overwritten
  unsaved     \* history: numbers that a stop kept from being counted in meta

disk == <<file, index, meta>>
vars == <<memtable, ssts, no, file, index, meta, up, adder, pending, reply, latest, rewritten, unsaved>>

NoAdd == [call |-> "none", stage |-> "none"]
NoCall == [op |-> "none", key |-> "none"]
NoReply == [key |-> "none", value |-> Absent, torn |-> FALSE]

Init ==
  /\ memtable = NoContents
  /\ ssts = <<>> /\ no = 0
  /\ file = [n \in Numbers |-> NoContents]
  /\ index = <<>> /\ meta = 0
  /\ up = TRUE
  /\ adder = NoAdd
  /\ pending = [th \in Threads |-> NoCall]
  /\ reply = NoReply
  /\ latest = [k \in Keys |-> Absent]
  /\ rewritten = {}
  /\ unsaved = {}

-----------------------------------------------------------------------------
(* The memtable, a SkipList *)

contains(k) == memtable[k] # Absent

\* num_bytes_: every key is one byte, and so is every value that is not empty.
space(table) ==
  Cardinality({k \in Keys : table[k] # Absent})
    + Cardinality({k \in Keys : table[k] \in Values})

empty == memtable = NoContents

-----------------------------------------------------------------------------
(* The tables *)

\* Mutated: looks into the last table only.
search_LastOnly(k) == IF ssts = <<>> THEN Absent ELSE file[ssts[Len(ssts)]][k]

\* LevelZero::search goes through the tables from the first to the last and
\* answers with the first that has the key, a tombstone included.  What an
\* unfinished file says of a key is Unreadable.
search(k) ==
  LET hits == {i \in DOMAIN ssts : file[ssts[i]][k] # Absent}
  IN  IF hits = {} THEN Absent ELSE file[ssts[Min(hits)]][k]

\* The blocks of an unfinished file are whatever was in memory: the search may
\* answer anything.
Anything == Values \cup {Empty, Absent}
Searched(k) == IF search(k) = Unreadable THEN Anything ELSE {search(k)}

\* What get makes of a raw answer: an empty value is no value.
Answer(raw) == IF raw \in Values THEN raw ELSE Absent

-----------------------------------------------------------------------------
(* Calls *)

\* mutex_ is free: the store is open and nobody is moving the memtable.
Free == up /\ adder = NoAdd

Idle(th) == pending[th] = NoCall

\* Of the bound: n more tables may be added.
Room(n) == no + n <= MaxNo /\ Len(ssts) + n <= MaxNo

\* The row locks of the callers.
MayRead(th, k) ==
  \A o \in Threads \ {th} : pending[o].key = k => pending[o].op = "get"
MayWrite(th, k) == \A o \in Threads \ {th} : pending[o].key # k

Wrote(k, v) ==
  /\ rewritten' = IF latest[k] = Absent THEN rewritten ELSE rewritten \cup {k}
  /\ latest' = [latest EXCEPT ![k] = v]

put(th, k, v) ==
  /\ Free /\ Idle(th) /\ MayWrite(th, k)
  /\ memtable' = [memtable EXCEPT ![k] = v]
  /\ \/ /\ space(memtable') <= TableSpace
        /\ UNCHANGED adder
     \/ /\ space(memtable') > TableSpace
        /\ Room(1)
        /\ adder' = [call |-> "put", stage |-> "open"]
  /\ Wrote(k, v)
  /\ reply' = NoReply
  /\ UNCHANGED <<disk, ssts, no, up, pending, unsaved>>

\* get answers from the memtable or gives mutex_ back and goes to the tables.
get(th, k) ==
  /\ Free /\ Idle(th) /\ MayRead(th, k)
  /\ \/ /\ contains(k)
        /\ reply' = [key |-> k, value |-> Answer(memtable[k]), torn |-> FALSE]
        /\ UNCHANGED pending
     \/ /\ ~contains(k)
        /\ pending' = [pending EXCEPT ![th] = [op |-> "get", key |-> k]]
        /\ reply' = NoReply
  /\ UNCHANGED <<disk, memtable, ssts, no, up, adder, latest, rewritten, unsaved>>

\* raw is what the search answered.  When a table was appended to ssts_ in
\* the middle of it, the vector moved under the iteration.
SearchResult(th) ==
  IF pending[th].op \in {"torn get", "torn del"}
  THEN Anything ELSE Searched(pending[th].key)

GetReturn(th) ==
  /\ up /\ pending[th].op \in {"get", "torn get"}
  /\ \E raw \in SearchResult(th) :
       reply' = [key |-> pending[th].key, value |-> Answer(raw),
                 torn |-> pending[th].op = "torn get" \/ search(pending[th].key) = Unreadable]
  /\ pending' = [pending EXCEPT ![th] = NoCall]
  /\ UNCHANGED <<disk, memtable, ssts, no, up, adder, latest, rewritten, unsaved>>

\* KVStore_beta::del: from the memtable the entry itself is taken away.
del(th, k) ==
  /\ Free /\ Idle(th) /\ MayWrite(th, k)
  /\ \/ /\ contains(k)
        /\ memtable' = [memtable EXCEPT ![k] = Absent]
        /\ Wrote(k, Empty)
        /\ UNCHANGED pending
     \/ /\ ~contains(k)
        /\ pending' = [pending EXCEPT ![th] = [op |-> "del", key |-> k]]
        /\ UNCHANGED <<memtable, latest, rewritten>>
  /\ reply' = NoReply
  /\ UNCHANGED <<disk, ssts, no, up, adder, unsaved>>

\* The search of del ended: a value found is hidden by an empty one, for which
\* mutex_ is taken again; otherwise del answers false.
DelReturn(th) ==
  /\ up /\ pending[th].op \in {"del", "torn del"}
  /\ \E raw \in SearchResult(th) :
       \/ /\ raw \in Values /\ Free
          /\ memtable' = [memtable EXCEPT ![pending[th].key] = Empty]
          /\ Wrote(pending[th].key, Empty)
       \/ /\ raw \notin Values
          /\ UNCHANGED <<memtable, latest, rewritten>>
  /\ pending' = [pending EXCEPT ![th] = NoCall]
  /\ reply' = NoReply
  /\ UNCHANGED <<disk, ssts, no, up, adder, unsaved>>

\* KVStore::del with a transaction keeps mutex_ during the search.
delTxn(th, k) ==
  /\ Free /\ Idle(th) /\ MayWrite(th, k)
  /\ \/ contains(k) /\ memtable' = [memtable EXCEPT ![k] = Absent]
     \/ /\ ~contains(k) /\ Searched(k) \cap Values # {}
        /\ memtable' = [memtable EXCEPT ![k] = Empty]
  /\ Wrote(k, Empty)
  /\ reply' = NoReply
  /\ UNCHANGED <<disk, ssts, no, up, adder, pending, unsaved>>

\* reset and flush take no mutex: they are called while nobody else calls.
Alone == Free /\ \A th \in Threads : Idle(th)

reset ==
  /\ Alone
  /\ memtable' = NoContents
  /\ latest' = [k \in Keys |-> Absent]
  /\ rewritten' = rewritten \cup {k \in Keys : latest[k] # Absent}
  /\ reply' = NoReply
  /\ UNCHANGED <<disk, ssts, no, up, adder, pending, unsaved>>

flush ==
  /\ Alone /\ ~empty /\ Room(1)
  /\ adder' = [call |-> "flush", stage |-> "open"]
  /\ reply' = NoReply
  /\ UNCHANGED <<disk, memtable, ssts, no, up, pending, latest, rewritten, unsaved>>

-----------------------------------------------------------------------------
(* DiskStorage::add, step by step *)

\* Mutated: the index is saved before the table is written.
OpenTable_IndexFirst ==
  /\ up /\ adder.stage = "open"
  /\ ssts' = Append(ssts, no)
  /\ index' = Append(ssts, no)
  /\ file' = [file EXCEPT ![no] = Partial]
  /\ adder' = [adder EXCEPT !.stage = "build"]
  /\ reply' = NoReply
  /\ UNCHANGED <<memtable, no, meta, up, pending, latest, rewritten, unsaved>>

\* The keys of a table that is listed under the number of the new one.
Overwritten ==
  {k \in Keys : (\E i \in DOMAIN ssts : ssts[i] = no) /\ file[no][k] \notin {Absent, Unreadable}}

\* The number is listed and the file is opened, which empties it.
OpenTable ==
  /\ up /\ adder.stage = "open"
  /\ ssts' = Append(ssts, no)
  /\ file' = [file EXCEPT ![no] = Partial]
  /\ pending' = [th \in Threads |->
       CASE pending[th].op = "get" -> [pending[th] EXCEPT !.op = "torn get"]
         [] pending[th].op = "del" -> [pending[th] EXCEPT !.op = "torn del"]
         [] OTHER -> pending[th]]
  /\ adder' = [adder EXCEPT !.stage = "build"]
  /\ rewritten' = rewritten \cup Overwritten
  /\ reply' = NoReply
  /\ UNCHANGED <<memtable, no, index, meta, up, latest, unsaved>>

create_sstable ==
  /\ up /\ adder.stage = "build"
  /\ file' = [file EXCEPT ![no] = memtable]
  /\ adder' = [adder EXCEPT !.stage = "index"]
  /\ reply' = NoReply
  /\ UNCHANGED <<memtable, ssts, no, index, meta, up, pending, latest, rewritten, unsaved>>

\* LevelZero::save_meta
SaveIndex ==
  /\ up /\ adder.stage = "index"
  /\ index' = ssts
  /\ adder' = [adder EXCEPT !.stage = "meta"]
  /\ reply' = NoReply
  /\ UNCHANGED <<memtable, ssts, no, file, meta, up, pending, latest, rewritten, unsaved>>

\* DiskStorage::save_meta, and the return into the caller: put clears the
\* memtable, flush does not; the destructor of KVStore flushes and the one of
\* KVStore_beta, which runs after it, flushes again.
SaveMeta ==
  /\ up /\ adder.stage = "meta"
  /\ no' = no + 1
  /\ meta' = no + 1
  /\ memtable' = IF adder.call = "put" THEN NoContents ELSE memtable
  /\ adder' = IF adder.call = "~KVStore"
              THEN [call |-> "~KVStore_beta", stage |-> "open"] ELSE NoAdd
  /\ up' = (adder.call # "~KVStore_beta")
  /\ reply' = NoReply
  /\ UNCHANGED <<ssts, file, index, pending, latest, rewritten, unsaved>>

-----------------------------------------------------------------------------
(* The process *)

\* A destructor runs.  With an empty memtable there is nothing to write.
Close ==
  /\ Alone
  /\ \/ empty /\ up' = FALSE /\ UNCHANGED adder
     \/ /\ ~empty /\ Room(2)
        /\ \E class \in {"~KVStore", "~KVStore_beta"} :
             adder' = [call |-> class, stage |-> "open"]
        /\ UNCHANGED up
  /\ reply' = NoReply
  /\ UNCHANGED <<disk, memtable, ssts, no, pending, latest, rewritten, unsaved>>

\* The keys a stop leaves: those that are in a complete table the index names.
Saved == {k \in Keys : \E i \in DOMAIN index : file[index[i]][k] \notin {Absent, Unreadable}}

\* Between the writes of index and meta, a stop leaves a table listed under the
\* number that the reopened store gives to the next one.
Crash ==
  /\ up
  /\ up' = FALSE
  /\ unsaved' = IF adder.stage = "meta" THEN unsaved \cup {no} ELSE unsaved
  /\ latest' = [k \in Keys |-> CASE k \notin Saved -> Absent
                               [] k \in Saved \cap rewritten -> Unknown
                               [] OTHER -> latest[k]]
  /\ rewritten' = rewritten \cap Saved
  /\ adder' = NoAdd
  /\ pending' = [th \in Threads |-> NoCall]
  /\ reply' = NoReply
  /\ UNCHANGED <<disk, memtable, ssts, no>>

\* Mutated: skips a number.
Open_Skips ==
  /\ ~up
  /\ up' = TRUE
  /\ memtable' = NoContents
  /\ ssts' = index
  /\ no' = meta + 1
  /\ adder' = NoAdd
  /\ reply' = NoReply
  /\ UNCHANGED <<disk, pending, latest, rewritten, unsaved>>

\* The constructors read what is on disk.
Open ==
  /\ ~up
  /\ up' = TRUE
  /\ memtable' = NoContents
  /\ ssts' = index
  /\ no' = meta
  /\ adder' = NoAdd
  /\ reply' = NoReply
  /\ UNCHANGED <<disk, pending, latest, rewritten, unsaved>>

-----------------------------------------------------------------------------

Call(th) ==
  \E k \in Keys :
    \/ \E v \in Values \cup {Empty} : put(th, k, v)
    \/ get(th, k)
    \/ del(th, k)
    \/ delTxn(th, k)

Add == OpenTable \/ create_sstable \/ SaveIndex \/ SaveMeta

Next ==
  \/ \E th \in Threads : Call(th) \/ GetReturn(th) \/ DelReturn(th)
  \/ reset \/ flush \/ Add \/ Close \/ Crash \/ Open

Spec == Init /\ [][Next]_vars

-----------------------------------------------------------------------------
(* Properties *)

\* Every variable has its type.
TypeOK ==
  /\ memtable \in Contents
  /\ ssts \in Seq(Numbers) /\ index \in Seq(Numbers)
  /\ no \in Numbers /\ meta \in Numbers
  /\ file \in [Numbers -> Contents \cup {Partial}]
  /\ up \in BOOLEAN
  /\ adder \in [call : {"none", "put", "flush", "~KVStore", "~KVStore_beta"},
                stage : {"none", "open", "build", "index", "meta"}]
  /\ pending \in [Threads -> [op : {"none", "get", "del", "torn get", "torn del"},
                              key : Keys \cup {"none"}]]
  /\ reply \in [key : Keys \cup {"none"}, value : Values \cup {Absent}, torn : BOOLEAN]
  /\ latest \in [Keys -> Values \cup {Empty, Absent, Unknown}]
  /\ rewritten \in SUBSET Keys /\ unsaved \in SUBSET Numbers

\* A store opened now would find every table its index names complete, listed
\* once, and under a number it will not give to another table; whenever the
\* process stops, only a table whose addition was cut between the writes of
\* index and meta may be listed under the next number, which overwrites it.  The
\* next table takes that number, and is complete once the number is counted.
OnDiskSound ==
  \A i \in DOMAIN index :
    /\ index[i] <= meta
    /\ index[i] < meta => file[index[i]] # Partial
    /\ index[i] \notin unsaved =>
         /\ file[index[i]] # Partial
         /\ index[i] < meta \/ adder.stage = "meta"
         /\ \A j \in DOMAIN index : index[i] = index[j] => i = j

\* A key that was put once and never again nor deleted is read back, over any
\* moves of memtables to disk, closings and stops that did not lose it, by every
\* get whose search neither overlapped the addition of a table nor met one that
\* a stop left unfinished.  Lost are the keys that were only in the memtable at
\* a stop, and those of a table that is overwritten after a stop between the
\* writes of index and meta.
OnceWrittenReadBack ==
  reply.key \in Keys /\ reply.key \notin rewritten /\ ~reply.torn =>
    reply.value = Answer(latest[reply.key])

\* A key that was not put since the store was reset, or ever, is not found:
\* KVStore_beta.h:27 says that reset clears "memtable and disk".
ResetClears ==
  reply.key \in Keys /\ latest[reply.key] = Absent /\ ~reply.torn => reply.value = Absent
=============================================================================
