---------------------------- MODULE KVStoreProofs ----------------------------
(***************************************************************************)
(* The directory of the store can always be opened again, and keys written *)
(* once are read back, for any number of callers, keys, values and tables, *)
(* wherever the process stops.                                             *)
(***************************************************************************)
EXTENDS KVStore, SequenceTheorems, WellFoundedInduction, TLAPS

(***************************************************************************)
(* The inductive invariant.                                                *)
(***************************************************************************)

\* How far an addition is, and what that says of numbers, lists and files.
Numbering ==
  /\ up => no = meta
  /\ adder.stage # "none" => up /\ no < MaxNo
  /\ adder.stage # "none" /\ adder.call = "~KVStore" => no + 1 < MaxNo
Listing ==
  /\ up /\ adder.stage \in {"none", "open", "meta"} => ssts = index
  /\ adder.stage \in {"build", "index"} => ssts = Append(index, no)
  /\ adder.stage = "build" => file[no] = Partial
  /\ adder.stage \in {"index", "meta"} => file[no] = memtable
  /\ adder.stage = "meta" => \E i \in DOMAIN index : index[i] = no

\* A call that searches has a key.
PendingKeys ==
  \A th \in Threads : IF pending[th].op = "none" THEN pending[th].key = "none" ELSE pending[th].key \in Keys

DiskInv == TypeOK /\ Numbering /\ Listing /\ OnDiskSound

\* A key that was not rewritten has its last value wherever it is, and is
\* somewhere unless it was never written.
Faithful ==
  \A k \in Keys \ rewritten :
    /\ up => memtable[k] \in {Absent, latest[k]}
    /\ \A i \in DOMAIN index : file[index[i]][k] \in {Absent, Unreadable, latest[k]}
Kept ==
  \A k \in Keys \ rewritten : latest[k] # Absent => (up /\ memtable[k] # Absent) \/ k \in Saved

\* A search that no addition overlaps looks for a key that is not in the
\* memtable; the row locks are kept.
Searches ==
  \A th \in Threads :
    /\ pending[th].op \in {"get", "del"} => adder.stage \in {"none", "open"}
    /\ pending[th].op = "get" => memtable[pending[th].key] = Absent
RowLocks ==
  \A a, b \in Threads :
    a # b /\ pending[a].key = pending[b].key /\ pending[a].key \in Keys =>
      pending[a].op \in {"get", "torn get"}

ReadInv == Faithful /\ Kept /\ Searches /\ RowLocks /\ OnceWrittenReadBack

(***************************************************************************)
(* Types.                                                                  *)
(***************************************************************************)

Replies == [key : Keys \cup {"none"}, value : Values \cup {Absent}, torn : BOOLEAN]
Pendings == [op : {"none", "get", "del", "torn get", "torn del"}, key : Keys \cup {"none"}]
Adders == [call : {"none", "put", "flush", "~KVStore", "~KVStore_beta"},
           stage : {"none", "open", "build", "index", "meta"}]

LEMMA Blanks ==
  /\ NoContents \in Contents /\ NoReply \in Replies /\ NoCall \in Pendings /\ NoAdd \in Adders
  /\ Partial \notin Contents
<1>1. NoContents \in Contents
  BY DEF NoContents, Contents
<1>2. NoReply \in Replies /\ NoCall \in Pendings /\ NoAdd \in Adders
  BY DEF NoReply, NoCall, NoAdd, Replies, Pendings, Adders
<1>3. Partial \notin Contents
  <2>1. PICK k \in Keys : TRUE
    BY KVAssumption
  <2>2. Unreadable \notin Values /\ Empty # Unreadable /\ Absent # Unreadable
    BY KVAssumption DEF Empty, Absent, Unreadable
  <2> QED
    BY <2>1, <2>2 DEF Partial, Contents
<1> QED
  BY <1>1, <1>2, <1>3

\* What the directory's steps need of TypeOK.
LEMMA DirectoryTypes ==
  ASSUME TypeOK
  PROVE  /\ MaxNo \in Nat /\ no \in Nat /\ meta \in Nat /\ no \in Numbers /\ meta \in Numbers
         /\ index \in Seq(Numbers) /\ ssts \in Seq(Numbers) /\ Numbers \subseteq Nat
         /\ \A i \in DOMAIN index : index[i] \in Numbers /\ index[i] \in Nat
         /\ memtable \in Contents /\ memtable # Partial
         /\ file \in [Numbers -> Contents \cup {Partial}]
<1>1. index \in Seq(Numbers) /\ ssts \in Seq(Numbers) /\ no \in Numbers /\ meta \in Numbers
  BY DEF TypeOK
<1>2. MaxNo \in Nat /\ Numbers \subseteq Nat
  BY KVAssumption DEF Numbers
<1>3. memtable \in Contents /\ file \in [Numbers -> Contents \cup {Partial}]
  BY DEF TypeOK
<1>4. \A i \in DOMAIN index : index[i] \in Numbers
  BY <1>1
<1> QED
  BY <1>1, <1>2, <1>3, <1>4, Blanks

LEMMA WroteTypes ==
  ASSUME TypeOK, NEW k \in Keys, NEW v \in Values \cup {Empty}, Wrote(k, v)
  PROVE  latest' \in [Keys -> Values \cup {Empty, Absent, Unknown}] /\ rewritten' \in SUBSET Keys
BY DEF TypeOK, Wrote

LEMMA MemtableTypes ==
  ASSUME TypeOK, NEW k \in Keys, NEW v \in Values \cup {Empty, Absent}
  PROVE  [memtable EXCEPT ![k] = v] \in Contents
BY DEF TypeOK, Contents

(***************************************************************************)
(* The directory.                                                          *)
(***************************************************************************)

LEMMA DiskInvInit ==
  Init => DiskInv
<1> SUFFICES ASSUME Init PROVE DiskInv
  OBVIOUS
<1>1. <<>> \in Seq(Numbers) /\ DOMAIN <<>> = {}
  OBVIOUS
<1>2. 0 \in Numbers /\ MaxNo \in Nat
  BY KVAssumption DEF Numbers
<1>3. TypeOK
  <2>1. file \in [Numbers -> Contents \cup {Partial}]
    BY Blanks DEF Init
  <2>2. pending \in [Threads -> Pendings]
    BY Blanks DEF Init
  <2>3. latest \in [Keys -> Values \cup {Empty, Absent, Unknown}] /\ rewritten \in SUBSET Keys
    BY DEF Init
  <2> QED
    BY <1>1, <1>2, <2>1, <2>2, <2>3, Blanks DEF Init, TypeOK, Replies, Pendings, Adders
<1>4. Numbering /\ Listing /\ OnDiskSound
  BY <1>1 DEF Init, Numbering, Listing, OnDiskSound, NoAdd
<1> QED
  BY <1>3, <1>4 DEF DiskInv

\* A step that leaves the directory, and the memtable while it is written,
\* alone.
LEMMA QuietKeepsDisk ==
  ASSUME DiskInv, TypeOK', UNCHANGED <<unsaved, disk, ssts, no, up, adder>>,
         adder.stage \in {"index", "meta"} => memtable' = memtable
  PROVE  DiskInv'
BY DEF DiskInv, Numbering, Listing, OnDiskSound, disk

\* An addition begins.
LEMMA BeginKeepsDisk ==
  ASSUME DiskInv, TypeOK', UNCHANGED <<unsaved, disk, ssts, no, up>>, up, adder.stage = "none",
         adder'.stage = "open", no < MaxNo, adder'.call = "~KVStore" => no + 1 < MaxNo
  PROVE  DiskInv'
BY DEF DiskInv, Numbering, Listing, OnDiskSound, disk

LEMMA CallKeepsDisk ==
  ASSUME DiskInv, NEW th \in Threads, Call(th)
  PROVE  DiskInv'
<1>0. TypeOK /\ MaxNo \in Nat
  BY KVAssumption DEF DiskInv
<1>1. ASSUME NEW k \in Keys, NEW v \in Values \cup {Empty}, put(th, k, v)
      PROVE  DiskInv'
  <2>1. /\ memtable' \in Contents
        /\ latest' \in [Keys -> Values \cup {Empty, Absent, Unknown}] /\ rewritten' \in SUBSET Keys
    BY <1>0, <1>1, MemtableTypes, WroteTypes DEF put
  <2>2. UNCHANGED <<unsaved, disk, ssts, no, up, pending>> /\ reply' = NoReply /\ up /\ adder = NoAdd
    BY <1>1 DEF put, Free
  <2>3. CASE UNCHANGED adder
    <3>1. TypeOK'
      BY <1>0, <2>1, <2>2, <2>3, Blanks DEF TypeOK, disk, Replies
    <3> QED
      BY <2>2, <2>3, <3>1, QuietKeepsDisk DEF NoAdd
  <2>4. CASE Room(1) /\ adder' = [call |-> "put", stage |-> "open"]
    <3>1. TypeOK'
      BY <1>0, <2>1, <2>2, <2>4, Blanks DEF TypeOK, disk, Replies
    <3>2. no < MaxNo
      BY <1>0, <2>4, DirectoryTypes DEF Room
    <3> QED
      BY <2>2, <2>4, <3>1, <3>2, BeginKeepsDisk DEF NoAdd
  <2> QED
    BY <1>1, <2>3, <2>4 DEF put
<1>2. ASSUME NEW k \in Keys, get(th, k)
      PROVE  DiskInv'
  <2>1. UNCHANGED <<unsaved, disk, memtable, ssts, no, up, adder, latest, rewritten>>
    BY <1>2 DEF get
  <2>2. pending' \in [Threads -> Pendings] /\ reply' \in Replies
    <3>1. CASE reply' = [key |-> k, value |-> Answer(memtable[k]), torn |-> FALSE] /\ UNCHANGED pending
      BY <1>0, <3>1 DEF TypeOK, Answer, Replies, Pendings
    <3>2. CASE pending' = [pending EXCEPT ![th] = [op |-> "get", key |-> k]] /\ reply' = NoReply
      BY <1>0, <3>2, Blanks DEF TypeOK, Pendings
    <3> QED
      BY <1>2, <3>1, <3>2 DEF get
  <2>3. TypeOK'
    BY <1>0, <2>1, <2>2 DEF TypeOK, disk, Replies, Pendings
  <2> QED
    BY <2>1, <2>3, QuietKeepsDisk
<1>3. ASSUME NEW k \in Keys, del(th, k)
      PROVE  DiskInv'
  <2>1. UNCHANGED <<unsaved, disk, ssts, no, up, adder>> /\ reply' = NoReply /\ adder = NoAdd
    BY <1>3 DEF del, Free
  <2>2. /\ memtable' \in Contents /\ pending' \in [Threads -> Pendings]
        /\ latest' \in [Keys -> Values \cup {Empty, Absent, Unknown}] /\ rewritten' \in SUBSET Keys
    <3>1. CASE memtable' = [memtable EXCEPT ![k] = Absent] /\ Wrote(k, Empty) /\ UNCHANGED pending
      BY <1>0, <3>1, MemtableTypes, WroteTypes DEF TypeOK, Pendings
    <3>2. CASE /\ pending' = [pending EXCEPT ![th] = [op |-> "del", key |-> k]]
               /\ UNCHANGED <<memtable, latest, rewritten>>
      BY <1>0, <3>2 DEF TypeOK, Pendings
    <3> QED
      BY <1>3, <3>1, <3>2 DEF del
  <2>3. TypeOK'
    BY <1>0, <2>1, <2>2, Blanks DEF TypeOK, disk, Replies, Pendings
  <2> QED
    BY <2>1, <2>3, QuietKeepsDisk DEF NoAdd
<1>4. ASSUME NEW k \in Keys, delTxn(th, k)
      PROVE  DiskInv'
  <2>1. UNCHANGED <<unsaved, disk, ssts, no, up, adder, pending>> /\ reply' = NoReply /\ adder = NoAdd
    BY <1>4 DEF delTxn, Free
  <2>2. /\ memtable' \in Contents
        /\ latest' \in [Keys -> Values \cup {Empty, Absent, Unknown}] /\ rewritten' \in SUBSET Keys
    BY <1>0, <1>4, MemtableTypes, WroteTypes DEF delTxn
  <2>3. TypeOK'
    BY <1>0, <2>1, <2>2, Blanks DEF TypeOK, disk, Replies
  <2> QED
    BY <2>1, <2>3, QuietKeepsDisk DEF NoAdd
<1> QED
  BY <1>1, <1>2, <1>3, <1>4 DEF Call

LEMMA ReturnKeepsDisk ==
  ASSUME DiskInv, PendingKeys, NEW th \in Threads, GetReturn(th) \/ DelReturn(th)
  PROVE  DiskInv'
<1>0. TypeOK
  BY DEF DiskInv
<1>1. pending' \in [Threads -> Pendings]
  BY <1>0, Blanks DEF TypeOK, Pendings, GetReturn, DelReturn
<1>2. UNCHANGED <<unsaved, disk, ssts, no, up, adder>>
  BY DEF GetReturn, DelReturn
<1>3. CASE GetReturn(th)
  <2>1. PICK raw : reply' = [key |-> pending[th].key, value |-> Answer(raw),
                             torn |-> pending[th].op = "torn get" \/ search(pending[th].key) = Unreadable]
    BY <1>3 DEF GetReturn
  <2>2. pending[th].key \in Keys \cup {"none"} /\ Answer(raw) \in Values \cup {Absent}
        /\ (pending[th].op = "torn get" \/ search(pending[th].key) = Unreadable) \in BOOLEAN
    BY <1>0 DEF TypeOK, Answer
  <2>3. reply' \in Replies
    BY <2>1, <2>2 DEF Replies
  <2>4. TypeOK'
    BY <1>0, <1>1, <1>2, <1>3, <2>3 DEF GetReturn, TypeOK, disk, Replies, Pendings
  <2> QED
    BY <1>2, <1>3, <2>4, QuietKeepsDisk DEF GetReturn
<1>4. CASE DelReturn(th)
  <2>1. CASE UNCHANGED <<memtable, latest, rewritten>>
    <3>1. TypeOK'
      BY <1>0, <1>1, <1>2, <1>4, <2>1, Blanks DEF DelReturn, TypeOK, disk, Replies, Pendings
    <3> QED
      BY <1>2, <2>1, <3>1, QuietKeepsDisk
  <2>2. CASE /\ Free /\ memtable' = [memtable EXCEPT ![pending[th].key] = Empty]
             /\ Wrote(pending[th].key, Empty)
    <3>0. pending[th].key \in Keys
      BY <1>4 DEF DelReturn, PendingKeys
    <3>1. memtable' \in Contents
      BY <1>0, <2>2, <3>0, MemtableTypes
    <3>2. latest' \in [Keys -> Values \cup {Empty, Absent, Unknown}] /\ rewritten' \in SUBSET Keys
      BY <1>0, <2>2, <3>0, WroteTypes
    <3>3. TypeOK'
      BY <1>0, <1>1, <1>2, <1>4, <3>1, <3>2, Blanks DEF DelReturn, TypeOK, disk, Replies, Pendings
    <3> QED
      BY <1>2, <2>2, <3>3, QuietKeepsDisk DEF Free, NoAdd
  <2> QED
    BY <1>4, <2>1, <2>2 DEF DelReturn
<1> QED
  BY <1>3, <1>4

\* A call that runs alone.
LEMMA AloneKeepsDisk ==
  ASSUME DiskInv, reset \/ flush \/ Close
  PROVE  DiskInv'
<1>0. TypeOK /\ MaxNo \in Nat
  BY KVAssumption DEF DiskInv
<1>1. up /\ adder = NoAdd /\ reply' = NoReply /\ UNCHANGED <<unsaved, disk, ssts, no, pending>>
  BY DEF reset, flush, Close, Alone, Free
<1>2. CASE reset
  <2>1. TypeOK'
    BY <1>0, <1>1, <1>2, Blanks DEF reset, TypeOK, disk, Replies, Pendings
  <2> QED
    BY <1>1, <1>2, <2>1, QuietKeepsDisk DEF reset, NoAdd
<1>3. CASE flush
  <2>1. TypeOK'
    BY <1>0, <1>1, <1>3, Blanks DEF flush, TypeOK, disk, Replies, Pendings
  <2> QED
    <3>1. no < MaxNo
      BY <1>0, <1>3, DirectoryTypes DEF flush, Room
    <3> QED
      BY <1>1, <1>3, <2>1, <3>1, BeginKeepsDisk DEF flush, NoAdd
<1>4. CASE Close
  <2>1. UNCHANGED <<memtable, latest, rewritten>>
    BY <1>4 DEF Close
  <2>2. CASE up' = FALSE /\ UNCHANGED adder
    <3>1. TypeOK'
      BY <1>0, <1>1, <2>1, <2>2, Blanks DEF TypeOK, disk, Replies, Pendings
    <3> QED
      BY <1>1, <2>2, <3>1 DEF DiskInv, Numbering, Listing, OnDiskSound, disk, NoAdd
  <2>3. ASSUME NEW class \in {"~KVStore", "~KVStore_beta"}, adder' = [call |-> class, stage |-> "open"],
               Room(2), UNCHANGED up
        PROVE  DiskInv'
    <3>1. TypeOK'
      BY <1>0, <1>1, <2>1, <2>3, Blanks DEF TypeOK, disk, Replies, Pendings
    <3>2. no < MaxNo /\ no + 1 < MaxNo
      BY <1>0, <2>3, DirectoryTypes DEF Room
    <3> QED
      BY <1>1, <2>3, <3>1, <3>2, BeginKeepsDisk DEF NoAdd
  <2> QED
    BY <1>4, <2>2, <2>3 DEF Close
<1> QED
  BY <1>2, <1>3, <1>4

\* The file of the next table is written: only tables listed under its number
\* are touched.
LEMMA NewFileKeepsSound ==
  ASSUME TypeOK, OnDiskSound, no = meta, adder.stage # "meta", UNCHANGED <<index, meta, unsaved>>,
         NEW c, file' = [file EXCEPT ![no] = c], no \in Numbers
  PROVE  OnDiskSound'
<1>1. /\ index \in Seq(Numbers) /\ file \in [Numbers -> Contents \cup {Partial}] /\ no \in Nat
      /\ \A i \in DOMAIN index : index[i] \in Numbers /\ index[i] \in Nat
  BY DirectoryTypes
<1>2. \A i \in DOMAIN index : index[i] # no => file'[index[i]] = file[index[i]]
  BY <1>1
<1>3. \A i \in DOMAIN index : (index[i] < meta \/ index[i] \notin unsaved) => index[i] < meta /\ index[i] # no
  BY <1>1 DEF OnDiskSound
<1> QED
  BY <1>1, <1>2, <1>3 DEF OnDiskSound

LEMMA OpenTableKeepsDisk ==
  ASSUME DiskInv, OpenTable
  PROVE  DiskInv'
<1>0. TypeOK /\ up /\ adder.stage = "open" /\ no = meta /\ no < MaxNo /\ ssts = index
  BY DEF DiskInv, Numbering, Listing, OpenTable
<1>1. adder' \in Adders /\ adder'.stage = "build" /\ adder'.call = adder.call
  BY <1>0 DEF OpenTable, TypeOK, Adders
<1>2. ssts' = Append(index, no) /\ ssts' \in Seq(Numbers)
  <2>1. ssts' = Append(ssts, no)
    BY DEF OpenTable
  <2>2. index \in Seq(Numbers) /\ no \in Numbers /\ ssts = index
    BY <1>0, DirectoryTypes
  <2> QED
    BY <2>1, <2>2
<1>3. pending' \in [Threads -> Pendings]
  <2> SUFFICES ASSUME NEW t \in Threads
               PROVE  (CASE pending[t].op = "get" -> [pending[t] EXCEPT !.op = "torn get"]
                         [] pending[t].op = "del" -> [pending[t] EXCEPT !.op = "torn del"]
                         [] OTHER -> pending[t]) \in Pendings
    BY DEF OpenTable
  <2> QED
    BY <1>0 DEF TypeOK, Pendings
<1>4. file' \in [Numbers -> Contents \cup {Partial}]
  BY <1>0 DEF OpenTable, TypeOK
<1>4a. rewritten' \in SUBSET Keys
  BY <1>0 DEF OpenTable, TypeOK, Overwritten
<1>5. TypeOK'
  BY <1>0, <1>1, <1>2, <1>3, <1>4, <1>4a, Blanks DEF OpenTable, TypeOK, Replies, Pendings, Adders
<1>6. Numbering'
  BY <1>0, <1>1 DEF DiskInv, Numbering, OpenTable
<1>4b. file' = [file EXCEPT ![no] = Partial] /\ no \in Numbers
  BY <1>0, DirectoryTypes DEF OpenTable
<1>7. Listing'
  BY <1>0, <1>1, <1>2, <1>4b DEF Listing, OpenTable, TypeOK
<1>8. OnDiskSound'
  <2>1. UNCHANGED <<index, meta, unsaved>> /\ adder.stage # "meta"
    BY <1>0 DEF OpenTable
  <2> QED
    BY <1>0, <1>1, <2>1, <1>4b, NewFileKeepsSound DEF DiskInv
<1> QED
  BY <1>5, <1>6, <1>7, <1>8 DEF DiskInv

LEMMA create_sstableKeepsDisk ==
  ASSUME DiskInv, create_sstable
  PROVE  DiskInv'
<1>0. TypeOK /\ up /\ adder.stage = "build" /\ no = meta /\ ssts = Append(index, no)
  BY DEF DiskInv, Numbering, Listing, create_sstable
<1>1. adder' \in Adders /\ adder'.stage = "index" /\ adder'.call = adder.call
  BY <1>0 DEF create_sstable, TypeOK, Adders
<1>2. file' \in [Numbers -> Contents \cup {Partial}] /\ file'[no] = memtable
  BY <1>0 DEF create_sstable, TypeOK
<1>3. TypeOK'
  BY <1>0, <1>1, <1>2, Blanks DEF create_sstable, TypeOK, Replies, Adders
<1>4. Numbering' /\ Listing'
  BY <1>0, <1>1, <1>2 DEF DiskInv, Numbering, Listing, create_sstable
<1>5. OnDiskSound'
  <2>1. UNCHANGED <<index, meta, unsaved>> /\ adder.stage # "meta" /\ no \in Numbers
        /\ file' = [file EXCEPT ![no] = memtable]
    BY <1>0, DirectoryTypes DEF create_sstable
  <2> QED
    BY <1>0, <2>1, NewFileKeepsSound DEF DiskInv
<1> QED
  BY <1>3, <1>4, <1>5 DEF DiskInv

LEMMA SaveIndexKeepsDisk ==
  ASSUME DiskInv, SaveIndex
  PROVE  DiskInv'
<1>0. /\ TypeOK /\ up /\ adder.stage = "index" /\ no = meta /\ ssts = Append(index, no)
      /\ file[no] = memtable /\ no < MaxNo
  BY DEF DiskInv, Numbering, Listing, SaveIndex
<1>1. adder' \in Adders /\ adder'.stage = "meta" /\ adder'.call = adder.call
  BY <1>0 DEF SaveIndex, TypeOK, Adders
<1>2. TypeOK'
  BY <1>0, <1>1, Blanks DEF SaveIndex, TypeOK, Replies, Adders
<1>3. /\ index' = Append(index, no) /\ DOMAIN index' = 1..(Len(index) + 1) /\ index'[Len(index) + 1] = no
      /\ DOMAIN index = 1..Len(index) /\ Len(index) \in Nat
      /\ \A i \in DOMAIN index : index'[i] = index[i] /\ index[i] \in Numbers
  <2>1. index \in Seq(Numbers) /\ no \in Numbers
    BY <1>0, DirectoryTypes
  <2>2. index' = Append(index, no)
    BY <1>0 DEF SaveIndex
  <2> QED
    BY <2>1, <2>2
<1>4. Numbering' /\ Listing'
  <2>1. Numbering'
    BY <1>0, <1>1 DEF DiskInv, Numbering, SaveIndex
  <2>2. \E i \in DOMAIN index' : index'[i] = no'
    <3>1. Len(index) + 1 \in DOMAIN index'
      BY <1>3
    <3> QED
      BY <1>3, <3>1 DEF SaveIndex
  <2> QED
    BY <1>0, <1>1, <2>1, <2>2 DEF Listing, SaveIndex
<1>5. OnDiskSound'
  <2>1. memtable \in Contents /\ memtable # Partial /\ no \in Nat
    BY <1>0, DirectoryTypes
  <2>2. \A i \in DOMAIN index' : i \in DOMAIN index \/ (i = Len(index) + 1 /\ index'[i] = no)
    BY <1>3
  <2>3. UNCHANGED <<file, meta, unsaved>>
    BY DEF SaveIndex
  <2>4. \A i \in DOMAIN index : index[i] \in Nat /\ (index[i] \notin unsaved => index[i] < no)
    BY <1>0, DirectoryTypes DEF DiskInv, OnDiskSound
  <2> SUFFICES ASSUME NEW i \in DOMAIN index'
               PROVE  /\ index'[i] <= meta
                      /\ index'[i] < meta => file[index'[i]] # Partial
                      /\ index'[i] \notin unsaved =>
                           /\ file[index'[i]] # Partial
                           /\ \A j \in DOMAIN index' : index'[i] = index'[j] => i = j
    BY <1>1, <2>3 DEF OnDiskSound
  <2>5. CASE i \in DOMAIN index
    <3>1. /\ index[i] <= meta
          /\ index[i] < meta => file[index[i]] # Partial
          /\ index[i] \notin unsaved =>
               /\ file[index[i]] # Partial
               /\ \A j \in DOMAIN index : index[i] = index[j] => i = j
      BY <2>5 DEF DiskInv, OnDiskSound
    <3>2. ASSUME index[i] \notin unsaved, NEW j \in DOMAIN index', index'[i] = index'[j]
          PROVE  i = j
      <4>1. index[i] # no
        BY <2>1, <2>4, <2>5, <3>2
      <4>2. j \in DOMAIN index /\ index'[j] = index[j] /\ index'[i] = index[i]
        BY <1>3, <2>2, <2>5, <3>2, <4>1
      <4> QED
        BY <3>1, <3>2, <4>2
    <3>3. index'[i] = index[i]
      BY <1>3, <2>5
    <3> QED
      BY <3>1, <3>2, <3>3
  <2>6. CASE i = Len(index) + 1 /\ index'[i] = no
    <3>1. file[no] # Partial
      BY <1>0, <2>1
    <3>2. ASSUME no \notin unsaved, NEW j \in DOMAIN index', index'[j] = no
          PROVE  i = j
      <4>1. j \notin DOMAIN index
        BY <1>3, <2>1, <2>4, <3>2
      <4> QED
        BY <2>2, <2>6, <3>2, <4>1
    <3> QED
      BY <1>0, <2>1, <2>6, <3>1, <3>2
  <2> QED
    BY <2>2, <2>5, <2>6
<1> QED
  BY <1>2, <1>4, <1>5 DEF DiskInv

LEMMA SaveMetaKeepsDisk ==
  ASSUME DiskInv, SaveMeta
  PROVE  DiskInv'
<1>0. /\ TypeOK /\ up /\ adder.stage = "meta" /\ no = meta /\ ssts = index /\ no < MaxNo
      /\ (adder.call = "~KVStore" => no + 1 < MaxNo) /\ MaxNo \in Nat /\ no \in Nat
  BY DirectoryTypes DEF DiskInv, Numbering, Listing, SaveMeta
<1>1. adder' \in Adders /\ adder'.stage \in {"none", "open"} /\ adder'.call # "~KVStore"
  BY <1>0, Blanks DEF SaveMeta, NoAdd, Adders
<1>2. memtable' \in Contents /\ no' \in Numbers /\ up' \in BOOLEAN /\ no' = meta' /\ meta' = meta + 1
  <2>1. memtable' \in Contents
    BY <1>0, Blanks, DirectoryTypes DEF SaveMeta
  <2>2. no' \in Numbers /\ no' = meta' /\ meta' = meta + 1
    BY <1>0 DEF SaveMeta, Numbers
  <2>3. up' \in BOOLEAN
    BY DEF SaveMeta
  <2> QED
    BY <2>1, <2>2, <2>3
<1>3. TypeOK'
  BY <1>0, <1>1, <1>2, Blanks DEF SaveMeta, TypeOK, Replies, Adders
<1>4. adder'.stage # "none" => up' /\ no' < MaxNo
  BY <1>0 DEF SaveMeta, NoAdd
<1>5. Numbering' /\ Listing'
  BY <1>0, <1>1, <1>2, <1>4 DEF Numbering, Listing, SaveMeta
<1>6. OnDiskSound'
  <2>1. \A i \in DOMAIN index : index[i] < meta' /\ index[i] \in Nat /\ index[i] <= meta
    BY <1>0, <1>2, DirectoryTypes DEF DiskInv, OnDiskSound
  <2>1a. \A i \in DOMAIN index : index[i] <= meta'
    BY <1>0, <1>2, <2>1
  <2>2. UNCHANGED <<file, index, unsaved>>
    BY DEF SaveMeta
  <2>3. file[no] = memtable /\ memtable # Partial
    BY <1>0, DirectoryTypes DEF DiskInv, Listing
  <2>4. \A i \in DOMAIN index : file[index[i]] # Partial
    <3> SUFFICES ASSUME NEW i \in DOMAIN index PROVE file[index[i]] # Partial
      OBVIOUS
    <3>1. index[i] < meta \/ index[i] = no
      BY <1>0, <2>1
    <3> QED
      BY <2>3, <3>1 DEF DiskInv, OnDiskSound
  <2> QED
    BY <2>1, <2>1a, <2>2, <2>4 DEF DiskInv, OnDiskSound
<1> QED
  BY <1>3, <1>5, <1>6 DEF DiskInv

LEMMA CrashKeepsDisk ==
  ASSUME DiskInv, Crash
  PROVE  DiskInv'
<1>0. /\ TypeOK /\ up /\ adder' = NoAdd /\ reply' = NoReply /\ UNCHANGED <<disk, memtable, ssts, no>> /\ up' = FALSE
      /\ unsaved' = IF adder.stage = "meta" THEN unsaved \cup {no} ELSE unsaved
  BY DEF DiskInv, Crash
<1>1. pending' \in [Threads -> Pendings]
  BY Blanks DEF Crash
<1>2. latest' \in [Keys -> Values \cup {Empty, Absent, Unknown}] /\ rewritten' \in SUBSET Keys
  BY <1>0 DEF Crash, TypeOK
<1>3. unsaved' \in SUBSET Numbers
  BY <1>0 DEF TypeOK
<1>4. TypeOK'
  BY <1>0, <1>1, <1>2, <1>3, Blanks DEF TypeOK, disk, Replies, Pendings, Adders
<1>5. Numbering' /\ Listing'
  BY <1>0 DEF Numbering, Listing, NoAdd
<1>6. OnDiskSound'
  <2>1. UNCHANGED <<file, index, meta>> /\ unsaved \subseteq unsaved' /\ no = meta
    BY <1>0 DEF disk, DiskInv, Numbering
  <2>2. \A i \in DOMAIN index : index[i] \notin unsaved' => index[i] < meta
    <3>1. CASE adder.stage = "meta"
      <4>1. \A i \in DOMAIN index : index[i] <= meta /\ index[i] \in Nat /\ meta \in Nat
        BY <1>0, DirectoryTypes DEF DiskInv, OnDiskSound
      <4>2. meta \in unsaved'
        BY <1>0, <2>1, <3>1
      <4> QED
        BY <4>1, <4>2
    <3>2. CASE adder.stage # "meta"
      BY <1>0, <3>2 DEF DiskInv, OnDiskSound
    <3> QED
      BY <3>1, <3>2
  <2> QED
    BY <2>1, <2>2 DEF DiskInv, OnDiskSound
<1> QED
  BY <1>4, <1>5, <1>6 DEF DiskInv

LEMMA OpenKeepsDisk ==
  ASSUME DiskInv, Open
  PROVE  DiskInv'
<1>0. TypeOK /\ adder.stage = "none" /\ adder'.stage = "none"
  BY DEF DiskInv, Numbering, TypeOK, Open, NoAdd
<1>1. TypeOK'
  BY <1>0, Blanks DEF Open, TypeOK, disk, Replies, Adders
<1> QED
  BY <1>0, <1>1 DEF Open, DiskInv, Numbering, Listing, OnDiskSound, disk

LEMMA PendingKeysStep ==
  ASSUME TypeOK, PendingKeys, [Next]_vars
  PROVE  PendingKeys'
<1>0. pending \in [Threads -> Pendings]
  BY DEF TypeOK, Pendings
<1>1. ASSUME NEW t \in Threads, NEW c, pending' = [pending EXCEPT ![t] = c],
             IF c.op = "none" THEN c.key = "none" ELSE c.key \in Keys
      PROVE  PendingKeys'
  BY <1>0, <1>1 DEF PendingKeys, Pendings
<1>2. ASSUME NEW th \in Threads, Call(th)
      PROVE  PendingKeys'
  <2>1. PICK k \in Keys : \/ UNCHANGED pending
                          \/ pending' = [pending EXCEPT ![th] = [op |-> "get", key |-> k]]
                          \/ pending' = [pending EXCEPT ![th] = [op |-> "del", key |-> k]]
    BY <1>2 DEF Call, put, get, del, delTxn
  <2>2. CASE UNCHANGED pending
    BY <2>2 DEF PendingKeys
  <2> QED
    BY <1>1, <2>1, <2>2
<1>3. ASSUME NEW th \in Threads, GetReturn(th) \/ DelReturn(th)
      PROVE  PendingKeys'
  <2>1. pending' = [pending EXCEPT ![th] = NoCall]
    BY <1>3 DEF GetReturn, DelReturn
  <2> QED
    BY <1>1, <2>1 DEF NoCall
<1>4. CASE OpenTable
  <2> SUFFICES ASSUME NEW t \in Threads
               PROVE  IF pending'[t].op = "none" THEN pending'[t].key = "none" ELSE pending'[t].key \in Keys
    BY DEF PendingKeys
  <2>1. pending'[t] = CASE pending[t].op = "get" -> [pending[t] EXCEPT !.op = "torn get"]
                       [] pending[t].op = "del" -> [pending[t] EXCEPT !.op = "torn del"]
                       [] OTHER -> pending[t]
    BY <1>4 DEF OpenTable
  <2> QED
    BY <1>0, <2>1 DEF PendingKeys, Pendings
<1>5. CASE Crash
  BY <1>5 DEF Crash, PendingKeys, NoCall
<1>6. CASE reset \/ flush \/ create_sstable \/ SaveIndex \/ SaveMeta \/ Close \/ Open \/ UNCHANGED vars
  <2>1. UNCHANGED pending
    BY <1>6 DEF reset, flush, create_sstable, SaveIndex, SaveMeta, Close, Open, vars
  <2> QED
    BY <2>1 DEF PendingKeys
<1> QED
  BY <1>2, <1>3, <1>4, <1>5, <1>6 DEF Next, Add

LEMMA DiskInvStep ==
  ASSUME DiskInv, PendingKeys, [Next]_vars
  PROVE  DiskInv'
<1>1. CASE UNCHANGED vars
  <2>1. TypeOK' /\ UNCHANGED <<unsaved, disk, ssts, no, up, adder, memtable>>
    BY <1>1 DEF vars, DiskInv, TypeOK, disk
  <2> QED
    BY <2>1, QuietKeepsDisk
<1> QED
  BY <1>1, CallKeepsDisk, ReturnKeepsDisk, AloneKeepsDisk, OpenTableKeepsDisk, create_sstableKeepsDisk,
     SaveIndexKeepsDisk, SaveMetaKeepsDisk, CrashKeepsDisk, OpenKeepsDisk DEF Next, Add

LEMMA PendingKeysInit ==
  Init => PendingKeys
BY DEF Init, PendingKeys, NoCall

\* The invariant of the directory holds in every state the store reaches.
THEOREM DiskInvAlways ==
  Spec => [](DiskInv /\ PendingKeys)
<1>1. Init => DiskInv /\ PendingKeys
  BY DiskInvInit, PendingKeysInit
<1>2. DiskInv /\ PendingKeys /\ [Next]_vars => (DiskInv /\ PendingKeys)'
  BY DiskInvStep, PendingKeysStep DEF DiskInv
<1> QED
  BY <1>1, <1>2, PTL DEF Spec

\* Every variable keeps its type.
THEOREM TypeCorrect ==
  Spec => []TypeOK
<1>1. DiskInv => TypeOK
  BY DEF DiskInv
<1> QED
  BY <1>1, DiskInvAlways, PTL

\* Whatever additions, closings and stops came before, a store opened now finds
\* every table its index names complete, once, and under a number that is given
\* away: the order of the writes in DiskStorage::add is enough for all numbers
\* but those that a stop met between the writes of index and meta.
THEOREM DirectorySound ==
  Spec => []OnDiskSound
<1>1. DiskInv => OnDiskSound
  BY DEF DiskInv
<1> QED
  BY <1>1, DiskInvAlways, PTL

(***************************************************************************)
(* What is stored of the keys that were written once.                      *)
(***************************************************************************)

LEMMA WriteKeepsValues ==
  ASSUME DiskInv, Faithful, Kept, up, UNCHANGED <<disk, up>>,
         NEW k \in Keys, NEW v \in Values \cup {Empty}, NEW m, Wrote(k, v),
         memtable' = [memtable EXCEPT ![k] = m], m = v \/ (m = Absent /\ contains(k))
  PROVE  Faithful' /\ Kept'
<1>0. v # Absent /\ memtable \in Contents /\ latest \in [Keys -> Values \cup {Empty, Absent, Unknown}]
  BY KVAssumption DEF DiskInv, TypeOK, Empty, Absent
<1>1. memtable'[k] = m /\ \A j \in Keys \ {k} : memtable'[j] = memtable[j]
  BY <1>0 DEF Contents
<1>2. latest'[k] = v /\ \A j \in Keys \ {k} : latest'[j] = latest[j]
  BY <1>0 DEF Wrote
<1>3. file' = file /\ index' = index /\ up'
  BY DEF disk
<1>4. Keys \ rewritten' \subseteq Keys \ rewritten
  BY DEF Wrote
<1>5. ASSUME k \notin rewritten'
      PROVE  m = v /\ \A i \in DOMAIN index : file[index[i]][k] \in {Absent, Unreadable}
  <2>1. latest[k] = Absent /\ k \notin rewritten
    BY <1>5 DEF Wrote
  <2> QED
    BY <2>1 DEF Faithful, contains
<1>6. ASSUME NEW j \in Keys \ rewritten'
      PROVE  /\ memtable'[j] \in {Absent, latest'[j]}
             /\ \A i \in DOMAIN index : file[index[i]][j] \in {Absent, Unreadable, latest'[j]}
             /\ latest'[j] # Absent => memtable'[j] # Absent \/ j \in Saved
  <2>1. CASE j = k
    BY <1>0, <1>1, <1>2, <1>5, <1>6, <2>1
  <2>2. CASE j # k
    BY <1>1, <1>2, <1>4, <1>6, <2>2 DEF Faithful, Kept, Saved
  <2> QED
    BY <2>1, <2>2
<1> QED
  BY <1>3, <1>6 DEF Faithful, Kept, Saved

\* The value of a written once key is where it was, or moved to a table.
LEMMA MoveKeepsValues ==
  ASSUME Faithful, Kept, UNCHANGED <<latest, rewritten>>, DOMAIN index \subseteq DOMAIN index',
         up' => \A k \in Keys : memtable'[k] \in {Absent, memtable[k]} /\ (up \/ memtable'[k] = Absent),
         \A k \in Keys : up /\ memtable[k] # Absent => (up' /\ memtable'[k] # Absent) \/ k \in Saved',
         \A i \in DOMAIN index : file'[index'[i]] = file[index[i]],
         \A i \in DOMAIN index' \ DOMAIN index : up /\ file'[index'[i]] = memtable
  PROVE  Faithful' /\ Kept'
<1>1. Faithful'
  BY DEF Faithful
<1>2. Saved \subseteq Saved'
  BY DEF Saved
<1>3. Kept'
  BY <1>2 DEF Kept
<1> QED
  BY <1>1, <1>3

LEMMA SameKeepsValues ==
  ASSUME Faithful, Kept, UNCHANGED <<disk, up, memtable, latest, rewritten>>
  PROVE  Faithful' /\ Kept'
BY DEF Faithful, Kept, Saved, disk

LEMMA CallKeepsValues ==
  ASSUME DiskInv, Faithful, Kept, NEW th \in Threads, Call(th)
  PROVE  Faithful' /\ Kept'
<1>1. ASSUME NEW k \in Keys, NEW v \in Values \cup {Empty}, put(th, k, v)
      PROVE  Faithful' /\ Kept'
  <2>1. up /\ UNCHANGED <<disk, up>> /\ Wrote(k, v) /\ memtable' = [memtable EXCEPT ![k] = v]
    BY <1>1 DEF put, Free
  <2> QED
    BY <2>1, WriteKeepsValues
<1>2. ASSUME NEW k \in Keys, get(th, k)
      PROVE  Faithful' /\ Kept'
  <2>1. UNCHANGED <<disk, up, memtable, latest, rewritten>>
    BY <1>2 DEF get
  <2> QED
    BY <2>1, SameKeepsValues
<1>3. ASSUME NEW k \in Keys, del(th, k)
      PROVE  Faithful' /\ Kept'
  <2>1. up /\ UNCHANGED <<disk, up>>
    BY <1>3 DEF del, Free
  <2>2. CASE contains(k) /\ memtable' = [memtable EXCEPT ![k] = Absent] /\ Wrote(k, Empty)
    BY <2>1, <2>2, WriteKeepsValues
  <2>3. CASE UNCHANGED <<memtable, latest, rewritten>>
    BY <2>1, <2>3, SameKeepsValues
  <2> QED
    BY <1>3, <2>2, <2>3 DEF del
<1>4. ASSUME NEW k \in Keys, delTxn(th, k)
      PROVE  Faithful' /\ Kept'
  <2>1. up /\ UNCHANGED <<disk, up>> /\ Wrote(k, Empty)
    BY <1>4 DEF delTxn, Free
  <2>2. CASE contains(k) /\ memtable' = [memtable EXCEPT ![k] = Absent]
    BY <2>1, <2>2, WriteKeepsValues
  <2>3. CASE memtable' = [memtable EXCEPT ![k] = Empty]
    BY <2>1, <2>3, WriteKeepsValues
  <2> QED
    BY <1>4, <2>2, <2>3 DEF delTxn
<1> QED
  BY <1>1, <1>2, <1>3, <1>4 DEF Call

LEMMA ReturnKeepsValues ==
  ASSUME DiskInv, PendingKeys, Faithful, Kept, NEW th \in Threads, GetReturn(th) \/ DelReturn(th)
  PROVE  Faithful' /\ Kept'
<1>1. UNCHANGED <<disk, up>>
  BY DEF GetReturn, DelReturn
<1>2. CASE UNCHANGED <<memtable, latest, rewritten>>
  BY <1>1, <1>2, SameKeepsValues
<1>3. CASE /\ Free /\ memtable' = [memtable EXCEPT ![pending[th].key] = Empty]
           /\ Wrote(pending[th].key, Empty) /\ DelReturn(th)
  <2>1. pending[th].key \in Keys
    BY <1>3 DEF DelReturn, PendingKeys
  <2>2. up
    BY <1>3 DEF Free
  <2> QED
    BY <1>1, <1>3, <2>1, <2>2, WriteKeepsValues
<1> QED
  BY <1>2, <1>3 DEF GetReturn, DelReturn

LEMMA ResetKeepsValues ==
  ASSUME Faithful, Kept, reset
  PROVE  Faithful' /\ Kept'
<1>1. UNCHANGED <<file, index, up>> /\ up
  BY DEF reset, disk, Alone, Free
<1> SUFFICES ASSUME NEW k \in Keys \ rewritten'
             PROVE  /\ memtable'[k] = Absent /\ latest'[k] = Absent
                    /\ \A i \in DOMAIN index : file[index[i]][k] \in {Absent, Unreadable}
  BY <1>1 DEF Faithful, Kept, Saved
<1>2. k \notin rewritten /\ latest[k] = Absent
  BY DEF reset
<1> QED
  BY <1>2 DEF reset, NoContents, Faithful

LEMMA CrashKeepsValues ==
  ASSUME Faithful, Kept, Crash
  PROVE  Faithful' /\ Kept'
<1>1. UNCHANGED <<file, index>> /\ ~up'
  BY DEF Crash, disk
<1> SUFFICES ASSUME NEW k \in Keys \ rewritten'
             PROVE  /\ \A i \in DOMAIN index : file[index[i]][k] \in {Absent, Unreadable, latest'[k]}
                    /\ latest'[k] # Absent => k \in Saved
  BY <1>1 DEF Faithful, Kept, Saved
<1>2. latest'[k] = CASE k \notin Saved -> Absent
                     [] k \in Saved \cap rewritten -> Unknown
                     [] OTHER -> latest[k]
  BY DEF Crash
<1>3. k \in Saved => k \notin rewritten
  BY DEF Crash
<1>4. CASE k \notin Saved
  BY <1>2, <1>4 DEF Saved
<1>5. CASE k \in Saved
  <2>1. latest'[k] = latest[k] /\ k \in Keys \ rewritten
    BY <1>2, <1>3, <1>5
  <2> QED
    BY <1>5, <2>1 DEF Faithful, Saved
<1> QED
  BY <1>4, <1>5

\* The file of the next table is opened: what is overwritten is not claimed.
LEMMA OpenTableKeepsValues ==
  ASSUME DiskInv, Faithful, Kept, OpenTable
  PROVE  Faithful' /\ Kept'
<1>1. /\ up /\ ssts = index /\ UNCHANGED <<index, up, memtable, latest>>
      /\ rewritten' = rewritten \cup Overwritten /\ file' = [file EXCEPT ![no] = Partial]
  BY DEF OpenTable, DiskInv, Listing
<1>2. /\ no \in Numbers /\ file \in [Numbers -> Contents \cup {Partial}]
      /\ \A i \in DOMAIN index : index[i] \in Numbers
  BY DirectoryTypes DEF DiskInv
<1>3. \A i \in DOMAIN index : file'[index[i]] = IF index[i] = no THEN Partial ELSE file[index[i]]
  BY <1>1, <1>2
<1>4. \A k \in Keys : Partial[k] = Unreadable
  BY DEF Partial
<1>5. Faithful'
  BY <1>1, <1>3, <1>4 DEF Faithful
<1>6. ASSUME NEW k \in Keys, k \in Saved, k \notin Overwritten
      PROVE  k \in Saved'
  <2>1. PICK i \in DOMAIN index : file[index[i]][k] \notin {Absent, Unreadable}
    BY <1>6 DEF Saved
  <2>2. index[i] # no
    BY <1>1, <1>6, <2>1 DEF Overwritten
  <2>3. file'[index'[i]][k] \notin {Absent, Unreadable} /\ i \in DOMAIN index'
    BY <1>1, <1>3, <2>1, <2>2
  <2> QED
    BY <2>3 DEF Saved
<1>7. Kept'
  BY <1>1, <1>6 DEF Kept
<1> QED
  BY <1>5, <1>7

\* The file of the next table is written, also where the index names it.
LEMMA create_sstableKeepsValues ==
  ASSUME DiskInv, Faithful, Kept, create_sstable
  PROVE  Faithful' /\ Kept'
<1>1. /\ up /\ UNCHANGED <<index, up, memtable, latest, rewritten>> /\ file[no] = Partial
      /\ file' = [file EXCEPT ![no] = memtable]
  BY DEF create_sstable, DiskInv, Listing
<1>2. /\ no \in Numbers /\ file \in [Numbers -> Contents \cup {Partial}]
      /\ \A i \in DOMAIN index : index[i] \in Numbers
  BY DirectoryTypes DEF DiskInv
<1>3. \A i \in DOMAIN index : file'[index[i]] = IF index[i] = no THEN memtable ELSE file[index[i]]
  BY <1>1, <1>2
<1>4. Faithful'
  BY <1>1, <1>3 DEF Faithful
<1>5. ASSUME NEW k \in Keys, k \in Saved
      PROVE  k \in Saved'
  <2>1. PICK i \in DOMAIN index : file[index[i]][k] \notin {Absent, Unreadable}
    BY <1>5 DEF Saved
  <2>2. index[i] # no
    BY <1>1, <2>1 DEF Partial
  <2>3. file'[index'[i]][k] \notin {Absent, Unreadable} /\ i \in DOMAIN index'
    BY <1>1, <1>3, <2>1, <2>2
  <2> QED
    BY <2>3 DEF Saved
<1>6. Kept'
  BY <1>1, <1>5 DEF Kept
<1> QED
  BY <1>4, <1>6

LEMMA AddKeepsValues ==
  ASSUME DiskInv, Faithful, Kept, Add
  PROVE  Faithful' /\ Kept'
<1>0. TypeOK
  BY DEF DiskInv
<1>1. CASE OpenTable \/ create_sstable
  BY <1>1, OpenTableKeepsValues, create_sstableKeepsValues
<1>4. memtable \in Contents /\ \A k \in Keys : memtable[k] # Unreadable
  BY <1>0, KVAssumption DEF TypeOK, Contents, Empty, Absent, Unreadable
<1>2. CASE SaveIndex
  <2>1. up /\ UNCHANGED <<file, up, memtable, latest, rewritten>> /\ index' = ssts /\ adder.stage = "index"
    BY <1>2 DEF SaveIndex
  <2>2. ssts = Append(index, no) /\ file[no] = memtable
    BY <2>1 DEF DiskInv, Listing
  <2>3. index \in Seq(Numbers) /\ no \in Numbers
    BY <1>0, DirectoryTypes
  <2>4. /\ DOMAIN index \subseteq DOMAIN index'
        /\ \A i \in DOMAIN index : index'[i] = index[i]
        /\ \A i \in DOMAIN index' \ DOMAIN index : index'[i] = no
    BY <2>1, <2>2, <2>3
  <2> QED
    BY <2>1, <2>2, <2>4, MoveKeepsValues
<1>3. CASE SaveMeta
  <2>1. /\ up /\ UNCHANGED <<file, index, latest, rewritten>> /\ adder.stage = "meta"
        /\ memtable' = IF adder.call = "put" THEN NoContents ELSE memtable
    BY <1>3 DEF SaveMeta
  <2>2. file[no] = memtable /\ \E i \in DOMAIN index : index[i] = no
    BY <2>1 DEF DiskInv, Listing
  <2>3. \A k \in Keys : memtable[k] # Absent => k \in Saved'
    BY <1>4, <2>1, <2>2 DEF Saved
  <2>4. \A k \in Keys : memtable'[k] \in {Absent, memtable[k]}
    BY <2>1 DEF NoContents
  <2> QED
    BY <2>1, <2>3, <2>4, MoveKeepsValues
<1> QED
  BY <1>1, <1>2, <1>3 DEF Add

\* The store is closed or opened.
LEMMA ProcessKeepsValues ==
  ASSUME Faithful, Kept, Close \/ Open
  PROVE  Faithful' /\ Kept'
<1>1. UNCHANGED <<file, index, latest, rewritten>>
  BY DEF Close, Open, disk
<1>2. CASE Close
  <2>1. CASE empty /\ up' = FALSE
    <3>1. \A k \in Keys : memtable[k] = Absent
      BY <2>1 DEF empty, NoContents
    <3> QED
      BY <1>1, <2>1, <3>1, MoveKeepsValues
  <2>2. CASE UNCHANGED up
    BY <1>2, <2>2, SameKeepsValues DEF Close, disk
  <2> QED
    BY <1>2, <2>1, <2>2 DEF Close
<1>3. CASE Open
  <2>1. ~up /\ up' /\ \A k \in Keys : memtable'[k] = Absent
    BY <1>3 DEF Open, NoContents
  <2> QED
    BY <1>1, <2>1, MoveKeepsValues
<1> QED
  BY <1>2, <1>3

LEMMA ValuesStep ==
  ASSUME DiskInv, PendingKeys, Faithful, Kept, [Next]_vars
  PROVE  Faithful' /\ Kept'
<1>1. CASE flush \/ UNCHANGED vars
  <2>1. UNCHANGED <<disk, up, memtable, latest, rewritten>>
    BY <1>1 DEF flush, vars, disk
  <2> QED
    BY <2>1, SameKeepsValues
<1> QED
  BY <1>1, CallKeepsValues, ReturnKeepsValues, ResetKeepsValues, CrashKeepsValues, AddKeepsValues,
     ProcessKeepsValues DEF Next

(***************************************************************************)
(* Searches and the answers of get.                                        *)
(***************************************************************************)

\* A thread's call ends, or begins with a key that no other call may disturb.
LEMMA CallKeepsSearches ==
  ASSUME DiskInv, PendingKeys, Searches, RowLocks, NEW th \in Threads, Call(th)
  PROVE  Searches' /\ RowLocks'
<1>0. /\ pending \in [Threads -> Pendings] /\ memtable \in Contents
      /\ adder.stage \in {"none", "open"} /\ pending[th] = NoCall
  <2>1. Free /\ Idle(th)
    BY DEF Call, put, get, del, delTxn
  <2> QED
    BY <2>1 DEF DiskInv, TypeOK, Pendings, Free, Idle, NoAdd
<1>1. adder'.stage \in {"none", "open"}
  BY <1>0 DEF Call, put, get, del, delTxn
<1>2. ASSUME UNCHANGED pending, NEW k \in Keys, MayWrite(th, k), NEW m, memtable' = [memtable EXCEPT ![k] = m]
      PROVE  Searches' /\ RowLocks'
  <2>1. \A t \in Threads : pending[t].op = "get" => pending[t].key \in Keys /\ pending[t].key # k
    BY <1>0, <1>2 DEF MayWrite, PendingKeys, NoCall
  <2>2. \A t \in Threads : pending[t].op = "get" => memtable'[pending[t].key] = memtable[pending[t].key]
    BY <1>0, <1>2, <2>1 DEF Contents
  <2> QED
    BY <1>1, <1>2, <2>2 DEF Searches, RowLocks
<1>3. ASSUME NEW k \in Keys, NEW op \in {"get", "del"}, UNCHANGED memtable, ~contains(k),
             pending' = [pending EXCEPT ![th] = [op |-> op, key |-> k]],
             IF op = "get" THEN MayRead(th, k) ELSE MayWrite(th, k)
      PROVE  Searches' /\ RowLocks'
  <2>1. pending'[th].op = op /\ pending'[th].key = k /\ \A t \in Threads \ {th} : pending'[t] = pending[t]
    BY <1>0, <1>3
  <2>2. Searches'
    BY <1>1, <1>3, <2>1 DEF Searches, contains
  <2>3. \A t \in Threads \ {th} : pending[t].key = k => op = "get" /\ pending[t].op = "get"
    BY <1>3 DEF MayRead, MayWrite
  <2>4. RowLocks'
    <3> SUFFICES ASSUME NEW a \in Threads, NEW b \in Threads, a # b,
                        pending'[a].key = pending'[b].key, pending'[a].key \in Keys
                 PROVE  pending'[a].op \in {"get", "torn get"}
      BY DEF RowLocks
    <3>1. CASE a = th \/ b = th
      BY <2>1, <2>3, <3>1
    <3>2. CASE a # th /\ b # th
      BY <2>1, <3>2 DEF RowLocks
    <3> QED
      BY <3>1, <3>2
  <2> QED
    BY <2>2, <2>4
<1>4. ASSUME UNCHANGED <<pending, memtable>>
      PROVE  Searches' /\ RowLocks'
  BY <1>1, <1>4 DEF Searches, RowLocks
<1>5. ASSUME NEW k \in Keys, NEW v \in Values \cup {Empty}, put(th, k, v)
      PROVE  Searches' /\ RowLocks'
  BY <1>2, <1>5 DEF put
<1>6. ASSUME NEW k \in Keys, get(th, k)
      PROVE  Searches' /\ RowLocks'
  BY <1>3, <1>4, <1>6 DEF get
<1>7. ASSUME NEW k \in Keys, del(th, k)
      PROVE  Searches' /\ RowLocks'
  BY <1>2, <1>3, <1>7 DEF del
<1>8. ASSUME NEW k \in Keys, delTxn(th, k)
      PROVE  Searches' /\ RowLocks'
  BY <1>2, <1>8 DEF delTxn
<1> QED
  BY <1>5, <1>6, <1>7, <1>8 DEF Call

LEMMA ReturnKeepsSearches ==
  ASSUME DiskInv, PendingKeys, Searches, RowLocks, NEW th \in Threads, GetReturn(th) \/ DelReturn(th)
  PROVE  Searches' /\ RowLocks'
<1>0. pending \in [Threads -> Pendings] /\ memtable \in Contents
  BY DEF DiskInv, TypeOK, Pendings
<1>1. UNCHANGED adder /\ pending' = [pending EXCEPT ![th] = NoCall]
  BY DEF GetReturn, DelReturn
<1>2. /\ pending'[th].op = "none" /\ pending'[th].key = "none"
      /\ \A t \in Threads \ {th} : pending'[t] = pending[t]
  BY <1>0, <1>1 DEF NoCall
<1>3. "none" \notin Keys
  BY KVAssumption
<1>4. RowLocks'
  BY <1>2, <1>3 DEF RowLocks
<1>5. CASE UNCHANGED memtable
  BY <1>1, <1>2, <1>4, <1>5 DEF Searches
<1>6. CASE DelReturn(th) /\ memtable' = [memtable EXCEPT ![pending[th].key] = Empty]
  <2>1. pending[th].op \notin {"get", "torn get"} /\ pending[th].key \in Keys
    BY <1>6 DEF DelReturn, PendingKeys
  <2>2. \A t \in Threads \ {th} : pending[t].op = "get" => pending[t].key \in Keys /\ pending[t].key # pending[th].key
    BY <2>1 DEF RowLocks, PendingKeys
  <2>3. \A t \in Threads \ {th} : pending[t].op = "get" => memtable'[pending[t].key] = memtable[pending[t].key]
    BY <1>0, <1>6, <2>2 DEF Contents
  <2> QED
    BY <1>1, <1>2, <1>4, <2>3 DEF Searches
<1> QED
  BY <1>5, <1>6 DEF GetReturn, DelReturn

LEMMA AddKeepsSearches ==
  ASSUME DiskInv, PendingKeys, Searches, RowLocks, Add
  PROVE  Searches' /\ RowLocks'
<1>0. pending \in [Threads -> Pendings] /\ adder \in Adders
  BY DEF DiskInv, TypeOK, Pendings, Adders
<1>1. CASE OpenTable
  <2>1. \A t \in Threads : pending'[t] = CASE pending[t].op = "get" -> [pending[t] EXCEPT !.op = "torn get"]
                                           [] pending[t].op = "del" -> [pending[t] EXCEPT !.op = "torn del"]
                                           [] OTHER -> pending[t]
    BY <1>1 DEF OpenTable
  <2>2. \A t \in Threads : /\ pending'[t].key = pending[t].key
                           /\ pending'[t].op \notin {"get", "del"}
                           /\ pending[t].op \in {"get", "torn get"} => pending'[t].op \in {"get", "torn get"}
    BY <1>0, <2>1 DEF Pendings
  <2> QED
    BY <2>2 DEF Searches, RowLocks
<1>2. CASE create_sstable \/ SaveIndex \/ SaveMeta
  <2>1. UNCHANGED pending /\ adder.stage \notin {"none", "open"}
    BY <1>2 DEF create_sstable, SaveIndex, SaveMeta
  <2>2. \A t \in Threads : pending[t].op \notin {"get", "del"}
    BY <2>1 DEF Searches
  <2> QED
    BY <2>1, <2>2 DEF Searches, RowLocks
<1> QED
  BY <1>1, <1>2 DEF Add

\* Nobody searches when the store is reset, flushed, closed or opened.
LEMMA AloneKeepsSearches ==
  ASSUME PendingKeys, Searches, RowLocks, reset \/ flush \/ Close \/ Crash
  PROVE  Searches' /\ RowLocks'
<1>1. \A t \in Threads : pending'[t] = NoCall
  BY DEF reset, flush, Close, Crash, Alone, Idle
<1>2. \A t \in Threads : pending'[t].op = "none" /\ pending'[t].key \notin Keys
  BY <1>1, KVAssumption DEF NoCall
<1> QED
  BY <1>2 DEF Searches, RowLocks

LEMMA OpenKeepsSearches ==
  ASSUME PendingKeys, Searches, RowLocks, Open
  PROVE  Searches' /\ RowLocks'
<1>1. UNCHANGED pending /\ adder'.stage = "none" /\ memtable' = NoContents
  BY DEF Open, NoAdd
<1>2. \A t \in Threads : pending[t].op = "get" => memtable'[pending[t].key] = Absent
  BY <1>1 DEF PendingKeys, NoContents
<1> QED
  BY <1>1, <1>2 DEF Searches, RowLocks

LEMMA SearchesStep ==
  ASSUME DiskInv, PendingKeys, Searches, RowLocks, [Next]_vars
  PROVE  Searches' /\ RowLocks'
<1>1. CASE UNCHANGED vars
  BY <1>1 DEF vars, Searches, RowLocks
<1> QED
  BY <1>1, CallKeepsSearches, ReturnKeepsSearches, AddKeepsSearches, AloneKeepsSearches, OpenKeepsSearches
  DEF Next

LessThan == {ss \in Nat \X Nat : ss[1] < ss[2]}

LEMMA LessThanWellFounded ==
  IsWellFoundedOn(LessThan, Nat)
BY NatLessThanWellFounded DEF OpToRel, LessThan

\* Some element of a set of naturals is its least.
LEMMA LeastOne ==
  ASSUME NEW S \in SUBSET Nat, S # {}
  PROVE  Min(S) \in S
<1>1. PICK m \in S : \A y \in S : <<y, m>> \notin LessThan
  BY LessThanWellFounded, WFMin
<1>2. \A y \in S : m <= y
  <2>1. ASSUME NEW y \in S, y < m PROVE FALSE
    <3>1. <<y, m>> \in Nat \X Nat
      OBVIOUS
    <3>2. <<y, m>>[1] < <<y, m>>[2]
      BY <2>1
    <3>3. <<y, m>> \in LessThan
      BY <3>1, <3>2, Zenon DEF LessThan
    <3> QED
      BY <1>1, <3>3
  <2>2. m \in Nat /\ \A y \in S : y \in Nat
    OBVIOUS
  <2> QED
    BY <2>1, <2>2
<1> QED
  BY <1>1, <1>2 DEF Min

\* A search that no addition overlaps finds the value of a key written once.
LEMMA SearchFinds ==
  ASSUME DiskInv, Faithful, Kept, up, adder.stage \in {"none", "open"},
         NEW k \in Keys, k \notin rewritten, memtable[k] = Absent
  PROVE  search(k) \in {Unreadable, latest[k]}
<1> DEFINE hits == {i \in DOMAIN ssts : file[ssts[i]][k] # Absent}
<1>0. ssts = index /\ ssts \in Seq(Numbers)
  BY DEF DiskInv, Listing, TypeOK
<1>1. \A i \in hits : file[ssts[i]][k] \in {Unreadable, latest[k]}
  BY <1>0 DEF Faithful
<1>2. latest[k] # Absent => hits # {}
  BY <1>0 DEF Kept, Saved
<1>3. hits # {} => Min(hits) \in hits
  <2>1. hits \in SUBSET Nat
    BY <1>0
  <2> QED
    BY <2>1, LeastOne
<1>4. search(k) = IF hits = {} THEN Absent ELSE file[ssts[Min(hits)]][k]
  BY DEF search
<1> QED
  BY <1>1, <1>2, <1>3, <1>4

LEMMA AnswerStep ==
  ASSUME DiskInv, PendingKeys, ReadInv, [Next]_vars
  PROVE  OnceWrittenReadBack'
<1>0. Faithful /\ Kept /\ Searches /\ OnceWrittenReadBack
  BY DEF ReadInv
<1>1. ASSUME reply' = NoReply
      PROVE  OnceWrittenReadBack'
  BY <1>1, KVAssumption DEF OnceWrittenReadBack, NoReply
<1>2. ASSUME NEW th \in Threads, NEW k \in Keys, get(th, k)
      PROVE  OnceWrittenReadBack'
  <2>1. CASE reply' = NoReply
    BY <1>1, <2>1
  <2>2. CASE contains(k) /\ reply' = [key |-> k, value |-> Answer(memtable[k]), torn |-> FALSE]
    <3>1. up /\ UNCHANGED <<latest, rewritten>>
      BY <1>2 DEF get, Free
    <3>2. k \notin rewritten => memtable[k] = latest[k]
      BY <1>0, <2>2, <3>1 DEF Faithful, contains
    <3> QED
      BY <2>2, <3>1, <3>2 DEF OnceWrittenReadBack, Answer
  <2> QED
    BY <1>2, <2>1, <2>2 DEF get
<1>3. ASSUME NEW th \in Threads, GetReturn(th)
      PROVE  OnceWrittenReadBack'
  <2>1. PICK raw \in SearchResult(th) :
          reply' = [key |-> pending[th].key, value |-> Answer(raw),
                    torn |-> pending[th].op = "torn get" \/ search(pending[th].key) = Unreadable]
    BY <1>3 DEF GetReturn
  <2>2. up /\ UNCHANGED <<latest, rewritten>> /\ pending[th].op \in {"get", "torn get"}
    BY <1>3 DEF GetReturn
  <2>3. CASE pending[th].op = "torn get" \/ search(pending[th].key) = Unreadable
    <3>1. reply'.torn
      BY <2>1, <2>3
    <3> QED
      BY <3>1 DEF OnceWrittenReadBack
  <2>4. CASE pending[th].op = "get" /\ search(pending[th].key) # Unreadable
    <3>1. raw = search(pending[th].key) /\ reply'.key = pending[th].key /\ reply'.value = Answer(raw)
      BY <2>1, <2>4 DEF SearchResult, Searched
    <3>2. pending[th].key \in Keys /\ adder.stage \in {"none", "open"} /\ memtable[pending[th].key] = Absent
      BY <1>0, <2>4 DEF Searches, PendingKeys
    <3>3. pending[th].key \notin rewritten => search(pending[th].key) = latest[pending[th].key]
      BY <1>0, <2>2, <2>4, <3>2, SearchFinds
    <3> QED
      BY <2>2, <3>1, <3>3 DEF OnceWrittenReadBack
  <2> QED
    BY <2>2, <2>3, <2>4
<1>4. ASSUME NEW th \in Threads, Call(th) \/ DelReturn(th)
      PROVE  OnceWrittenReadBack'
  <2>1. CASE reply' = NoReply
    BY <1>1, <2>1
  <2>2. CASE \E k \in Keys : get(th, k)
    BY <1>2, <2>2
  <2> QED
    BY <1>4, <2>1, <2>2 DEF Call, put, del, delTxn, DelReturn
<1>5. CASE reset \/ flush \/ Add \/ Close \/ Crash \/ Open
  BY <1>1, <1>5 DEF reset, flush, Add, OpenTable, create_sstable, SaveIndex, SaveMeta, Close, Crash, Open
<1>6. CASE UNCHANGED vars
  BY <1>0, <1>6 DEF vars, OnceWrittenReadBack
<1> QED
  BY <1>3, <1>4, <1>5, <1>6 DEF Next

LEMMA ReadInvInit ==
  Init => ReadInv
<1> SUFFICES ASSUME Init PROVE ReadInv
  OBVIOUS
<1>1. "none" \notin Keys /\ index = <<>> /\ DOMAIN index = {}
  BY KVAssumption DEF Init
<1>2. Faithful /\ Kept
  BY <1>1 DEF Init, Faithful, Kept, NoContents
<1>3. Searches /\ RowLocks /\ OnceWrittenReadBack
  BY <1>1 DEF Init, Searches, RowLocks, OnceWrittenReadBack, NoCall, NoReply
<1> QED
  BY <1>2, <1>3 DEF ReadInv

\* A key put once, and neither put nor deleted again, is answered with its
\* value by every get whose search no addition of a table overlapped and which
\* met no unfinished table: whichever of memtable and tables the value is in,
\* and over every move of a memtable to disk, closing, stop and opening, unless
\* the stop took it with the memtable, or came between the writes of index and
\* meta so that the next table overwrites that of the key.
THEOREM KeysReadBack ==
  Spec => []OnceWrittenReadBack
<1>1. Init => ReadInv
  BY ReadInvInit
<1>2. DiskInv /\ PendingKeys /\ ReadInv /\ [Next]_vars => ReadInv'
  BY ValuesStep, SearchesStep, AnswerStep DEF ReadInv
<1>3. ReadInv => OnceWrittenReadBack
  BY DEF ReadInv
<1> QED
  BY <1>1, <1>2, <1>3, DiskInvAlways, PTL DEF Spec
=============================================================================
