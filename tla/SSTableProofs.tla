--------------------------- MODULE SSTableProofs ---------------------------
(***************************************************************************)
(* A finished file answers like its memtable, its blocks lie side by side  *)
(* and its restart points can be used, for any keys, sizes of values and   *)
(* of blocks, restart interval and compression.                            *)
(***************************************************************************)
EXTENDS SSTable, SequenceTheorems, WellFoundedInduction, TLAPS

(***************************************************************************)
(* The inductive invariant.                                                *)
(***************************************************************************)

Entry == [at : Nat, key : Keys, value : Nat]
Place == [key : Keys, at : Nat, size : Nat \ {0}]

\* Keys that the iterator has passed.
Done == DOMAIN memtable \ todo

\* Entries of the memtable for some of the keys, in their order, one behind
\* the other.
Filled(s, size, keys) ==
  /\ s \in Seq(Entry) /\ size \in Nat
  /\ \A i \in 1..Len(s) : s[i].key \in keys /\ s[i].value = memtable[s[i].key]
  /\ \A i, j \in 1..Len(s) : i < j => /\ s[i].key < s[j].key
                                      /\ s[i].at + EntrySize(s[i].value) <= s[j].at
  /\ \A i \in 1..Len(s) : s[i].at + EntrySize(s[i].value) <= size
  /\ s # <<>> => s[Len(s)].at + EntrySize(s[Len(s)].value) = size

\* Where the j-th restart interval begins.
Start(j) == (j - 1) * RESTART_INTERVAL + 1

Starts(s, points) ==
  /\ points \in Seq(Nat) /\ points # <<>>
  /\ \A j \in 1..Len(points) : Start(j) \in 1..Len(s) /\ s[Start(j)].at = points[j]

GoodBlock(block, keys) ==
  /\ block.entries # <<>>
  /\ Filled(block.entries, block.restart_offset, keys)
  /\ Starts(block.entries, block.restarts)

\* The block under construction; its last interval has counter entries.
Building(s, size, points, count, keys) ==
  /\ Filled(s, size, keys) /\ s # <<>>
  /\ Starts(s, points)
  /\ count \in 1..RESTART_INTERVAL /\ Len(s) + 1 = Start(Len(points)) + count

BuilderOK ==
  \/ buffer = <<>> /\ bytes = 0 /\ restarts = <<0>> /\ counter = 0
  \/ Building(buffer, bytes, restarts, counter, Done) /\ last_key = buffer[Len(buffer)].key

\* The index: blocks side by side, up to End, with their last keys.
End == IF indexblock = <<>> THEN 0 ELSE Last(indexblock).at + Last(indexblock).size

IndexOK ==
  /\ indexblock \in Seq(Place)
  /\ \A i \in 1..Len(indexblock) :
       /\ indexblock[i].at = IF i = 1 THEN 0 ELSE indexblock[i-1].at + indexblock[i-1].size
       /\ indexblock[i].key \in Done
       /\ indexblock[i].at + indexblock[i].size <= End
  /\ \A i, j \in 1..Len(indexblock) : i < j =>
       /\ indexblock[i].key < indexblock[j].key
       /\ indexblock[i].at + indexblock[i].size <= indexblock[j].at

\* The i-th block is in the file: it ends with the key in the index and holds
\* larger keys than the blocks before.
Stored(b, i) ==
  /\ b.size = indexblock[i].size
  /\ GoodBlock(b.block, Done)
  /\ b.block.entries[Len(b.block.entries)].key = indexblock[i].key
  /\ \A e \in 1..Len(b.block.entries) : \A j \in 1..(i - 1) :
       indexblock[j].key < b.block.entries[e].key

FileOK ==
  /\ \A b, c \in file : b.at = c.at => b = c
  /\ \A b \in file : \E i \in 1..Len(indexblock) : b.at = indexblock[i].at
  /\ \A i \in 1..Len(indexblock) : \E b \in file : b.at = indexblock[i].at
  /\ \A b \in file, i \in 1..Len(indexblock) : b.at = indexblock[i].at => Stored(b, i)

\* Every key passed is in the buffer or in a block; those in the buffer come
\* after the blocks, those to come after all.
Cover ==
  /\ \A k \in Done : \/ \E i \in 1..Len(buffer) : buffer[i].key = k
                     \/ \E b \in file : \E i \in 1..Len(b.block.entries) : b.block.entries[i].key = k
  /\ \A i \in 1..Len(indexblock), j \in 1..Len(buffer) : indexblock[i].key < buffer[j].key
  /\ \A k \in Done, l \in todo : k < l

Ends ==
  /\ IF Finished THEN todo = {} /\ buffer = <<>> /\ footer[1] = End ELSE offset = End
  /\ DOMAIN memtable # {} /\ DOMAIN memtable \subseteq Keys /\ todo \subseteq DOMAIN memtable
  /\ memtable \in [DOMAIN memtable -> ValueSizes]

TableInv == BuilderOK /\ IndexOK /\ FileOK /\ Cover /\ Ends

(***************************************************************************)
(* Numbers.                                                                *)
(***************************************************************************)

LessThan == {p \in Nat \X Nat : p[1] < p[2]}

\* Some element of a set of naturals is its least.
LEMMA LeastOne ==
  ASSUME NEW S \in SUBSET Nat, S # {}
  PROVE  Min(S) \in S /\ \A y \in S : Min(S) <= y
<1>0. IsWellFoundedOn(LessThan, Nat)
  BY NatLessThanWellFounded DEF OpToRel, LessThan
<1>1. PICK m \in S : \A y \in S : <<y, m>> \notin LessThan
  BY <1>0, WFMin
<1>2. \A y \in S : m <= y
  <2>1. ASSUME NEW y \in S, y < m PROVE FALSE
    <3>1. <<y, m>> \in Nat \X Nat /\ <<y, m>>[1] < <<y, m>>[2]
      BY <2>1
    <3>2. <<y, m>> \in LessThan
      BY <3>1, Zenon DEF LessThan
    <3> QED
      BY <1>1, <3>2
  <2>2. m \in Nat /\ \A y \in S : y \in Nat
    OBVIOUS
  <2> QED
    BY <2>1, <2>2
<1> QED
  BY <1>1, <1>2 DEF Min

LEMMA Sizes ==
  /\ Word \in Nat /\ RESTART_INTERVAL \in Nat \ {0} /\ Keys \subseteq Nat
  /\ \A v \in Nat : EntrySize(v) \in Nat /\ EntrySize(v) > 0
BY SSTableAssumption DEF EntrySize, Keys

\* Restart intervals follow one another.
LEMMA StartNext ==
  ASSUME NEW j \in Nat \ {0}
  PROVE  Start(j) \in Nat /\ Start(1) = 1 /\ Start(j + 1) = Start(j) + RESTART_INTERVAL
<1>1. RESTART_INTERVAL \in Nat
  BY Sizes
<1>2. (j + 1 - 1) * RESTART_INTERVAL = (j - 1) * RESTART_INTERVAL + RESTART_INTERVAL
  BY <1>1
<1>3. (j - 1) * RESTART_INTERVAL \in Nat /\ (1 - 1) * RESTART_INTERVAL = 0
  BY <1>1
<1> QED
  BY <1>1, <1>2, <1>3 DEF Start

(***************************************************************************)
(* One entry more in the block.                                            *)
(***************************************************************************)

LEMMA NextKey ==
  ASSUME TableInv, todo # {}, NEW key, key = Min(todo)
  PROVE  /\ key \in todo /\ key \in DOMAIN memtable /\ key \in Keys /\ key \in Nat
         /\ memtable[key] \in Nat
         /\ \A k \in Done : k \in Nat /\ k < key
         /\ \A k \in todo : k \in Nat /\ key <= k
<1>1. todo \in SUBSET Nat /\ Done \subseteq Nat /\ todo \subseteq Keys
  BY Sizes DEF TableInv, Ends, Done
<1>2. key \in todo /\ \A k \in todo : key <= k
  BY <1>1, LeastOne
<1>3. memtable[key] \in Nat
  BY <1>2, SSTableAssumption DEF TableInv, Ends
<1> QED
  BY <1>1, <1>2, <1>3 DEF TableInv, Cover, Ends

LEMMA Filling ==
  ASSUME TableInv, todo # {}, NEW key, key = Min(todo)
  PROVE  LET entries == Append(buffer, [at |-> bytes, key |-> key, value |-> memtable[key]])
         IN  /\ Filled(entries, bytes + EntrySize(memtable[key]), Done \cup {key})
             /\ entries # <<>> /\ Len(entries) = Len(buffer) + 1 /\ entries[Len(entries)].key = key
             /\ \A i \in 1..Len(buffer) : entries[i] = buffer[i]
             /\ entries[Len(buffer) + 1].at = bytes
<1> DEFINE e == [at |-> bytes, key |-> key, value |-> memtable[key]]
           entries == Append(buffer, e)
           size == bytes + EntrySize(memtable[key])
<1>1. /\ key \in Keys /\ key \in Nat /\ memtable[key] \in Nat
      /\ \A k \in Done : k \in Nat /\ k < key
  BY NextKey
<1>2. EntrySize(memtable[key]) \in Nat /\ EntrySize(memtable[key]) > 0
  BY <1>1, Sizes
<1>3. /\ buffer \in Seq(Entry) /\ bytes \in Nat
      /\ \A i \in 1..Len(buffer) : buffer[i].key \in Done /\ buffer[i].value = memtable[buffer[i].key]
      /\ \A i, j \in 1..Len(buffer) : i < j => /\ buffer[i].key < buffer[j].key
                                               /\ buffer[i].at + EntrySize(buffer[i].value) <= buffer[j].at
      /\ \A i \in 1..Len(buffer) : buffer[i].at + EntrySize(buffer[i].value) <= bytes
  <2>1. CASE buffer = <<>> /\ bytes = 0
    BY <2>1
  <2>2. CASE Filled(buffer, bytes, Done)
    BY <2>2 DEF Filled
  <2> QED
    BY <2>1, <2>2 DEF TableInv, BuilderOK, Building
<1>4. e \in Entry /\ e.at = bytes /\ e.key = key /\ e.value = memtable[key]
  BY <1>1, <1>3 DEF Entry
<1>5. /\ entries \in Seq(Entry) /\ Len(entries) = Len(buffer) + 1
      /\ \A i \in 1..Len(buffer) : entries[i] = buffer[i]
      /\ entries[Len(buffer) + 1] = e
  BY <1>3, <1>4
<1> HIDE DEF e, entries
<1>6. \A i \in 1..Len(entries) : entries[i].key \in Done \cup {key} /\ entries[i].value = memtable[entries[i].key]
  BY <1>3, <1>4, <1>5
<1>7. \A i, j \in 1..Len(entries) : i < j => /\ entries[i].key < entries[j].key
                                             /\ entries[i].at + EntrySize(entries[i].value) <= entries[j].at
  <2>1. ASSUME NEW i \in 1..Len(entries), NEW j \in 1..Len(entries), i < j
        PROVE  /\ entries[i].key < entries[j].key
               /\ entries[i].at + EntrySize(entries[i].value) <= entries[j].at
    <3>1. Len(buffer) \in Nat /\ i \in 1..Len(buffer) /\ entries[i] = buffer[i]
      BY <1>3, <1>5, <2>1
    <3>2. CASE j \in 1..Len(buffer)
      BY <1>3, <1>5, <2>1, <3>1, <3>2
    <3>3. CASE j = Len(buffer) + 1
      BY <1>1, <1>3, <1>4, <1>5, <3>1, <3>3
    <3> QED
      BY <1>5, <3>1, <3>2, <3>3
  <2> QED
    BY <2>1
<1>8. \A i \in 1..Len(entries) : entries[i].at + EntrySize(entries[i].value) <= size
  <2>1. ASSUME NEW i \in 1..Len(buffer) PROVE entries[i].at + EntrySize(entries[i].value) <= size
    <3>1. buffer[i] \in Entry
      BY <1>3
    <3>2. buffer[i].at \in Nat /\ EntrySize(buffer[i].value) \in Nat
      BY <3>1, Sizes DEF Entry
    <3> QED
      BY <1>2, <1>3, <1>5, <3>2
  <2> QED
    BY <1>2, <1>3, <1>4, <1>5, <2>1
<1>9. entries # <<>> /\ entries[Len(entries)].at + EntrySize(entries[Len(entries)].value) = size
  BY <1>3, <1>4, <1>5
<1>10. Filled(entries, size, Done \cup {key})
  BY <1>2, <1>3, <1>5, <1>6, <1>7, <1>8, <1>9 DEF Filled
<1> QED
  BY <1>3, <1>4, <1>5, <1>9, <1>10 DEF e, entries

LEMMA Extended ==
  ASSUME TableInv, todo # {}, NEW key, key = Min(todo)
  PROVE  LET entries == Append(buffer, [at |-> bytes, key |-> key, value |-> memtable[key]])
         IN  Building(entries, bytes + EntrySize(memtable[key]), RestartPoints, NextCounter, Done \cup {key})
<1> DEFINE entries == Append(buffer, [at |-> bytes, key |-> key, value |-> memtable[key]])
           size == bytes + EntrySize(memtable[key])
<1>1. /\ Filled(entries, size, Done \cup {key})
      /\ entries # <<>> /\ Len(entries) = Len(buffer) + 1
      /\ \A i \in 1..Len(buffer) : entries[i] = buffer[i]
      /\ entries[Len(buffer) + 1].at = bytes
  BY Filling
<1>2. RESTART_INTERVAL \in Nat \ {0} /\ Start(1) = 1
  BY Sizes, StartNext
<1> SUFFICES Building(entries, size, RestartPoints, NextCounter, Done \cup {key})
  OBVIOUS
<1> HIDE DEF entries, size
<1>3. CASE buffer = <<>> /\ bytes = 0 /\ restarts = <<0>> /\ counter = 0
  <2>1. RestartPoints = <<0>> /\ NextCounter = 1
    BY <1>2, <1>3 DEF RestartPoints, NextCounter
  <2>2. Starts(entries, <<0>>)
    BY <1>1, <1>2, <1>3 DEF Starts
  <2>3. Len(entries) + 1 = Start(Len(<<0>>)) + 1
    BY <1>1, <1>2, <1>3
  <2> QED
    BY <1>1, <1>2, <2>1, <2>2, <2>3 DEF Building
<1>4. CASE Building(buffer, bytes, restarts, counter, Done)
  <2>0. /\ restarts \in Seq(Nat) /\ restarts # <<>> /\ Len(restarts) \in Nat \ {0} /\ buffer \in Seq(Entry) /\ bytes \in Nat
        /\ \A j \in 1..Len(restarts) : Start(j) \in 1..Len(buffer) /\ buffer[Start(j)].at = restarts[j]
        /\ counter \in 1..RESTART_INTERVAL /\ Len(buffer) + 1 = Start(Len(restarts)) + counter
    BY <1>4 DEF Building, Starts, Filled
  <2>a. \A k \in 1..Len(buffer) : k \in 1..Len(entries) /\ entries[k] = buffer[k]
    BY <1>1, <2>0
  <2>b. \A j \in 1..Len(restarts) : Start(j) \in 1..Len(entries) /\ entries[Start(j)].at = restarts[j]
    BY <2>0, <2>a, Zenon
  <2>1. CASE counter = RESTART_INTERVAL
    <3>1. RestartPoints = Append(restarts, bytes) /\ NextCounter = 1
      BY <2>1 DEF RestartPoints, NextCounter
    <3>2. Start(Len(restarts) + 1) = Len(buffer) + 1
      BY <1>2, <2>0, <2>1, StartNext
    <3>3. Starts(entries, Append(restarts, bytes))
      <4> DEFINE points == Append(restarts, bytes)
      <4>1. /\ points \in Seq(Nat) /\ points # <<>> /\ Len(points) = Len(restarts) + 1
            /\ \A j \in 1..Len(restarts) : points[j] = restarts[j]
            /\ points[Len(restarts) + 1] = bytes
        BY <2>0
      <4> HIDE DEF points
      <4>2. ASSUME NEW j \in 1..Len(points)
            PROVE  Start(j) \in 1..Len(entries) /\ entries[Start(j)].at = points[j]
        <5>1. CASE j \in 1..Len(restarts)
          BY <2>b, <4>1, <5>1
        <5>2. CASE j = Len(restarts) + 1
          BY <1>1, <2>0, <3>2, <4>1, <5>2
        <5> QED
          BY <2>0, <4>1, <5>1, <5>2
      <4>3. Starts(entries, points)
        BY <4>1, <4>2 DEF Starts
      <4> QED
        BY <4>3 DEF points
    <3>4. Len(Append(restarts, bytes)) = Len(restarts) + 1
      BY <2>0
    <3>5. Len(entries) + 1 = Start(Len(Append(restarts, bytes))) + 1
      BY <1>1, <2>0, <3>2, <3>4
    <3> QED
      BY <1>1, <1>2, <3>1, <3>3, <3>5 DEF Building
  <2>2. CASE counter # RESTART_INTERVAL
    <3>1. RestartPoints = restarts /\ NextCounter = counter + 1
      BY <2>2 DEF RestartPoints, NextCounter
    <3>2. Starts(entries, restarts)
      BY <2>0, <2>b DEF Starts
    <3>3. Start(Len(restarts)) \in Nat
      BY <2>0, StartNext
    <3>4. /\ counter + 1 \in 1..RESTART_INTERVAL
          /\ Len(entries) + 1 = Start(Len(restarts)) + (counter + 1)
      <4>1. /\ Len(buffer) \in Nat /\ counter \in 1..RESTART_INTERVAL
            /\ Len(buffer) + 1 = Start(Len(restarts)) + counter
        BY <2>0
      <4>2. Len(entries) = Len(buffer) + 1
        BY <1>1
      <4> QED
        BY <1>2, <2>2, <3>3, <4>1, <4>2
    <3> QED
      BY <1>1, <3>1, <3>2, <3>4 DEF Building
  <2> QED
    BY <2>1, <2>2
<1> QED
  BY <1>3, <1>4 DEF TableInv, BuilderOK

(***************************************************************************)
(* A block is written.                                                     *)
(***************************************************************************)

LEMMA FilledMore ==
  ASSUME NEW s, NEW size, Filled(s, size, Done), memtable' = memtable, Done \subseteq Done'
  PROVE  Filled(s, size, Done)'
BY DEF Filled

LEMMA GoodMore ==
  ASSUME NEW b, GoodBlock(b, Done), memtable' = memtable, Done \subseteq Done'
  PROVE  GoodBlock(b, Done)'
BY FilledMore DEF GoodBlock, Starts

LEMMA Written ==
  ASSUME TableInv, ~Finished, UNCHANGED <<memtable, footer>>, todo' \subseteq todo,
         NEW entries, NEW size, NEW points, NEW count, NEW last,
         writeBlock(entries, size, points, last),
         Building(entries, size, points, count, Done'), entries[Len(entries)].key = last,
         \A i \in 1..Len(indexblock), j \in 1..Len(entries) : indexblock[i].key < entries[j].key,
         \A i \in 1..Len(buffer) : \E j \in 1..Len(entries) : entries[j].key = buffer[i].key,
         \A k \in Done' \ Done : \E j \in 1..Len(entries) : entries[j].key = k,
         \A k \in Done', l \in todo' : k < l
  PROVE  TableInv'
<1> DEFINE n == Len(indexblock)
<1>1. PICK c \in CompressedSizes :
        /\ file' = file \cup {[at |-> offset, size |-> c, block |-> BlockOf(entries, size, points)]}
        /\ indexblock' = Append(indexblock, [key |-> last, at |-> offset, size |-> c])
        /\ offset' = offset + c
  BY DEF writeBlock
<1> DEFINE place == [key |-> last, at |-> offset, size |-> c]
           new == [at |-> offset, size |-> c, block |-> BlockOf(entries, size, points)]
<1>2. c \in Nat \ {0} /\ Done \subseteq Done' /\ ~Finished'
  BY SSTableAssumption DEF Finished, Done
<1>3. indexblock \in Seq(Place) /\ n \in Nat /\ offset = End /\ offset \in Nat
  <2>1. indexblock # <<>> => Last(indexblock) \in Place
    BY DEF TableInv, IndexOK, Last
  <2>2. End \in Nat
    BY <2>1 DEF End, Place, TableInv, IndexOK
  <2> QED
    BY <2>2 DEF TableInv, IndexOK, Ends
<1>4. Filled(entries, size, Done') /\ entries \in Seq(Entry) /\ entries # <<>> /\ Len(entries) \in 1..Len(entries)
  BY DEF Building, Filled
<1>5. last \in Done' /\ last \in Keys
  <2>1. entries[Len(entries)] \in Entry
    BY <1>4
  <2> QED
    BY <1>4, <2>1 DEF Filled, Entry
<1>6. place \in Place /\ place.key = last /\ place.at = offset /\ place.size = c
  BY <1>2, <1>3, <1>5 DEF Place
<1>7. /\ indexblock' \in Seq(Place) /\ Len(indexblock') = n + 1
      /\ \A i \in 1..n : indexblock'[i] = indexblock[i]
      /\ indexblock'[n + 1] = place
  BY <1>1, <1>3, <1>6
<1>8. new.at = offset /\ new.size = c /\ new.block.entries = entries /\ new.block.restarts = points /\ new.block.restart_offset = size
  BY DEF BlockOf
<1>9. file' = file \cup {new}
  BY <1>1
<1> HIDE DEF place, new, n
<1>10. End' = offset + c
  <2>1. indexblock' # <<>> /\ Last(indexblock)' = place
    BY <1>3, <1>7 DEF Last
  <2> QED
    BY <1>6, <2>1 DEF End
<1>11. /\ \A i \in 1..n : /\ indexblock[i] \in Place /\ indexblock[i].key \in Done
                          /\ indexblock[i].at + indexblock[i].size <= offset
                          /\ indexblock[i].at = IF i = 1 THEN 0 ELSE indexblock[i-1].at + indexblock[i-1].size
       /\ \A i, j \in 1..n : i < j =>
            /\ indexblock[i].key < indexblock[j].key
            /\ indexblock[i].at + indexblock[i].size <= indexblock[j].at
  BY <1>3 DEF TableInv, IndexOK, n
<1>12. \A i \in 1..n : indexblock[i].key < last
  BY <1>4 DEF n
<1>13. IndexOK'
  <2>1. ASSUME NEW i \in 1..(n + 1)
        PROVE  /\ indexblock'[i].at = IF i = 1 THEN 0 ELSE indexblock'[i-1].at + indexblock'[i-1].size
               /\ indexblock'[i].key \in Done'
               /\ indexblock'[i].at + indexblock'[i].size <= End'
    <3>1. CASE i \in 1..n
      <4>1. indexblock[i].at \in Nat /\ indexblock[i].size \in Nat /\ indexblock[i].at + indexblock[i].size <= offset
        BY <1>11, <3>1 DEF Place
      <4>2. i # 1 => i - 1 \in 1..n
        BY <1>3, <3>1
      <4>3. indexblock'[i] = indexblock[i] /\ (i # 1 => indexblock'[i-1] = indexblock[i-1])
        BY <1>7, <3>1, <4>2
      <4>4. indexblock'[i].at = IF i = 1 THEN 0 ELSE indexblock'[i-1].at + indexblock'[i-1].size
        BY <1>11, <3>1, <4>3
      <4>5. indexblock'[i].key \in Done'
        BY <1>2, <1>11, <3>1, <4>3
      <4> QED
        BY <1>2, <1>3, <1>10, <4>1, <4>3, <4>4, <4>5
    <3>2. CASE i = n + 1
      <4>1. CASE n = 0
        <5>1. indexblock = <<>>
          BY <1>3, <4>1 DEF n
        <5>2. offset = 0
          BY <1>3, <5>1 DEF End
        <5> QED
          BY <1>2, <1>5, <1>6, <1>7, <1>10, <3>2, <4>1, <5>2
      <4>2. CASE n # 0
        <5>1. indexblock # <<>> /\ Last(indexblock) = indexblock[n] /\ n \in 1..n
          BY <1>3, <4>2 DEF n, Last
        <5>2. offset = indexblock[n].at + indexblock[n].size
          BY <1>3, <5>1 DEF End
        <5>3. indexblock'[i - 1] = indexblock[n] /\ indexblock'[i] = place /\ i # 1
          BY <1>3, <1>7, <3>2, <4>2, <5>1
        <5> QED
          BY <1>2, <1>3, <1>5, <1>6, <1>10, <5>2, <5>3
      <4> QED
        BY <4>1, <4>2
    <3> QED
      BY <1>3, <3>1, <3>2
  <2>2. ASSUME NEW i \in 1..(n + 1), NEW j \in 1..(n + 1), i < j
        PROVE  /\ indexblock'[i].key < indexblock'[j].key
               /\ indexblock'[i].at + indexblock'[i].size <= indexblock'[j].at
    <3>1. i \in 1..n /\ indexblock'[i] = indexblock[i]
      BY <1>3, <1>7, <2>2
    <3>2. CASE j \in 1..n
      BY <1>7, <1>11, <2>2, <3>1, <3>2
    <3>3. CASE j = n + 1
      BY <1>6, <1>7, <1>11, <1>12, <3>1, <3>3
    <3> QED
      BY <1>3, <3>2, <3>3
  <2> QED
    BY <1>7, <2>1, <2>2 DEF IndexOK
<1>15. \A b \in file : b.at # offset /\ \E i \in 1..n : b.at = indexblock[i].at
  <2>1. ASSUME NEW b \in file PROVE b.at # offset /\ \E i \in 1..n : b.at = indexblock[i].at
    <3>1. PICK i \in 1..n : b.at = indexblock[i].at
      BY DEF TableInv, FileOK, n
    <3>2. indexblock[i].at \in Nat /\ indexblock[i].size \in Nat \ {0} /\ indexblock[i].at + indexblock[i].size <= offset
      BY <1>11 DEF Place
    <3> QED
      BY <1>3, <3>1, <3>2
  <2> QED
    BY <2>1
<1>16. FileOK'
  <2>1. \A b, d \in file' : b.at = d.at => b = d
    BY <1>8, <1>9, <1>15 DEF TableInv, FileOK
  <2>2. \A b \in file' : \E i \in 1..(n + 1) : b.at = indexblock'[i].at
    <3>1. ASSUME NEW b \in file PROVE \E i \in 1..(n + 1) : b.at = indexblock'[i].at
      <4>1. PICK i \in 1..n : b.at = indexblock[i].at
        BY <1>15
      <4>2. i \in 1..(n + 1) /\ indexblock'[i] = indexblock[i]
        BY <1>3, <1>7
      <4> QED
        BY <4>1, <4>2
    <3>2. n + 1 \in 1..(n + 1) /\ new.at = indexblock'[n + 1].at
      BY <1>3, <1>6, <1>7, <1>8
    <3> QED
      BY <1>9, <3>1, <3>2
  <2>3. \A i \in 1..(n + 1) : \E b \in file' : b.at = indexblock'[i].at
    <3>1. ASSUME NEW i \in 1..n PROVE \E b \in file' : b.at = indexblock'[i].at
      BY <1>7, <1>9 DEF TableInv, FileOK, n
    <3>2. \E b \in file' : b.at = indexblock'[n + 1].at
      BY <1>6, <1>7, <1>8, <1>9
    <3> QED
      BY <1>3, <3>1, <3>2
  <2>4. ASSUME NEW b \in file', NEW i \in 1..(n + 1), b.at = indexblock'[i].at
        PROVE  Stored(b, i)'
    <3>1. CASE b \in file
      <4>1. i # n + 1
        BY <1>6, <1>7, <1>15, <2>4, <3>1
      <4>2. i \in 1..n /\ indexblock'[i] = indexblock[i] /\ \A j \in 1..(i - 1) : j \in 1..n /\ indexblock'[j] = indexblock[j]
        BY <1>3, <1>7, <4>1
      <4>3. Stored(b, i)
        BY <2>4, <3>1, <4>2 DEF TableInv, FileOK, n
      <4>4. GoodBlock(b.block, Done)'
        BY <1>2, <4>3, GoodMore DEF Stored
      <4> QED
        BY <4>2, <4>3, <4>4 DEF Stored
    <3>2. CASE b = new
      <4>0. b.block.entries = entries /\ b.block.restarts = points /\ b.block.restart_offset = size
        BY <1>8, <3>2
      <4>a. GoodBlock(b.block, Done)'
        BY <1>4, <4>0 DEF GoodBlock, Building, Filled, Starts
      <4>1. i = n + 1
        <5>1. ASSUME i \in 1..n PROVE FALSE
          <6>1. indexblock[i].at \in Nat /\ indexblock[i].size \in Nat \ {0} /\ indexblock[i].at + indexblock[i].size <= offset
            BY <1>11, <5>1 DEF Place
          <6> QED
            BY <1>3, <1>7, <1>8, <2>4, <3>2, <5>1, <6>1
        <5> QED
          BY <1>3, <5>1
      <4>2. \A j \in 1..(i - 1) : j \in 1..n /\ indexblock'[j] = indexblock[j]
        BY <1>3, <1>7, <4>1
      <4>3. \A e \in 1..Len(entries) : \A j \in 1..(i - 1) : indexblock'[j].key < entries[e].key
        BY <4>2 DEF n
      <4> QED
        BY <1>6, <1>7, <1>8, <3>2, <4>0, <4>a, <4>1, <4>3 DEF Stored
    <3> QED
      BY <1>9, <3>1, <3>2
  <2> QED
    BY <1>7, <2>1, <2>2, <2>3, <2>4 DEF FileOK
<1>17. buffer' = <<>> /\ bytes' = 0 /\ restarts' = <<0>> /\ counter' = 0
  BY DEF writeBlock
<1>18. Cover'
  <2>1. ASSUME NEW k \in Done' PROVE \E b \in file' : \E i \in 1..Len(b.block.entries) : b.block.entries[i].key = k
    <3>1. CASE \E j \in 1..Len(entries) : entries[j].key = k
      BY <1>8, <1>9, <3>1
    <3>2. CASE k \in Done /\ ~\E j \in 1..Len(entries) : entries[j].key = k
      BY <1>9, <3>2 DEF TableInv, Cover
    <3> QED
      BY <3>1, <3>2
  <2> QED
    BY <1>17, <2>1 DEF Cover
<1>19. Ends'
  <2>1. footer' = footer /\ memtable' = memtable
    OBVIOUS
  <2> QED
    BY <1>1, <1>2, <1>10, <2>1 DEF TableInv, Ends
<1> QED
  BY <1>13, <1>16, <1>17, <1>18, <1>19 DEF TableInv, BuilderOK

(***************************************************************************)
(* The steps of the table builder.                                         *)
(***************************************************************************)

LEMMA AddStep ==
  ASSUME TableInv, add
  PROVE  TableInv'
<1> DEFINE key == Min(todo)
           entries == Append(buffer, [at |-> bytes, key |-> key, value |-> memtable[key]])
           size == bytes + EntrySize(memtable[key])
           points == RestartPoints
<1>0. todo # {} /\ UNCHANGED <<memtable, footer>> /\ todo' = todo \ {key} /\ last_key' = key
  BY DEF add
<1>1. ~Finished /\ ~Finished'
  BY <1>0 DEF TableInv, Ends, Finished
<1>2. /\ key \in todo /\ key \in DOMAIN memtable /\ key \in Nat
      /\ \A k \in Done : k \in Nat /\ k < key
      /\ \A k \in todo : k \in Nat /\ key <= k
  BY <1>0, NextKey
<1>3. Done' = Done \cup {key}
  BY <1>0, <1>2 DEF Done
<1>4. /\ Len(entries) = Len(buffer) + 1 /\ entries[Len(entries)].key = key
      /\ \A i \in 1..Len(buffer) : entries[i] = buffer[i]
      /\ Filled(entries, size, Done \cup {key})
  BY <1>0, Filling
<1>5. Building(entries, size, points, NextCounter, Done')
  BY <1>0, <1>3, Extended
<1>6. buffer \in Seq(Entry)
  <2>1. CASE buffer = <<>>
    BY <2>1
  <2>2. CASE Building(buffer, bytes, restarts, counter, Done)
    BY <2>2 DEF Building, Filled
  <2> QED
    BY <2>1, <2>2 DEF TableInv, BuilderOK
<1> HIDE DEF key, entries, size, points
<1>7. \A i \in 1..Len(indexblock) : indexblock[i].key \in Done /\ indexblock[i].key < key
  BY <1>2 DEF TableInv, IndexOK
<1>8. \A i \in 1..Len(indexblock), j \in 1..Len(entries) : indexblock[i].key < entries[j].key
  <2>1. ASSUME NEW i \in 1..Len(indexblock), NEW j \in 1..Len(entries)
        PROVE  indexblock[i].key < entries[j].key
    <3>1. CASE j \in 1..Len(buffer)
      BY <1>4, <3>1 DEF TableInv, Cover
    <3>2. CASE j = Len(entries)
      BY <1>4, <1>7, <3>2
    <3> QED
      BY <1>4, <1>6, <3>1, <3>2
  <2> QED
    BY <2>1
<1>9. Len(buffer) \in Nat /\ Len(entries) \in 1..Len(entries) /\ \A i \in 1..Len(buffer) : i \in 1..Len(entries)
  BY <1>4, <1>6
<1>10. /\ \A i \in 1..Len(buffer) : \E j \in 1..Len(entries) : entries[j].key = buffer[i].key
       /\ \A k \in Done' \ Done : \E j \in 1..Len(entries) : entries[j].key = k
  BY <1>3, <1>4, <1>9
<1>11. \A k \in Done', l \in todo' : k < l
  <2>1. ASSUME NEW l \in todo' PROVE key < l /\ l \in Nat /\ l \in todo
    BY <1>0, <1>2
  <2> QED
    BY <1>2, <1>3, <2>1 DEF TableInv, Cover
<1>12. todo' \subseteq todo
  BY <1>0
<1>13. CASE writeBlock(entries, size, points, key)
  BY <1>0, <1>1, <1>4, <1>5, <1>8, <1>10, <1>11, <1>12, <1>13, Written
<1>14. CASE /\ buffer' = entries /\ bytes' = size /\ restarts' = points /\ counter' = NextCounter
            /\ UNCHANGED <<indexblock, offset, file>>
  <2>2. BuilderOK'
    <3>1. Building(buffer, bytes, restarts, counter, Done)'
      BY <1>0, <1>5, <1>14 DEF Building, Filled, Starts
    <3> QED
      BY <1>0, <1>4, <1>14, <3>1 DEF BuilderOK
  <2>3. Done \subseteq Done' /\ memtable' = memtable /\ indexblock' = indexblock /\ file' = file /\ End' = End
    BY <1>0, <1>3, <1>14 DEF End
  <2>4. IndexOK'
    BY <2>3 DEF TableInv, IndexOK
  <2>5. FileOK'
    <3>1. ASSUME NEW b \in file, NEW i \in 1..Len(indexblock), Stored(b, i)
          PROVE  Stored(b, i)'
      <4>1. GoodBlock(b.block, Done)'
        BY <2>3, <3>1, GoodMore DEF Stored
      <4> QED
        BY <2>3, <3>1, <4>1 DEF Stored
    <3> QED
      BY <2>3, <3>1 DEF TableInv, FileOK
  <2>6. Cover'
    <3>1. ASSUME NEW k \in Done'
          PROVE  \/ \E i \in 1..Len(entries) : entries[i].key = k
                 \/ \E b \in file : \E i \in 1..Len(b.block.entries) : b.block.entries[i].key = k
      <4>1. CASE k \in Done' \ Done
        BY <1>10, <4>1
      <4>2. CASE k \in Done
        BY <1>10, <4>2 DEF TableInv, Cover
      <4> QED
        BY <4>1, <4>2
    <3> QED
      BY <1>8, <1>11, <1>14, <2>3, <3>1 DEF Cover
  <2>7. Ends'
    BY <1>0, <1>1, <1>14, <2>3 DEF TableInv, Ends
  <2> QED
    BY <2>2, <2>4, <2>5, <2>6, <2>7 DEF TableInv
<1> QED
  BY <1>13, <1>14 DEF add, key, entries, size, points

LEMMA FlushStep ==
  ASSUME TableInv, flush
  PROVE  TableInv'
<1>1. /\ buffer # <<>> /\ UNCHANGED <<memtable, todo, last_key, footer>>
      /\ writeBlock(buffer, bytes, restarts, last_key)
  BY DEF flush
<1>2. Done' = Done /\ ~Finished
  BY <1>1 DEF Done, TableInv, Ends
<1>3. Building(buffer, bytes, restarts, counter, Done') /\ buffer[Len(buffer)].key = last_key
  BY <1>1, <1>2 DEF TableInv, BuilderOK
<1>4. /\ \A i \in 1..Len(indexblock), j \in 1..Len(buffer) : indexblock[i].key < buffer[j].key
      /\ \A k \in Done', l \in todo' : k < l
  BY <1>1, <1>2 DEF TableInv, Cover
<1>5. /\ \A i \in 1..Len(buffer) : \E j \in 1..Len(buffer) : buffer[j].key = buffer[i].key
      /\ \A k \in Done' \ Done : \E j \in 1..Len(buffer) : buffer[j].key = k
  BY <1>2
<1> QED
  BY <1>1, <1>2, <1>3, <1>4, <1>5, Written

LEMMA SameBuilder ==
  ASSUME BuilderOK, IndexOK, Cover, FileOK,
         UNCHANGED <<memtable, todo, buffer, bytes, restarts, counter, last_key, indexblock, file>>
  PROVE  BuilderOK' /\ IndexOK' /\ Cover' /\ FileOK'
<1>1. Done' = Done /\ End' = End
  BY DEF Done, End
<1>2. BuilderOK'
  <2>1. Building(buffer, bytes, restarts, counter, Done) => Building(buffer, bytes, restarts, counter, Done)'
    BY <1>1 DEF Building, Filled, Starts
  <2> QED
    BY <2>1 DEF BuilderOK
<1>3. IndexOK' /\ Cover'
  BY <1>1 DEF IndexOK, Cover
<1>4. FileOK'
  <2>1. ASSUME NEW b, NEW i, Stored(b, i)
        PROVE  Stored(b, i)'
    BY <1>1, <2>1 DEF Stored, GoodBlock, Filled, Starts
  <2> QED
    BY <2>1 DEF FileOK
<1> QED
  BY <1>2, <1>3, <1>4

LEMMA FinishStep ==
  ASSUME TableInv, finish
  PROVE  TableInv'
<1>1. /\ todo = {} /\ buffer = <<>> /\ ~Finished
      /\ UNCHANGED <<memtable, todo, buffer, bytes, restarts, counter, last_key, indexblock, file>>
  BY DEF finish, Finished
<1>2. PICK c \in CompressedSizes : footer' = <<offset, c>>
  BY DEF finish
<1>3. footer'[1] = End' /\ Done' = Done
  BY <1>1, <1>2 DEF TableInv, Ends, End, Done
<1>4. c # -1
  BY SSTableAssumption
<1>5. Finished'
  BY <1>2, <1>4 DEF Finished, Unfinished
<1>6. BuilderOK' /\ IndexOK' /\ Cover' /\ FileOK'
  BY <1>1, SameBuilder DEF TableInv
<1> QED
  BY <1>1, <1>3, <1>5, <1>6 DEF TableInv, Ends

LEMMA TableInvInit ==
  Init => TableInv
<1> SUFFICES ASSUME Init PROVE TableInv
  OBVIOUS
<1>1. PICK keys \in (SUBSET Keys) \ {{}} : memtable \in [keys -> ValueSizes]
  BY DEF Init
<1>2. Done = {} /\ ~Finished /\ End = 0
  BY DEF Init, Done, Finished, End
<1>3. BuilderOK /\ Ends
  <2>1. DOMAIN memtable = keys /\ keys # {} /\ keys \subseteq Keys /\ memtable \in [DOMAIN memtable -> ValueSizes]
    BY <1>1
  <2> QED
    BY <1>2, <2>1 DEF Init, BuilderOK, Ends
<1>4. indexblock = <<>> /\ file = {} /\ Len(indexblock) = 0 /\ buffer = <<>>
  BY DEF Init
<1>5. IndexOK /\ FileOK /\ Cover
  BY <1>2, <1>4 DEF IndexOK, FileOK, Cover
<1> QED
  BY <1>3, <1>5 DEF TableInv

LEMMA TableInvStep ==
  ASSUME TableInv, [Next]_vars
  PROVE  TableInv'
<1>1. CASE UNCHANGED vars
  <2>1. Done' = Done /\ End' = End /\ Finished' = Finished
    BY <1>1 DEF vars, Done, End, Finished
  <2>2. BuilderOK' /\ IndexOK' /\ Cover' /\ FileOK'
    BY <1>1, SameBuilder DEF vars, TableInv
  <2>3. Ends'
    BY <1>1, <2>1 DEF vars, TableInv, Ends
  <2> QED
    BY <2>2, <2>3 DEF TableInv
<1> QED
  BY <1>1, AddStep, FlushStep, FinishStep DEF Next

\* The invariant holds at every point of the construction of a file.
THEOREM TableInvAlways == Spec => []TableInv
<1>1. TableInv /\ [Next]_vars => TableInv'
  BY TableInvStep
<1> QED
  BY <1>1, TableInvInit, PTL DEF Spec

(***************************************************************************)
(* What a finished file answers.                                           *)
(***************************************************************************)

\* The block of an index entry is the one that was written there.
LEMMA Loaded ==
  ASSUME TableInv, NEW i \in 1..Len(indexblock)
  PROVE  \E b \in file : /\ Stored(b, i) /\ b.at = indexblock[i].at
                         /\ loadBlock(indexblock[i].at, indexblock[i].size) = b.block
<1>1. PICK b \in file : b.at = indexblock[i].at
  BY DEF TableInv, FileOK
<1>2. Stored(b, i)
  BY <1>1 DEF TableInv, FileOK
<1>3. \A c \in file : c.at = indexblock[i].at => c = b
  BY <1>1 DEF TableInv, FileOK
<1>4. b.size = indexblock[i].size
  BY <1>2 DEF Stored
<1>5. loadBlock(indexblock[i].at, indexblock[i].size) = b.block
  BY <1>1, <1>3, <1>4 DEF loadBlock
<1> QED
  BY <1>1, <1>2, <1>5

\* Block::get answers with the entry of the key, if there is one.
LEMMA Answered ==
  ASSUME NEW block, NEW key, NEW keys, GoodBlock(block, keys)
  PROVE  /\ \A i \in 1..Len(block.entries) : block.entries[i].key = key =>
              BlockGet(block, key) = <<TRUE, memtable[key]>>
         /\ (\A i \in 1..Len(block.entries) : block.entries[i].key # key) => BlockGet(block, key) = NotFound
<1> DEFINE hits == {i \in DOMAIN block.entries : block.entries[i].key = key}
<1>1. block.entries \in Seq(Entry) /\ DOMAIN block.entries = 1..Len(block.entries)
  BY DEF GoodBlock, Filled
<1>2. BlockGet(block, key) = IF hits = {} THEN NotFound ELSE <<TRUE, block.entries[Min(hits)].value>>
  BY DEF BlockGet
<1>3. hits # {} => Min(hits) \in hits
  <2>1. hits \in SUBSET Nat
    BY <1>1
  <2> QED
    BY <2>1, LeastOne
<1>4. \A i \in hits : block.entries[i].value = memtable[key]
  BY <1>1 DEF GoodBlock, Filled
<1>5. (\A i \in 1..Len(block.entries) : block.entries[i].key # key) => hits = {}
  BY <1>1
<1>6. \A i \in 1..Len(block.entries) : block.entries[i].key = key => i \in hits
  BY <1>1
<1> HIDE DEF hits
<1> QED
  BY <1>2, <1>3, <1>4, <1>5, <1>6

LEMMA FinishedAnswers ==
  TableInv => FileIsMemtable
<1> SUFFICES ASSUME TableInv, Finished, NEW key \in Keys
             PROVE  get(key) = IF key \in DOMAIN memtable THEN <<TRUE, memtable[key]>> ELSE NotFound
  BY DEF FileIsMemtable
<1> DEFINE candidates == {i \in DOMAIN indexblock : indexblock[i].key >= key}
           first == Min(candidates)
<1>0. todo = {} /\ buffer = <<>> /\ Done = DOMAIN memtable
  BY DEF TableInv, Ends, Done
<1>1. /\ indexblock \in Seq(Place) /\ DOMAIN indexblock = 1..Len(indexblock) /\ key \in Nat
      /\ \A i \in 1..Len(indexblock) : indexblock[i].key \in Nat
  <2>1. indexblock \in Seq(Place)
    BY DEF TableInv, IndexOK
  <2>2. \A i \in 1..Len(indexblock) : indexblock[i] \in Place
    BY <2>1
  <2>3. \A i \in 1..Len(indexblock) : indexblock[i].key \in Keys
    BY <2>2 DEF Place
  <2>4. \A k \in Keys : k \in Nat
    BY Sizes
  <2>5. \A i \in 1..Len(indexblock) : indexblock[i].key \in Nat
    BY <2>3, <2>4, Zenon
  <2>6. DOMAIN indexblock = 1..Len(indexblock)
    BY <2>1
  <2>7. key \in Nat
    BY <2>4
  <2> QED
    BY <2>1, <2>5, <2>6, <2>7
<1>2. get(key) = IF candidates = {} THEN NotFound
                 ELSE BlockGet(loadBlock(indexblock[first].at, indexblock[first].size), key)
  BY DEF get
<1>3. candidates # {} => first \in candidates /\ \A j \in candidates : first <= j
  <2>1. candidates \in SUBSET Nat
    BY <1>1
  <2> QED
    BY <2>1, LeastOne
<1>4. candidates \subseteq 1..Len(indexblock) /\ \A i \in 1..Len(indexblock) : i \notin candidates => indexblock[i].key < key
  BY <1>1
<1>5. CASE key \in DOMAIN memtable
  <2>1. PICK b \in file : \E e \in 1..Len(b.block.entries) : b.block.entries[e].key = key
    BY <1>0, <1>5 DEF TableInv, Cover
  <2>2. PICK e \in 1..Len(b.block.entries) : b.block.entries[e].key = key
    BY <2>1
  <2>3. PICK i \in 1..Len(indexblock) : b.at = indexblock[i].at
    BY DEF TableInv, FileOK
  <2>4. Stored(b, i)
    BY <2>3 DEF TableInv, FileOK
  <2>5. b.block.entries \in Seq(Entry) /\ Len(b.block.entries) \in Nat
    BY <2>4 DEF Stored, GoodBlock, Filled
  <2>6. i \in candidates
    <3>1. key <= indexblock[i].key
      <4>1. CASE e = Len(b.block.entries)
        BY <1>1, <2>2, <2>4, <4>1 DEF Stored
      <4>2. CASE e < Len(b.block.entries)
        <5>1. Len(b.block.entries) \in 1..Len(b.block.entries)
          BY <2>5, <4>2
        <5>2. b.block.entries[e].key < b.block.entries[Len(b.block.entries)].key
          BY <2>4, <4>2, <5>1 DEF Stored, GoodBlock, Filled
        <5> QED
          BY <1>1, <2>2, <2>4, <5>2 DEF Stored
      <4> QED
        BY <2>5, <4>1, <4>2
    <3> QED
      BY <1>1, <3>1
  <2>7. \A j \in 1..(i - 1) : indexblock[j].key < key
    BY <2>2, <2>4 DEF Stored
  <2>8. first = i
    <3>1. first \in candidates /\ first <= i /\ first \in 1..Len(indexblock)
      BY <1>3, <1>4, <2>6
    <3>2. indexblock[first].key >= key /\ indexblock[first].key \in Nat
      BY <1>1, <3>1
    <3>3. first \notin 1..(i - 1)
      BY <1>1, <2>7, <3>2
    <3> QED
      BY <1>1, <3>1, <3>3
  <2>9. PICK c \in file : /\ Stored(c, i) /\ c.at = indexblock[i].at
                          /\ loadBlock(indexblock[i].at, indexblock[i].size) = c.block
    BY Loaded
  <2>10. c = b
    BY <2>3, <2>9 DEF TableInv, FileOK
  <2>11. GoodBlock(b.block, Done)
    BY <2>4 DEF Stored
  <2>12. BlockGet(b.block, key) = <<TRUE, memtable[key]>>
    BY <2>2, <2>11, Answered
  <2> HIDE DEF candidates, first
  <2> QED
    BY <1>2, <1>5, <2>6, <2>8, <2>9, <2>10, <2>12
<1>6. CASE key \notin DOMAIN memtable /\ candidates # {}
  <2>1. first \in 1..Len(indexblock)
    BY <1>3, <1>4, <1>6
  <2> HIDE DEF candidates, first
  <2>2. PICK c \in file : /\ Stored(c, first)
                          /\ loadBlock(indexblock[first].at, indexblock[first].size) = c.block
    BY <2>1, Loaded
  <2>3. GoodBlock(c.block, Done)
    BY <2>2 DEF Stored
  <2>4. \A i \in 1..Len(c.block.entries) : c.block.entries[i].key # key
    BY <1>0, <1>6, <2>3 DEF GoodBlock, Filled
  <2>5. BlockGet(c.block, key) = NotFound
    BY <2>3, <2>4, Answered
  <2> QED
    BY <1>2, <1>6, <2>2, <2>5
<1>7. CASE key \notin DOMAIN memtable /\ candidates = {}
  BY <1>2, <1>7
<1> QED
  BY <1>5, <1>6, <1>7

\* A finished file answers like its memtable, for any keys, values and sizes
\* of blocks: the cuts between blocks lose nothing and hide nothing.
THEOREM FileAnswersLikeMemtable == Spec => []FileIsMemtable
BY TableInvAlways, FinishedAnswers, PTL

LEMMA FinishedContiguous ==
  TableInv => BlocksContiguous
<1> SUFFICES ASSUME TableInv, Finished
             PROVE  /\ \A i \in DOMAIN indexblock :
                         indexblock[i].at = IF i = 1 THEN 0 ELSE indexblock[i-1].at + indexblock[i-1].size
                    /\ footer[1] = Last(indexblock).at + Last(indexblock).size
  BY DEF BlocksContiguous
<1>1. indexblock \in Seq(Place) /\ DOMAIN indexblock = 1..Len(indexblock)
  BY DEF TableInv, IndexOK
<1>2. todo = {} /\ buffer = <<>> /\ footer[1] = End /\ Done # {}
  BY DEF TableInv, Ends, Done
<1>3. file # {}
  BY <1>2 DEF TableInv, Cover
<1>4. indexblock # <<>>
  <2>1. \E i \in 1..Len(indexblock) : TRUE
    BY <1>3 DEF TableInv, FileOK
  <2> QED
    BY <1>1, <2>1
<1> QED
  BY <1>1, <1>2, <1>4 DEF TableInv, IndexOK, End

\* The blocks of a finished file lie side by side, at the places the index
\* tells, up to the index block.
THEOREM BlocksSideBySide == Spec => []BlocksContiguous
BY TableInvAlways, FinishedContiguous, PTL

\* The walk from the last restart point ends at the last entry.
LEMMA LastFound ==
  ASSUME NEW block, NEW keys, GoodBlock(block, keys)
  PROVE  SeekToLast(block) = Last(block.entries)
<1> DEFINE s == block.entries
           n == Len(s)
           from == Last(block.restarts)
           tail == {e \in Range(s) : e.at >= from}
<1>1. /\ s \in Seq(Entry) /\ s # <<>> /\ n \in Nat /\ n \in 1..n /\ DOMAIN s = 1..n
      /\ \A i \in 1..n : s[i] \in Entry
  BY DEF GoodBlock, Filled
<1>2. /\ \A i, j \in 1..n : i < j => s[i].at + EntrySize(s[i].value) <= s[j].at
      /\ s[n].at + EntrySize(s[n].value) = block.restart_offset
  BY <1>1 DEF GoodBlock, Filled
<1>3. \A i \in 1..n : s[i].at \in Nat /\ EntrySize(s[i].value) \in Nat /\ EntrySize(s[i].value) > 0
  BY <1>1, Sizes DEF Entry
<1>4. PICK i \in 1..n : s[i].at = from
  <2>1. Len(block.restarts) \in 1..Len(block.restarts)
    BY DEF GoodBlock, Starts
  <2> QED
    BY <2>1 DEF GoodBlock, Starts, Last
<1>5. from <= s[n].at /\ from \in Nat
  <2>1. CASE i = n
    BY <1>3, <1>4, <2>1
  <2>2. CASE i < n
    <3>1. s[i].at + EntrySize(s[i].value) <= s[n].at
      BY <1>1, <1>2, <2>2
    <3>2. s[i].at \in Nat /\ EntrySize(s[i].value) \in Nat /\ s[n].at \in Nat
      BY <1>1, <1>3
    <3> HIDE DEF s, from
    <3> QED
      BY <1>4, <3>1, <3>2
  <2> QED
    BY <1>1, <1>4, <2>1, <2>2
<1>6. Range(s) = {s[j] : j \in 1..n}
  BY <1>1 DEF Range
<1>7. s[n] \in tail
  BY <1>1, <1>3, <1>5, <1>6
<1>8. ASSUME NEW e \in tail, e.at + EntrySize(e.value) >= block.restart_offset
      PROVE  e = s[n]
  <2>1. PICK j \in 1..n : e = s[j]
    BY <1>6
  <2>2. ~(j < n)
    <3>1. ASSUME j < n PROVE s[j].at + EntrySize(s[j].value) <= s[n].at
      BY <1>1, <1>2, <3>1
    <3> QED
      <4>1. /\ s[j].at \in Nat /\ EntrySize(s[j].value) \in Nat
            /\ s[n].at \in Nat /\ EntrySize(s[n].value) \in Nat /\ EntrySize(s[n].value) > 0
        BY <1>1, <1>3
      <4>2. s[j].at + EntrySize(s[j].value) >= s[n].at + EntrySize(s[n].value)
        BY <1>2, <1>8, <2>1
      <4> HIDE DEF s, n
      <4> QED
        BY <3>1, <4>1, <4>2
  <2> QED
    BY <1>1, <2>1, <2>2
<1>9. s[n].at + EntrySize(s[n].value) >= block.restart_offset
  BY <1>1, <1>2, <1>3
<1>10. SeekToLast(block) = CHOOSE e \in tail : e.at + EntrySize(e.value) >= block.restart_offset
  BY DEF SeekToLast
<1> HIDE DEF tail
<1> QED
  BY <1>7, <1>8, <1>9, <1>10 DEF Last

LEMMA SeekFinds ==
  ASSUME NEW block, NEW keys, GoodBlock(block, keys), NEW key \in Keys
  PROVE  LET from == {e \in Range(block.entries) : e.key >= key}
         IN  IF from = {} THEN Seek(block, key) = NoEntry
             ELSE Seek(block, key) \in from /\ \A e \in from : Seek(block, key).key <= e.key
<1> DEFINE s == block.entries
           n == Len(s)
           from == {e \in Range(s) : e.key >= key}
           hits == {i \in DOMAIN s : s[i].key >= key}
<1>1. /\ s \in Seq(Entry) /\ s # <<>> /\ n \in Nat /\ n \in 1..n /\ DOMAIN s = 1..n
      /\ \A i \in 1..n : s[i] \in Entry
      /\ \A i, j \in 1..n : i < j => s[i].key < s[j].key
  BY DEF GoodBlock, Filled
<1>2. key \in Nat /\ \A i \in 1..n : s[i].key \in Nat
  BY <1>1, Sizes DEF Entry
<1>3. SeekToLast(block) = s[n]
  BY LastFound DEF Last
<1>4. Range(s) = {s[j] : j \in 1..n}
  BY <1>1 DEF Range
<1>5. Seek(block, key) = IF s[n].key < key THEN NoEntry ELSE s[Min(hits)]
  BY <1>3 DEF Seek
<1>6. CASE s[n].key < key
  <2>1. from = {}
    <3>1. ASSUME NEW j \in 1..n PROVE s[j].key < key
      <4>1. CASE j = n
        BY <1>6, <4>1
      <4>2. CASE j < n
        <5>1. s[j].key < s[n].key
          BY <1>1, <4>2
        <5> QED
          BY <1>1, <1>2, <1>6, <5>1
      <4> QED
        BY <1>1, <4>1, <4>2
    <3>2. \A j \in 1..n : ~(s[j].key >= key)
      BY <1>2, <3>1
    <3> QED
      BY <1>4, <3>2
  <2> QED
    BY <1>5, <1>6, <2>1
<1>7. CASE ~(s[n].key < key)
  <2>1. n \in hits /\ hits \in SUBSET Nat
    BY <1>1, <1>2, <1>7
  <2>2. Min(hits) \in hits /\ \A i \in hits : Min(hits) <= i
    BY <2>1, LeastOne
  <2> DEFINE m == Min(hits)
  <2>3. m \in 1..n /\ s[m].key >= key /\ s[m] \in from
    BY <1>1, <1>4, <2>2
  <2>4. ASSUME NEW e \in from PROVE s[m].key <= e.key
    <3>1. PICK i \in 1..n : e = s[i]
      BY <1>4
    <3>2. i \in hits
      BY <1>1, <3>1
    <3>3. m <= i
      BY <2>2, <3>2
    <3> HIDE DEF m
    <3>4. CASE m = i
      BY <1>2, <3>1, <3>4
    <3>5. CASE m < i
      <4>1. s[m].key < s[i].key
        BY <1>1, <2>3, <3>5
      <4> QED
        BY <1>2, <2>3, <3>1, <4>1
    <3> QED
      BY <1>1, <2>3, <3>3, <3>4, <3>5
  <2>5. Seek(block, key) = s[m]
    BY <1>5, <1>7
  <2>6. from # {} /\ Seek(block, key) \in from /\ \A e \in from : Seek(block, key).key <= e.key
    <3> HIDE DEF m, from, s
    <3> QED
      BY <2>3, <2>4, <2>5
  <2> QED
    BY <2>6
<1> QED
  BY <1>6, <1>7

LEMMA StoredUsable ==
  TableInv => RestartsUsable
<1> SUFFICES ASSUME TableInv, NEW b \in file
             PROVE  /\ \A j \in DOMAIN b.block.restarts :
                         LET i == (j - 1) * RESTART_INTERVAL + 1
                         IN  i \in DOMAIN b.block.entries /\ b.block.entries[i].at = b.block.restarts[j]
                    /\ SeekToLast(b.block) = Last(b.block.entries)
                    /\ \A key \in Keys :
                         LET from == {e \in Range(b.block.entries) : e.key >= key}
                             found == Seek(b.block, key)
                         IN  IF from = {} THEN found = NoEntry
                             ELSE found \in from /\ \A e \in from : found.key <= e.key
  BY DEF RestartsUsable
<1>1. PICK i \in 1..Len(indexblock) : b.at = indexblock[i].at
  BY DEF TableInv, FileOK
<1>2. GoodBlock(b.block, Done)
  BY <1>1 DEF TableInv, FileOK, Stored
<1>3. \A j \in DOMAIN b.block.restarts :
        Start(j) \in DOMAIN b.block.entries /\ b.block.entries[Start(j)].at = b.block.restarts[j]
  <2>1. b.block.restarts \in Seq(Nat) /\ b.block.entries \in Seq(Entry)
    BY <1>2 DEF GoodBlock, Starts, Filled
  <2>2. DOMAIN b.block.restarts = 1..Len(b.block.restarts) /\ DOMAIN b.block.entries = 1..Len(b.block.entries)
    BY <2>1
  <2> QED
    BY <1>2, <2>2 DEF GoodBlock, Starts
<1> QED
  BY <1>2, <1>3, LastFound, SeekFinds DEF Start

\* The restart points of every block written are where entries begin, and the
\* iterator that uses them finds the last entry and the first from a key on.
THEOREM RestartPointsUsable == Spec => []RestartsUsable
BY TableInvAlways, StoredUsable, PTL
=============================================================================
