------------------------------ MODULE SSTable ------------------------------
(***************************************************************************)
(* How a memtable becomes an .sst file and how a key is found in one:      *)
(* BlockBuilder and TableBuilder write, Block and SSTable read             *)
(* (src/src/storage).  Keys come from the memtable in order; a data block  *)
(* is written when it is large enough, and the index block holds the last  *)
(* key and the place of each.  A string is represented by a number: a key  *)
(* by its rank, a value by its length.                                     *)
(***************************************************************************)
EXTENDS Integers, Sequences, FiniteSets, FiniteSetsExt, SequencesExt

CONSTANTS MaxKey,            \* keys are 1..MaxKey, one byte each
          ValueSizes,        \* lengths of values
          Word,              \* sizeof(uint64_t)
          BLOCK_SPACE,
          RESTART_INTERVAL,
          CompressedSizes    \* what snappy may make of a block

ASSUME SSTableAssumption ==
  /\ MaxKey \in Nat /\ ValueSizes \in SUBSET Nat
  /\ Word \in Nat \ {0} /\ BLOCK_SPACE \in Nat /\ RESTART_INTERVAL \in Nat \ {0}
  /\ CompressedSizes \in SUBSET (Nat \ {0})

Keys == 1..MaxKey
NotFound == <<FALSE, 0>>
NoEntry == "invalid"   \* an iterator behind the last entry

VARIABLES
  memtable,    \* the content to be written, a function from some of the keys
  todo,        \* keys the iterator of create_sstable has not reached
  buffer,      \* BlockBuilder::buffer_ of the data block: entries with their offsets
  bytes,       \* buffer_.size()
  restarts,    \* restarts_
  counter,     \* counter_
  last_key,    \* TableBuilder::last_key_
  indexblock,  \* TableBuilder::indexblock_: last key, offset and size of each block
  offset,      \* TableBuilder::offset_
  file,        \* the blocks in the file
  footer       \* offset and size of the index block, at the end of the file

vars == <<memtable, todo, buffer, bytes, restarts, counter, last_key, indexblock, offset,
          file, footer>>

Unfinished == <<-1, -1>>

Init ==
  /\ \E keys \in (SUBSET Keys) \ {{}} : memtable \in [keys -> ValueSizes]
  /\ todo = DOMAIN memtable
  /\ buffer = <<>> /\ bytes = 0 /\ restarts = <<0>> /\ counter = 0
  /\ last_key = 0
  /\ indexblock = <<>> /\ offset = 0
  /\ file = {} /\ footer = Unfinished

-----------------------------------------------------------------------------
(* Writing *)

EntrySize(value) == Word + 1 + Word + value

estimated_size(size, points) == size + Len(points) * Word + 2 * Word

\* What BlockBuilder::finish makes of the data block.
BlockOf(entries, size, points) ==
  [entries |-> entries, restarts |-> points, restart_offset |-> size]

\* Mutated: offset_ is not advanced.
writeBlock_SameOffset(entries, size, points, last) ==
  /\ \E compressed \in CompressedSizes :
       /\ file' = file \cup {[at |-> offset, size |-> compressed,
                              block |-> BlockOf(entries, size, points)]}
       /\ indexblock' = Append(indexblock, [key |-> last, at |-> offset, size |-> compressed])
  /\ buffer' = <<>> /\ bytes' = 0 /\ restarts' = <<0>> /\ counter' = 0
  /\ UNCHANGED offset

\* writeBlock for the data block: the compressed block goes to the file, its
\* place to the index, and the builder is reset.
writeBlock(entries, size, points, last) ==
  /\ \E compressed \in CompressedSizes :
       /\ file' = file \cup {[at |-> offset, size |-> compressed,
                              block |-> BlockOf(entries, size, points)]}
       /\ indexblock' = Append(indexblock, [key |-> last, at |-> offset, size |-> compressed])
       /\ offset' = offset + compressed
  /\ buffer' = <<>> /\ bytes' = 0 /\ restarts' = <<0>> /\ counter' = 0

\* Mutated: one entry early.
RestartPoints_Early ==
  IF counter + 1 = RESTART_INTERVAL THEN Append(restarts, bytes) ELSE restarts

\* BlockBuilder::add starts a restart interval after every RESTART_INTERVAL
\* entries.
RestartPoints ==
  IF counter = RESTART_INTERVAL THEN Append(restarts, bytes) ELSE restarts

NextCounter == (IF counter = RESTART_INTERVAL THEN 0 ELSE counter) + 1

\* TableBuilder::add of the entry the iterator is at, with the block builder's
\* add and the flush of a block that is large enough.
add ==
  /\ todo # {}
  /\ LET key == Min(todo)
         entries == Append(buffer, [at |-> bytes, key |-> key, value |-> memtable[key]])
         points == RestartPoints
         size == bytes + EntrySize(memtable[key])
     IN  /\ last_key' = key
         /\ todo' = todo \ {key}
         /\ \/ /\ estimated_size(size, points) >= BLOCK_SPACE
               /\ writeBlock(entries, size, points, key)
            \/ /\ estimated_size(size, points) < BLOCK_SPACE
               /\ buffer' = entries /\ bytes' = size /\ restarts' = points
               /\ counter' = NextCounter
               /\ UNCHANGED <<indexblock, offset, file>>
  /\ UNCHANGED <<memtable, footer>>

\* TableBuilder::finish writes the block that is left ...
flush ==
  /\ todo = {} /\ buffer # <<>>
  /\ writeBlock(buffer, bytes, restarts, last_key)
  /\ UNCHANGED <<memtable, todo, last_key, footer>>

\* Mutated: does not flush first.
finish_NoFlush ==
  /\ todo = {} /\ footer = Unfinished
  /\ \E compressed \in CompressedSizes :
       /\ footer' = <<offset, compressed>>
       /\ offset' = offset + compressed
  /\ UNCHANGED <<memtable, todo, buffer, bytes, restarts, counter, last_key, indexblock, file>>

\* ... then the index block and where it is.
finish ==
  /\ todo = {} /\ buffer = <<>> /\ footer = Unfinished
  /\ \E compressed \in CompressedSizes :
       /\ footer' = <<offset, compressed>>
       /\ offset' = offset + compressed
  /\ UNCHANGED <<memtable, todo, buffer, bytes, restarts, counter, last_key, indexblock, file>>

Next == add \/ flush \/ finish

Spec == Init /\ [][Next]_vars

-----------------------------------------------------------------------------
(* Reading *)

\* The block at a place of the file.
loadBlock(at, size) == (CHOOSE b \in file : b.at = at /\ b.size = size).block

\* Block::get walks over the entries from the first.
BlockGet(block, key) ==
  LET hits == {i \in DOMAIN block.entries : block.entries[i].key = key}
  IN  IF hits = {} THEN NotFound ELSE <<TRUE, block.entries[Min(hits)].value>>

\* SSTable::get looks into the first block whose last key is not smaller.
get(key) ==
  LET candidates == {i \in DOMAIN indexblock : indexblock[i].key >= key}
      entry == indexblock[Min(candidates)]
  IN  IF candidates = {} THEN NotFound ELSE BlockGet(loadBlock(entry.at, entry.size), key)

\* Block::Iter::SeekToLast jumps to the last restart point and walks on while
\* another entry follows; Next moves by the size of the entry read.
SeekToLast(block) ==
  LET from == Last(block.restarts)
      tail == {e \in Range(block.entries) : e.at >= from}
  IN  CHOOSE e \in tail : e.at + EntrySize(e.value) >= block.restart_offset

\* Block::Iter::Seek goes to the last entry first: if that is smaller there
\* is nothing to find.  Then it walks from the first entry.
Seek(block, key) ==
  IF SeekToLast(block).key < key THEN NoEntry
  ELSE block.entries[Min({i \in DOMAIN block.entries : block.entries[i].key >= key})]

-----------------------------------------------------------------------------
(* Properties *)

Finished == footer # Unfinished

\* A finished file answers like the memtable it was built from, for the keys
\* in it and for all others, wherever the entries were cut into blocks.
FileIsMemtable ==
  Finished => \A key \in Keys :
    get(key) = IF key \in DOMAIN memtable THEN <<TRUE, memtable[key]>> ELSE NotFound

\* The places in the index are those of the blocks, side by side from the
\* start of the file to the index block.
BlocksContiguous ==
  Finished =>
    /\ \A i \in DOMAIN indexblock :
         indexblock[i].at = IF i = 1 THEN 0 ELSE indexblock[i-1].at + indexblock[i-1].size
    /\ footer[1] = Last(indexblock).at + Last(indexblock).size

\* Every restart point is the start of an entry, RESTART_INTERVAL entries
\* after the one before; the walk from the last one ends at the last entry, and
\* Seek, which begins with it, finds the first entry that is not smaller.
RestartsUsable ==
  \A b \in file :
    /\ \A j \in DOMAIN b.block.restarts :
         LET i == (j - 1) * RESTART_INTERVAL + 1
         IN  i \in DOMAIN b.block.entries /\ b.block.entries[i].at = b.block.restarts[j]
    /\ SeekToLast(b.block) = Last(b.block.entries)
    /\ \A key \in Keys :
         LET from == {e \in Range(b.block.entries) : e.key >= key}
             found == Seek(b.block, key)
         IN  IF from = {} THEN found = NoEntry
             ELSE found \in from /\ \A e \in from : found.key <= e.key
=============================================================================
