------------------------------ MODULE SkipList ------------------------------
(***************************************************************************)
(* The memtable of the store (src/src/storage/SkipList.cpp): nodes linked  *)
(* on as many levels as their random height says, between head_ and tail_. *)
(*                                                                         *)
(* node is the heap: from the addresses in use to nodes.  A deleted node   *)
(* leaves it, so that following a pointer to one is an error.  Addresses   *)
(* are only compared for equality, and the lowest free one stands for      *)
(* whatever new returns.  Levels count from 1.                             *)
(*                                                                         *)
(* A key is its rank and takes as many bytes; so does a value.  The        *)
(* iterator is used while the list does not change (create_sstable has     *)
(* the store's mutex_): a change takes it back to the start.               *)
(***************************************************************************)
EXTENDS Integers, Sequences, FiniteSets, FiniteSetsExt

CONSTANTS Keys, Values,
          max_height_

ASSUME SkipListAssumption ==
  /\ Keys \subseteq Nat \ {0} /\ IsFiniteSet(Keys)
  /\ Values \subseteq Nat
  /\ max_height_ \in Nat \ {0}

head_ == 0
tail_ == Cardinality(Keys) + 1
nullptr == Cardinality(Keys) + 2
Addresses == 1..Cardinality(Keys)   \* room for every key
Unset == Cardinality(Keys) + 3      \* a pointer that new leaves uninitialised

VARIABLES node, num_entries_, num_bytes_,
          node_      \* the iterator's

vars == <<node, num_entries_, num_bytes_, node_>>

\* Node::Node
NewNode(key, value, height) ==
  [key |-> key, value |-> value, nexts |-> [l \in 1..height |-> Unset]]

Height(a) == Len(node[a].nexts)

Empty ==
  [a \in {head_, tail_} |->
     [key |-> 0, value |-> 0, nexts |-> <<IF a = head_ THEN tail_ ELSE nullptr>>]]

Init == node = Empty /\ num_entries_ = 0 /\ num_bytes_ = 0 /\ node_ = nullptr

-----------------------------------------------------------------------------
(* Searches *)

getMaxHeight == Height(head_)

\* Where the way along a level ends, from each of its nodes, going on as long
\* as the next node is not tail_ and its key is one of passed.
Walk(l, passed) ==
  LET walk[a \in {b \in DOMAIN node \ {tail_} : Height(b) >= l}] ==
        LET next == node[a].nexts[l]
        IN  IF next = tail_ THEN a
            ELSE IF node[next].key \in passed THEN walk[next] ELSE a
  IN  walk

\* Where the way down from the top of head_ ends on each level.
Stops(passed) ==
  LET stop[l \in 1..getMaxHeight] ==
        Walk(l, passed)[IF l = getMaxHeight THEN head_ ELSE stop[l + 1]]
  IN  stop

\* Mutated: goes past the key itself.
prevs_Beyond(key) == Stops({k \in Keys : k <= key})

prevs(key) == Stops({k \in Keys : k < key})
findGreatorOrEqual(key) == node[prevs(key)[1]].nexts[1]
findLessThan(key) == prevs(key)[1]
findLast == Stops(Keys)[1]

contains(key) ==
  LET a == findGreatorOrEqual(key) IN a # tail_ /\ node[a].key = key
get(key) ==
  IF contains(key) THEN <<TRUE, node[findGreatorOrEqual(key)].value>> ELSE <<FALSE, 0>>

-----------------------------------------------------------------------------
(* Changes *)

\* Mutated: the bytes of the old value stay counted.
Update_Adds(key, value) ==
  LET a == findGreatorOrEqual(key)
  IN  /\ contains(key)
      /\ num_bytes_' = num_bytes_ + value
      /\ node' = [node EXCEPT ![a].value = value]
      /\ UNCHANGED num_entries_

\* The value of the node of the key is replaced.
Update(key, value) ==
  LET a == findGreatorOrEqual(key)
  IN  /\ contains(key)
      /\ num_bytes_' = num_bytes_ - node[a].value + value
      /\ node' = [node EXCEPT ![a].value = value]
      /\ UNCHANGED num_entries_

\* head_ and tail_ get new arrays; on the new levels head_ points to tail_.
enlargeHeight(height) ==
  [node EXCEPT
     ![head_].nexts = [l \in 1..height |-> IF l \in DOMAIN @ THEN @[l] ELSE tail_],
     ![tail_].nexts = [l \in 1..height |-> nullptr]]

\* The heap with a new node a behind prev[l] on every level of its own.
LinkedIn(heap, a, key, value, height, prev) ==
  [x \in DOMAIN heap \cup {a} |->
     IF x = a
     THEN [NewNode(key, value, height) EXCEPT !.nexts = [l \in 1..height |-> heap[prev[l]].nexts[l]]]
     ELSE [heap[x] EXCEPT !.nexts =
             [l \in DOMAIN @ |-> IF l <= height THEN IF prev[l] = x THEN a ELSE @[l] ELSE @[l]]]]

\* random_height is any of 1..max_height_.
Insert(key, value) ==
  /\ ~contains(key)
  /\ \E height \in 1..max_height_ :
       LET heap == IF height > getMaxHeight THEN enlargeHeight(height) ELSE node
           prev == [l \in 1..height |-> IF l > getMaxHeight THEN head_ ELSE prevs(key)[l]]
           a == Min(Addresses \ DOMAIN node)
       IN  node' = LinkedIn(heap, a, key, value, height, prev)
  /\ num_entries_' = num_entries_ + 1
  /\ num_bytes_' = num_bytes_ + key + value

put(key, value) ==
  /\ Update(key, value) \/ Insert(key, value)
  /\ node_' = nullptr

\* Mutated: unlinked on the lowest level only.
LinkedOut_Lowest(a, prev) ==
  [x \in DOMAIN node \ {a} |->
     IF x = prev[1] THEN [node[x] EXCEPT !.nexts[1] = node[a].nexts[1]] ELSE node[x]]

\* The heap without node a, which prev[l] pointed to.
LinkedOut(a, prev) ==
  [x \in DOMAIN node \ {a} |->
     [node[x] EXCEPT !.nexts =
        [l \in DOMAIN @ |-> IF l <= Height(a) THEN IF prev[l] = x THEN node[a].nexts[l] ELSE @[l]
                            ELSE @[l]]]]

\* A key that is not there is left at that: del answers false.
del(key) ==
  /\ contains(key)
  /\ LET a == findGreatorOrEqual(key)
     IN  /\ node' = LinkedOut(a, prevs(key))
         /\ num_bytes_' = num_bytes_ - node[a].key - node[a].value
  /\ num_entries_' = num_entries_ - 1
  /\ node_' = nullptr

\* All nodes along the lowest level are deleted and init makes new ends.
clear ==
  /\ node' = Empty
  /\ num_entries_' = 0 /\ num_bytes_' = 0
  /\ node_' = nullptr

-----------------------------------------------------------------------------
(* The iterator *)

Valid == node_ # nullptr

\* tail_ and head_ are no entries.
MoveTo(a) ==
  /\ node_' = IF a \in {head_, tail_} THEN nullptr ELSE a
  /\ UNCHANGED <<node, num_entries_, num_bytes_>>

SeekToFirst == MoveTo(node[head_].nexts[1])
SeekToLast == MoveTo(findLast)
Seek(key) == MoveTo(findGreatorOrEqual(key))
IterNext == Valid /\ MoveTo(node[node_].nexts[1])
Prev == Valid /\ MoveTo(findLessThan(node[node_].key))

-----------------------------------------------------------------------------

Next ==
  \/ \E k \in Keys : (\E v \in Values : put(k, v)) \/ del(k) \/ Seek(k)
  \/ clear \/ SeekToFirst \/ SeekToLast \/ IterNext \/ Prev

Spec == Init /\ [][Next]_vars

-----------------------------------------------------------------------------
(* Properties *)

Entries == DOMAIN node \ {head_, tail_}
On(l) == {a \in Entries : Height(a) >= l}

\* On every level, head_ and the nodes that are high enough for it are one
\* chain in the order of their keys, ending at tail_: no node was lost from a
\* level or linked on one it does not have, and none points to a deleted one.
LevelsSorted ==
  /\ Height(tail_) = getMaxHeight
  /\ \A a \in Entries : Height(a) \in 1..getMaxHeight
  /\ \A a, b \in Entries : node[a].key = node[b].key => a = b
  /\ \A l \in 1..getMaxHeight : \A a \in On(l) \cup {head_} :
       LET above == {b \in On(l) : a = head_ \/ node[b].key > node[a].key}
       IN  node[a].nexts[l] =
             IF above = {} THEN tail_
             ELSE CHOOSE b \in above : \A c \in above : node[b].key <= node[c].key

\* The entries, read along the lowest level.
Map == [k \in {node[a].key : a \in Entries} |-> node[CHOOSE a \in Entries : node[a].key = k].value]

\* get and contains answer from these entries, whatever the levels above
\* make the search skip.
GetFindsEntries ==
  \A k \in Keys :
    /\ contains(k) <=> k \in DOMAIN Map
    /\ get(k) = IF k \in DOMAIN Map THEN <<TRUE, Map[k]>> ELSE <<FALSE, 0>>

Abstract == INSTANCE SortedMap WITH
  map <- Map, cursor <- IF Valid THEN node[node_].key ELSE 0, None <- 0,
  size <- num_entries_, space <- num_bytes_, Bytes <- LAMBDA x : x

\* Every operation and every move of the iterator is one of a sorted map
\* that counts its entries and bytes.
ImplementsSortedMap == Abstract!Spec
=============================================================================
