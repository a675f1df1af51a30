----------------------------- MODULE SortedMap -----------------------------
(***************************************************************************)
(* What SkipList promises: a map that keeps its entries in the order of    *)
(* their keys, tells how many there are and how many bytes they take, and  *)
(* has a cursor that stands on an entry or on none.                        *)
(***************************************************************************)
EXTENDS Integers, FiniteSets, FiniteSetsExt

CONSTANTS Keys, Values,
          None,       \* the cursor stands nowhere
          Bytes(_)    \* length of a key or of a value

VARIABLES map,      \* from the keys that are in it to values
          cursor, size, space

vars == <<map, cursor, size, space>>

\* The entry next to k on either side, and the first from k on.
Above(k) == LET s == {x \in DOMAIN map : x > k} IN IF s = {} THEN None ELSE Min(s)
Below(k) == LET s == {x \in DOMAIN map : x < k} IN IF s = {} THEN None ELSE Max(s)
From(k)  == IF k \in DOMAIN map THEN k ELSE Above(k)
First == IF DOMAIN map = {} THEN None ELSE Min(DOMAIN map)
Last  == IF DOMAIN map = {} THEN None ELSE Max(DOMAIN map)

Counted(m) ==
  /\ size' = Cardinality(DOMAIN m)
  /\ space' = MapThenSumSet(LAMBDA k : Bytes(k) + Bytes(m[k]), DOMAIN m)

Change(m) == map' = m /\ cursor' = None /\ Counted(m)
Move(to) == cursor' = to /\ UNCHANGED <<map, size, space>>

Put == \E k \in Keys, v \in Values :
  Change([x \in DOMAIN map \cup {k} |-> IF x = k THEN v ELSE map[x]])
Del == \E k \in DOMAIN map : Change([x \in DOMAIN map \ {k} |-> map[x]])
Clear == Change(<<>>)
Seek == \E k \in Keys : Move(From(k))
Step == cursor # None /\ (Move(Above(cursor)) \/ Move(Below(cursor)))

Init == map = <<>> /\ cursor = None /\ size = 0 /\ space = 0
Next == Put \/ Del \/ Clear \/ Seek \/ Move(First) \/ Move(Last) \/ Step
Spec == Init /\ [][Next]_vars
=============================================================================
