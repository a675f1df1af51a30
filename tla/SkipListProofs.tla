--------------------------- MODULE SkipListProofs ---------------------------
(***************************************************************************)
(* The levels of the memtable stay sorted chains and searches find every   *)
(* entry, for any keys, values and greatest height.                        *)
(***************************************************************************)
EXTENDS SkipList, FiniteSetTheorems, WellFoundedInduction, TLAPS

(***************************************************************************)
(* The inductive invariant, over any heap h.                               *)
(***************************************************************************)

Node == [key : Nat, value : Nat, nexts : Seq(Nat)]

EntriesOf(h) == DOMAIN h \ {head_, tail_}
Top(h) == Len(h[head_].nexts)

\* The nodes of level l, and those with the one the level begins with.
Tall(h, l) == {a \in EntriesOf(h) : Len(h[a].nexts) >= l}
Way(h, l) == Tall(h, l) \cup {head_}

HeapOK(h) ==
  /\ h \in [DOMAIN h -> Node]
  /\ head_ \in DOMAIN h /\ tail_ \in DOMAIN h
  /\ EntriesOf(h) \subseteq Addresses
  /\ h[head_].key = 0
  /\ \A a \in EntriesOf(h) : h[a].key \in Keys /\ h[a].value \in Values

\* n is what follows a on level l: the node with the next larger key.
Follows(h, l, a, n) ==
  \/ n = tail_ /\ \A b \in Tall(h, l) : h[b].key <= h[a].key
  \/ /\ n \in Tall(h, l) /\ h[n].key > h[a].key
     /\ \A b \in Tall(h, l) : h[b].key > h[a].key => h[n].key <= h[b].key

Chained(h) ==
  /\ Top(h) >= 1 /\ Len(h[tail_].nexts) = Top(h)
  /\ \A a \in EntriesOf(h) : Len(h[a].nexts) \in 1..Top(h)
  /\ \A a, b \in EntriesOf(h) : h[a].key = h[b].key => a = b
  /\ \A l \in 1..Top(h) : \A a \in Way(h, l) : Follows(h, l, a, h[a].nexts[l])

ListInv ==
  /\ HeapOK(node) /\ Chained(node)
  /\ node_ \in EntriesOf(node) \cup {nullptr}

(***************************************************************************)
(* Numbers.                                                                *)
(***************************************************************************)

LessThan == {p \in Nat \X Nat : p[1] < p[2]}

\* Some element of a set of naturals is its least.
LEMMA LeastOne ==
  ASSUME NEW S \in SUBSET Nat, S # {}
  PROVE  Min(S) \in S /\ \A y \in S : Min(S) <= y
<1>0. IsWellFoundedOn(LessThan, Nat)
  BY NatLessThanWellFounded DEF OpToRel, LessThan
<1>1. PICK m \in S : \A y \in S : <<y, m>> \notin LessThan
  BY <1>0, WFMin
<1>2. \A y \in S : m <= y
  <2>1. ASSUME NEW y \in S, y < m PROVE FALSE
    <3>1. <<y, m>> \in Nat \X Nat /\ <<y, m>>[1] < <<y, m>>[2]
      BY <2>1
    <3>2. <<y, m>> \in LessThan
      BY <3>1, Zenon DEF LessThan
    <3> QED
      BY <1>1, <3>2
  <2>2. m \in Nat /\ \A y \in S : y \in Nat
    OBVIOUS
  <2> QED
    BY <2>1, <2>2
<1> QED
  BY <1>1, <1>2 DEF Min

\* One with a bound has a greatest.
LEMMA GreatestOne ==
  ASSUME NEW S \in SUBSET Nat, S # {}, NEW n \in Nat, \A y \in S : y <= n
  PROVE  Max(S) \in S /\ \A y \in S : y <= Max(S)
<1> DEFINE D == {d \in Nat : n - d \in S}
           m == n - Min(D)
<1>1. D \in SUBSET Nat /\ D # {}
  <2>1. PICK y \in S : TRUE
    OBVIOUS
  <2>2. n - y \in Nat /\ n - (n - y) = y
    BY <2>1
  <2>3. n - y \in D
    BY <2>1, <2>2
  <2> QED
    BY <2>3
<1>2. Min(D) \in D /\ \A d \in D : Min(D) <= d
  BY <1>1, LeastOne, Zenon
<1>3. m \in S
  BY <1>2
<1>4. ASSUME NEW y \in S PROVE y <= m
  <2>1. n - y \in Nat /\ n - (n - y) = y
    OBVIOUS
  <2>2. n - y \in D
    BY <2>1
  <2>3. Min(D) <= n - y /\ Min(D) \in Nat
    BY <1>2, <2>2
  <2> QED
    BY <2>3
<1>5. \E x \in S : \A y \in S : x >= y
  BY <1>3, <1>4
<1>6. Max(S) \in S /\ \A y \in S : Max(S) >= y
  BY <1>5 DEF Max
<1> QED
  BY <1>6

\* Finitely many naturals have a bound.
LEMMA FiniteBound ==
  ASSUME NEW S \in SUBSET Nat, IsFiniteSet(S)
  PROVE  \E n \in Nat : \A y \in S : y <= n
<1> DEFINE Unbounded(T) == IsFiniteSet(T) /\ \A n \in Nat : \E y \in T : ~(y <= n)
           C == {c \in Nat : \E T \in SUBSET Nat : Unbounded(T) /\ Cardinality(T) = c}
<1>1. SUFFICES ASSUME Unbounded(S) PROVE FALSE
  OBVIOUS
<1>2. Cardinality(S) \in C
  BY <1>1, FS_CardinalityType
<1>3. Min(C) \in C /\ \A c \in C : Min(C) <= c
  <2>1. C \in SUBSET Nat /\ C # {}
    BY <1>2
  <2> QED
    BY <2>1, LeastOne, Zenon
<1>4. PICK T \in SUBSET Nat : Unbounded(T) /\ Cardinality(T) = Min(C)
  BY <1>3
<1>5. PICK x \in T : TRUE
  BY <1>4
<1>6. IsFiniteSet(T \ {x}) /\ Cardinality(T \ {x}) = Cardinality(T) - 1
  BY <1>4, <1>5, FS_RemoveElement
<1>7. Cardinality(T \ {x}) \in Nat /\ Cardinality(T) \in Nat
  BY <1>4, <1>6, FS_CardinalityType
<1>8. ~Unbounded(T \ {x})
  <2>1. SUFFICES ASSUME Unbounded(T \ {x}) PROVE FALSE
    OBVIOUS
  <2>2. Cardinality(T \ {x}) \in C
    BY <2>1, <1>7
  <2>3. Min(C) <= Cardinality(T \ {x}) /\ Min(C) = Cardinality(T)
    BY <2>2, <1>3, <1>4, Zenon
  <2> QED
    BY <2>3, <1>6, <1>7
<1>9. PICK n \in Nat : \A y \in T \ {x} : y <= n
  BY <1>8, <1>6
<1>10. n + x \in Nat /\ \A y \in T : y <= n + x
  BY <1>9, <1>5
<1> QED
  BY <1>10, <1>4

LEMMA Constants ==
  /\ Keys \subseteq Nat /\ 0 \notin Keys /\ Values \subseteq Nat
  /\ Cardinality(Keys) \in Nat
  /\ tail_ \notin Addresses \cup {head_} /\ nullptr \notin Addresses \cup {head_, tail_}
  /\ Addresses \subseteq Nat /\ tail_ \in Nat /\ nullptr \in Nat /\ head_ \in Nat
  /\ head_ \notin Addresses
<1>1. Cardinality(Keys) \in Nat
  BY SkipListAssumption, FS_CardinalityType
<1> QED
  BY <1>1, SkipListAssumption DEF tail_, nullptr, head_, Addresses

\* A set of keys, with 0 or without, has a greatest.
LEMMA GreatestKey ==
  ASSUME NEW S \in SUBSET (Keys \cup {0}), S # {}
  PROVE  \E m \in S : \A y \in S : y <= m
<1>1. PICK n \in Nat : \A y \in Keys : y <= n
  BY FiniteBound, Constants, SkipListAssumption
<1>2. S \in SUBSET Nat /\ \A y \in S : y <= n
  BY <1>1, Constants
<1> QED
  BY <1>2, GreatestOne

(***************************************************************************)
(* Searches.                                                               *)
(***************************************************************************)

\* A search passes the keys up to some key.
UpTo(passed) ==
  passed \subseteq Keys /\ \A k \in passed, j \in Keys : j < k => j \in passed

\* a is the last node of level l with a key that is passed.
IsStop(h, passed, l, a) ==
  /\ a \in Way(h, l) /\ h[a].key \in passed \cup {0}
  /\ \A b \in Tall(h, l) : h[b].key \in passed => h[b].key <= h[a].key

LEMMA WayKeys ==
  ASSUME NEW h, HeapOK(h), NEW l, NEW a \in Way(h, l)
  PROVE  /\ a \in DOMAIN h /\ a # tail_ /\ h[a].key \in Nat
         /\ h[a].key = 0 <=> a = head_
         /\ a # head_ => a \in EntriesOf(h) /\ h[a].key \in Keys
BY Constants DEF HeapOK, Way, Tall, EntriesOf, Node

LEMMA TallWay ==
  ASSUME NEW h, NEW l
  PROVE  Tall(h, l) \subseteq Way(h, l) /\ head_ \in Way(h, l)
BY DEF Way

\* No two nodes of a level have one key, head_'s included.
LEMMA KeyOfOne ==
  ASSUME NEW h, HeapOK(h), Chained(h), NEW l, NEW a \in Way(h, l), NEW b \in Way(h, l),
         h[a].key = h[b].key
  PROVE  a = b
BY WayKeys DEF Chained

LEMMA OneStop ==
  ASSUME NEW h, HeapOK(h), Chained(h), NEW l, NEW passed, UpTo(passed)
  PROVE  /\ \E a : IsStop(h, passed, l, a)
         /\ \A a, b : IsStop(h, passed, l, a) /\ IsStop(h, passed, l, b) => a = b
<1> DEFINE K == {k \in passed \cup {0} : \E a \in Way(h, l) : h[a].key = k}
<1>1. 0 \in K
  BY TallWay DEF HeapOK
<1>2. PICK m \in K : \A y \in K : y <= m
  <2>1. K \in SUBSET (Keys \cup {0}) /\ K # {}
    BY <1>1 DEF UpTo
  <2> QED
    BY <2>1, GreatestKey, Zenon
<1>3. PICK a \in Way(h, l) : h[a].key = m
  BY <1>2
<1>4. IsStop(h, passed, l, a)
  BY <1>2, <1>3, TallWay DEF IsStop
<1>5. ASSUME NEW x, NEW y, IsStop(h, passed, l, x), IsStop(h, passed, l, y) PROVE x = y
  <2>1. x \in Way(h, l) /\ y \in Way(h, l)
    BY <1>5 DEF IsStop
  <2>2. ASSUME NEW p, NEW q, IsStop(h, passed, l, p), IsStop(h, passed, l, q)
        PROVE  h[p].key <= h[q].key
    <3>1. p \in Way(h, l) /\ q \in Way(h, l)
      BY <2>2 DEF IsStop
    <3>2. CASE p = head_
      BY <3>1, <3>2, WayKeys
    <3>3. CASE p # head_
      <4>1. p \in Tall(h, l) /\ h[p].key \in passed
        BY <3>1, <3>3, <2>2, WayKeys DEF IsStop, Way
      <4> QED
        BY <4>1, <2>2 DEF IsStop
    <3> QED
      BY <3>2, <3>3
  <2>3. h[x].key <= h[y].key /\ h[y].key <= h[x].key
    BY <1>5, <2>2
  <2>4. h[x].key = h[y].key
    BY <2>1, <2>3, WayKeys
  <2> QED
    BY <2>1, <2>4, KeyOfOne
<1> QED
  BY <1>4, <1>5

\* Where a way of a search ends or goes on.
LEMMA WalkStep ==
  ASSUME NEW h, HeapOK(h), Chained(h), NEW passed, UpTo(passed),
         NEW l \in 1..Top(h), NEW a \in Way(h, l), NEW n, n = h[a].nexts[l]
  PROVE  /\ n # tail_ => n \in Tall(h, l) /\ h[n].key > h[a].key
         /\ n # tail_ /\ h[n].key \in passed => h[a].key \in passed \cup {0}
         /\ h[a].key \in passed \cup {0} /\ (n = tail_ \/ h[n].key \notin passed)
              => IsStop(h, passed, l, a)
<1>1. Follows(h, l, a, n)
  BY DEF Chained
<1>2. n # tail_ => n \in Tall(h, l) /\ h[n].key > h[a].key
  BY <1>1 DEF Follows
<1>3. ASSUME n # tail_, h[n].key \in passed PROVE h[a].key \in passed \cup {0}
  <2>1. h[n].key > h[a].key /\ h[n].key \in Nat /\ h[a].key \in Nat
    BY <1>2, <1>3, WayKeys, TallWay
  <2>2. h[a].key \in Keys \cup {0}
    BY WayKeys
  <2> QED
    BY <2>1, <2>2, <1>3 DEF UpTo
<1>4. ASSUME h[a].key \in passed \cup {0}, n = tail_ \/ h[n].key \notin passed
      PROVE  IsStop(h, passed, l, a)
  <2>1. ASSUME NEW b \in Tall(h, l), h[b].key \in passed, ~(h[b].key <= h[a].key) PROVE FALSE
    <3>1. h[b].key \in Nat /\ h[a].key \in Nat /\ h[b].key > h[a].key
      BY <2>1, WayKeys, TallWay
    <3>2. n # tail_ /\ n \in Tall(h, l) /\ h[n].key <= h[b].key
      BY <1>1, <2>1, <3>1 DEF Follows, Tall, EntriesOf
    <3>3. h[n].key \in Nat /\ h[n].key \in Keys
      BY <3>2, TallWay, WayKeys DEF Tall, EntriesOf
    <3>4. h[n].key < h[b].key \/ h[n].key = h[b].key
      BY <3>1, <3>2, <3>3
    <3> QED
      BY <3>2, <3>3, <3>4, <1>4, <2>1 DEF UpTo
  <2> QED
    BY <1>4, <2>1 DEF IsStop
<1> QED
  BY <1>2, <1>3, <1>4

\* The heap of the list itself.
LEMMA ListWay ==
  ASSUME ListInv
  PROVE  /\ HeapOK(node) /\ Chained(node)
         /\ getMaxHeight = Top(node) /\ Top(node) \in Nat /\ Top(node) >= 1
         /\ \A l \in 1..Top(node) : {b \in DOMAIN node \ {tail_} : Height(b) >= l} = Way(node, l)
         /\ \A l \in 1..Top(node) : l + 1 \in 1..Top(node) => Way(node, l + 1) \subseteq Way(node, l)
<1>1. HeapOK(node) /\ Chained(node) /\ getMaxHeight = Top(node)
  BY DEF ListInv, getMaxHeight, Top, Height
<1>2. Top(node) \in Nat /\ Top(node) >= 1
  BY <1>1 DEF HeapOK, Chained, Node, Top
<1>3. ASSUME NEW l \in 1..Top(node)
      PROVE  {b \in DOMAIN node \ {tail_} : Height(b) >= l} = Way(node, l)
  <2>1. head_ \in DOMAIN node \ {tail_} /\ Height(head_) >= l
    BY <1>1, <1>2, Constants DEF HeapOK, Top, Height
  <2> QED
    BY <2>1 DEF Way, Tall, EntriesOf, Height
<1>4. ASSUME NEW l \in 1..Top(node), l + 1 \in 1..Top(node), NEW a \in Tall(node, l + 1)
      PROVE  a \in Tall(node, l)
  BY <1>4, <1>1 DEF Tall, Chained
<1> QED
  BY <1>1, <1>2, <1>3, <1>4 DEF Way

\* Along a level, every node with a key that is passed leads to the stop.
LEMMA WalkStops ==
  ASSUME ListInv, NEW passed, UpTo(passed), NEW l \in 1..Top(node),
         NEW a \in Way(node, l), node[a].key \in passed \cup {0}
  PROVE  IsStop(node, passed, l, Walk(l, passed)[a])
<1> DEFINE D == {b \in DOMAIN node \ {tail_} : Height(b) >= l}
           next(b) == node[b].nexts[l]
           Eq(f) == f = [b \in D |-> IF next(b) = tail_ THEN b
                                     ELSE IF node[next(b)].key \in passed THEN f[next(b)] ELSE b]
           passing(b) == node[b].key \in passed \cup {0}
<1>1. HeapOK(node) /\ Chained(node) /\ D = Way(node, l)
  BY ListWay
<1>2. PICK s : IsStop(node, passed, l, s)
  BY <1>1, OneStop
<1>3. \A b : IsStop(node, passed, l, b) => b = s
  BY <1>1, <1>2, OneStop
<1>4. ASSUME NEW b \in D
      PROVE  /\ next(b) # tail_ => next(b) \in D /\ node[next(b)].key > node[b].key
             /\ next(b) # tail_ /\ node[next(b)].key \in passed => passing(b)
             /\ passing(b) /\ (next(b) = tail_ \/ node[next(b)].key \notin passed) => b = s
  BY <1>1, <1>3, WalkStep, TallWay
<1> HIDE DEF next
<1>5. \E f : Eq(f)
  <2> DEFINE g == [b \in D |-> IF passing(b) THEN s ELSE b]
  <2>1. ASSUME NEW b \in D
        PROVE  g[b] = IF next(b) = tail_ THEN b
                      ELSE IF node[next(b)].key \in passed THEN g[next(b)] ELSE b
    <3>1. CASE next(b) = tail_
      BY <3>1, <1>4
    <3>2. CASE next(b) # tail_ /\ node[next(b)].key \in passed
      BY <3>2, <1>4
    <3>3. CASE next(b) # tail_ /\ node[next(b)].key \notin passed
      BY <3>3, <1>4
    <3> QED
      BY <3>1, <3>2, <3>3
  <2>2. Eq(g)
    BY <2>1
  <2> QED
    BY <2>2
<1>6. PICK f : f = Walk(l, passed) /\ Eq(f)
  <2>1. Walk(l, passed) = CHOOSE f : Eq(f)
    BY DEF Walk, next
  <2> QED
    BY <2>1, <1>5
<1>7. ASSUME NEW b \in D, passing(b), f[b] # s PROVE FALSE
  <2> DEFINE K == {k \in passed \cup {0} : \E c \in D : node[c].key = k /\ f[c] # s}
  <2>1. node[b].key \in K
    BY <1>7
  <2>2. PICK m \in K : \A y \in K : y <= m
    <3>1. K \in SUBSET (Keys \cup {0}) /\ K # {}
      BY <2>1 DEF UpTo
    <3> QED
      BY <3>1, GreatestKey, Zenon
  <2>3. PICK c \in D : node[c].key = m /\ f[c] # s
    BY <2>2
  <2>4. passing(c)
    BY <2>2, <2>3
  <2>5. f[c] = IF next(c) = tail_ THEN c ELSE IF node[next(c)].key \in passed THEN f[next(c)] ELSE c
    BY <1>6, <2>3
  <2>6. next(c) # tail_ /\ node[next(c)].key \in passed /\ f[next(c)] # s
    BY <2>3, <2>4, <2>5, <1>4
  <2>7. next(c) \in D /\ node[next(c)].key > m
    BY <2>3, <2>6, <1>4
  <2>8. node[next(c)].key \in K
    BY <2>6, <2>7
  <2>9. node[next(c)].key <= m /\ node[next(c)].key \in Nat /\ m \in Nat
    <3>1. passed \cup {0} \subseteq Nat
      BY Constants DEF UpTo
    <3>2. K \subseteq Nat
      BY <3>1
    <3> HIDE DEF K
    <3> QED
      BY <2>8, <2>2, <3>2
  <2> QED
    BY <2>7, <2>9
<1>8. f[a] = s
  BY <1>7, <1>1
<1> QED
  BY <1>2, <1>6, <1>8

\* A search stops on every level of the list where it should.
LEMMA StopsStop ==
  ASSUME ListInv, NEW passed, UpTo(passed), NEW l \in 1..Top(node)
  PROVE  IsStop(node, passed, l, Stops(passed)[l])
<1> DEFINE H == getMaxHeight
           Eq(f) == f = [i \in 1..H |-> Walk(i, passed)[IF i = H THEN head_ ELSE f[i + 1]]]
           S(i) == CHOOSE a : IsStop(node, passed, i, a)
<1>1. HeapOK(node) /\ Chained(node) /\ H = Top(node) /\ H \in Nat
  BY ListWay
<1>2. \A i : IsStop(node, passed, i, S(i))
  BY <1>1, OneStop
<1>3. \A i, a : IsStop(node, passed, i, a) => a = S(i)
  BY <1>1, <1>2, OneStop
<1> HIDE DEF S, H
<1>4. ASSUME NEW i \in 1..H PROVE Walk(i, passed)[IF i = H THEN head_ ELSE S(i + 1)] = S(i)
  <2>1. CASE i = H
    <3>1. head_ \in Way(node, i) /\ node[head_].key \in passed \cup {0}
      BY <1>1, TallWay DEF HeapOK
    <3> QED
      BY <2>1, <3>1, <1>1, <1>3, WalkStops
  <2>2. CASE i # H
    <3>1. i + 1 \in 1..Top(node)
      BY <2>2, <1>1
    <3>2. S(i + 1) \in Way(node, i) /\ node[S(i + 1)].key \in passed \cup {0}
      BY <1>1, <1>2, <3>1, ListWay DEF IsStop
    <3> QED
      BY <2>2, <3>2, <1>1, <1>3, WalkStops
  <2> QED
    BY <2>1, <2>2
<1>5. \E f : Eq(f)
  <2> DEFINE g == [i \in 1..H |-> S(i)]
  <2>1. ASSUME NEW i \in 1..H PROVE g[i] = Walk(i, passed)[IF i = H THEN head_ ELSE g[i + 1]]
    <3>1. i # H => i + 1 \in 1..H
      BY <1>1
    <3> QED
      BY <3>1, <1>4
  <2>2. Eq(g)
    BY <2>1
  <2> QED
    BY <2>2
<1>6. PICK f : f = Stops(passed) /\ Eq(f)
  <2>1. Stops(passed) = CHOOSE f : Eq(f)
    BY DEF Stops, H
  <2> QED
    BY <2>1, <1>5
<1>7. ASSUME NEW j \in 1..H, f[j] # S(j) PROVE FALSE
  <2> DEFINE K == {k \in 1..H : f[k] # S(k)}
  <2>1. K \in SUBSET Nat /\ K # {} /\ \A y \in K : y <= H
    BY <1>7, <1>1
  <2>2. Max(K) \in K /\ \A y \in K : y <= Max(K)
    BY <2>1, <1>1, GreatestOne, Zenon
  <2>3. PICK m \in K : \A y \in K : y <= m
    BY <2>2
  <2>4. m # H => m + 1 \in 1..H /\ ~(m + 1 <= m)
    BY <1>1
  <2>5. m # H => f[m + 1] = S(m + 1)
    BY <2>3, <2>4
  <2>6. f[m] = Walk(m, passed)[IF m = H THEN head_ ELSE f[m + 1]]
    BY <1>6
  <2> QED
    BY <2>3, <2>5, <2>6, <1>4
<1> QED
  BY <1>1, <1>2, <1>6, <1>7

\* findGreatorOrEqual returns the first entry from the key on, or tail_.
LEMMA Ceiling ==
  ASSUME ListInv, NEW key \in Keys, NEW n, n = findGreatorOrEqual(key)
  PROVE  /\ n \in EntriesOf(node) \cup {tail_}
         /\ n # tail_ => node[n].key >= key
         /\ \A b \in EntriesOf(node) : node[b].key >= key => n # tail_ /\ node[n].key <= node[b].key
<1> DEFINE P == {k \in Keys : k < key}
           a == prevs(key)[1]
<1>1. UpTo(P)
  BY Constants DEF UpTo
<1>2. IsStop(node, P, 1, a)
  BY <1>1, StopsStop, ListWay DEF prevs
<1>3. a \in Way(node, 1) /\ n = node[a].nexts[1] /\ 1 \in 1..Top(node)
  BY <1>2, ListWay DEF IsStop, findGreatorOrEqual
<1>4. Follows(node, 1, a, n)
  BY <1>3 DEF ListInv, Chained
<1>5. HeapOK(node) /\ Tall(node, 1) = EntriesOf(node)
  BY DEF ListInv, Chained, Tall
<1>6. node[a].key \in Nat /\ node[a].key < key /\ key \in Nat /\ key \in Keys
  BY <1>2, <1>3, <1>5, WayKeys, Constants DEF IsStop
<1>7. \A b \in EntriesOf(node) : node[b].key \in Keys /\ node[b].key \in Nat /\ b # tail_
  BY <1>5, Constants DEF HeapOK, EntriesOf
<1>8. \A b \in EntriesOf(node) : node[b].key < key => node[b].key <= node[a].key
  BY <1>2, <1>5, <1>7 DEF IsStop
<1> HIDE DEF a, P
<1>9. CASE n = tail_ /\ \A b \in EntriesOf(node) : node[b].key <= node[a].key
  BY <1>9, <1>6, <1>7
<1>10. CASE /\ n \in EntriesOf(node) /\ node[n].key > node[a].key
            /\ \A b \in EntriesOf(node) : node[b].key > node[a].key => node[n].key <= node[b].key
  <2>1. node[n].key >= key
    BY <1>10, <1>6, <1>7, <1>8
  <2> QED
    BY <1>10, <2>1, <1>6, <1>7
<1> QED
  BY <1>4, <1>5, <1>9, <1>10 DEF Follows

\* contains and findGreatorOrEqual find the entry of a key.
LEMMA Found ==
  ASSUME ListInv, NEW key \in Keys
  PROVE  /\ contains(key) <=> \E b \in EntriesOf(node) : node[b].key = key
         /\ \A b \in EntriesOf(node) : node[b].key = key => findGreatorOrEqual(key) = b
<1> DEFINE n == findGreatorOrEqual(key)
<1>1. /\ n \in EntriesOf(node) \cup {tail_}
      /\ n # tail_ => node[n].key >= key
      /\ \A b \in EntriesOf(node) : node[b].key >= key => n # tail_ /\ node[n].key <= node[b].key
  BY Ceiling
<1>2. contains(key) <=> n # tail_ /\ node[n].key = key
  BY DEF contains
<1>3. \A b \in EntriesOf(node) : node[b].key \in Nat /\ b # tail_
  BY Constants DEF ListInv, HeapOK, EntriesOf
<1> HIDE DEF n
<1>4. ASSUME NEW b \in EntriesOf(node), node[b].key = key
      PROVE  n = b /\ n # tail_ /\ node[n].key = key
  <2>1. n \in EntriesOf(node) /\ node[n].key = node[b].key /\ n # tail_
    BY <1>1, <1>3, <1>4, Constants
  <2> QED
    BY <2>1, <1>4 DEF ListInv, Chained
<1>5. n # tail_ => n \in EntriesOf(node)
  BY <1>1
<1> QED
  BY <1>2, <1>4, <1>5 DEF n

LEMMA InvSorted ==
  ASSUME ListInv
  PROVE  LevelsSorted
<1>1. HeapOK(node) /\ Chained(node) /\ getMaxHeight = Top(node) /\ Entries = EntriesOf(node)
  BY ListWay DEF Entries, EntriesOf
<1>2. /\ Height(tail_) = getMaxHeight
      /\ \A a \in Entries : Height(a) \in 1..getMaxHeight
      /\ \A a, b \in Entries : node[a].key = node[b].key => a = b
  BY <1>1 DEF Chained, Height
<1>3. ASSUME NEW l \in 1..getMaxHeight, NEW a \in On(l) \cup {head_}
      PROVE  LET above == {b \in On(l) : a = head_ \/ node[b].key > node[a].key}
             IN  node[a].nexts[l] =
                   IF above = {} THEN tail_
                   ELSE CHOOSE b \in above : \A c \in above : node[b].key <= node[c].key
  <2> DEFINE above == {b \in On(l) : a = head_ \/ node[b].key > node[a].key}
             n == node[a].nexts[l]
             T == Tall(node, l)
  <2> SUFFICES n = IF above = {} THEN tail_
                   ELSE CHOOSE b \in above : \A c \in above : node[b].key <= node[c].key
    OBVIOUS
  <2>1. On(l) = T
    BY <1>1 DEF On, Tall, Height
  <2>2. a \in Way(node, l) /\ l \in 1..Top(node)
    BY <1>1, <2>1 DEF Way
  <2>3. Follows(node, l, a, n)
    BY <1>1, <2>2 DEF Chained
  <2>4. \A b \in T : node[b].key \in Nat /\ node[b].key > 0 /\ b # tail_ /\ b \in Entries
    BY <1>1, Constants DEF HeapOK, Tall, EntriesOf
  <2>5. node[a].key \in Nat /\ (a = head_ => node[a].key = 0)
    BY <1>1, <2>2, WayKeys
  <2>6. above = {b \in T : node[b].key > node[a].key}
    BY <2>1, <2>4, <2>5
  <2>7. CASE n = tail_ /\ \A b \in T : node[b].key <= node[a].key
    <3>1. above = {}
      BY <2>4, <2>5, <2>6, <2>7
    <3> QED
      BY <2>7, <3>1
  <2>8. CASE /\ n \in T /\ node[n].key > node[a].key
             /\ \A b \in T : node[b].key > node[a].key => node[n].key <= node[b].key
    <3>1. n \in above /\ \A c \in above : node[n].key <= node[c].key
      BY <2>6, <2>8
    <3>2. ASSUME NEW b \in above, \A c \in above : node[b].key <= node[c].key PROVE b = n
      <4>1. node[b].key = node[n].key /\ b \in Entries /\ n \in Entries
        BY <3>1, <3>2, <2>4, <2>6
      <4> QED
        BY <4>1, <1>2
    <3>3. n = CHOOSE b \in above : \A c \in above : node[b].key <= node[c].key
      <4> HIDE DEF above, n
      <4> QED
        BY <3>1, <3>2
    <3> QED
      BY <3>1, <3>3
  <2> HIDE DEF n, above
  <2> QED
    BY <2>3, <2>7, <2>8 DEF Follows
<1> QED
  BY <1>2, <1>3 DEF LevelsSorted

\* Map, of any heap.
MapOf(h) ==
  [k \in {h[a].key : a \in EntriesOf(h)} |-> h[CHOOSE a \in EntriesOf(h) : h[a].key = k].value]

\* The entry of a key gives what the map says of it.
LEMMA MapOfEntry ==
  ASSUME NEW h, HeapOK(h), Chained(h)
  PROVE  /\ DOMAIN MapOf(h) = {h[b].key : b \in EntriesOf(h)}
         /\ \A b \in EntriesOf(h) : h[b].key \in DOMAIN MapOf(h) /\ MapOf(h)[h[b].key] = h[b].value
         /\ DOMAIN MapOf(h) \subseteq Keys /\ MapOf(h) \in [DOMAIN MapOf(h) -> Values]
<1>1. ASSUME NEW b \in EntriesOf(h) PROVE MapOf(h)[h[b].key] = h[b].value
  <2>1. \A c \in EntriesOf(h) : h[c].key = h[b].key => c = b
    BY DEF Chained
  <2>2. (CHOOSE c \in EntriesOf(h) : h[c].key = h[b].key) = b
    BY <2>1
  <2> QED
    BY <2>2 DEF MapOf
<1>2. DOMAIN MapOf(h) = {h[b].key : b \in EntriesOf(h)}
  BY DEF MapOf
<1>3. DOMAIN MapOf(h) \subseteq Keys /\ \A k \in DOMAIN MapOf(h) : MapOf(h)[k] \in Values
  BY <1>1, <1>2 DEF HeapOK
<1>4. MapOf(h) = [k \in DOMAIN MapOf(h) |-> MapOf(h)[k]]
  BY DEF MapOf
<1> QED
  BY <1>1, <1>2, <1>3, <1>4

LEMMA MapEntry ==
  ASSUME ListInv
  PROVE  /\ DOMAIN Map = {node[b].key : b \in EntriesOf(node)}
         /\ \A b \in EntriesOf(node) : node[b].key \in DOMAIN Map /\ Map[node[b].key] = node[b].value
<1>1. Map = MapOf(node)
  BY DEF Map, MapOf, Entries, EntriesOf
<1> QED
  BY <1>1, MapOfEntry DEF ListInv

LEMMA InvGets ==
  ASSUME ListInv
  PROVE  GetFindsEntries
<1> SUFFICES ASSUME NEW k \in Keys
             PROVE  /\ contains(k) <=> k \in DOMAIN Map
                    /\ get(k) = IF k \in DOMAIN Map THEN <<TRUE, Map[k]>> ELSE <<FALSE, 0>>
  BY DEF GetFindsEntries
<1>1. contains(k) <=> k \in DOMAIN Map
  BY Found, MapEntry
<1>2. CASE contains(k)
  <2>1. PICK b \in EntriesOf(node) : node[b].key = k
    BY <1>2, Found
  <2> QED
    BY <1>1, <1>2, <2>1, Found, MapEntry DEF get
<1>3. CASE ~contains(k)
  BY <1>1, <1>3 DEF get
<1> QED
  BY <1>1, <1>2, <1>3

(***************************************************************************)
(* Changes of the heap.                                                    *)
(***************************************************************************)

\* While a key is not in the list, an address is free.
LEMMA FreeAddress ==
  ASSUME NEW h, HeapOK(h), Chained(h), NEW key \in Keys, \A b \in EntriesOf(h) : h[b].key # key
  PROVE  Min(Addresses \ DOMAIN h) \in Addresses \ DOMAIN h
<1>1. SUFFICES ASSUME Addresses \subseteq DOMAIN h PROVE FALSE
  <2>1. CASE Addresses \ DOMAIN h # {}
    BY <2>1, Constants, LeastOne
  <2> QED
    BY <1>1, <2>1
<1>2. Addresses \subseteq EntriesOf(h)
  BY <1>1, Constants DEF EntriesOf
<1>3. /\ IsFiniteSet(Keys \ {key}) /\ Cardinality(Keys \ {key}) = Cardinality(Keys) - 1
      /\ Cardinality(Keys) \in Nat
  BY SkipListAssumption, Constants, FS_RemoveElement
<1>4. IsFiniteSet(Addresses) /\ Cardinality(Addresses) = Cardinality(Keys)
  <2>1. IsFiniteSet(Addresses) /\
        Cardinality(Addresses) = IF 1 > Cardinality(Keys) THEN 0 ELSE Cardinality(Keys) - 1 + 1
    BY <1>3, FS_Interval DEF Addresses
  <2> QED
    BY <2>1, <1>3
<1> DEFINE f == [a \in Addresses |-> h[a].key]
<1>5. f \in [Addresses -> Keys \ {key}]
  BY <1>2 DEF HeapOK
<1>6. Cardinality(Keys \ {key}) < Cardinality(Addresses)
  BY <1>3, <1>4
<1>7. PICK x \in Addresses, y \in Addresses : x # y /\ f[x] = f[y]
  <2> HIDE DEF f
  <2> QED
    BY <1>3, <1>4, <1>5, <1>6, FS_PigeonHole
<1> QED
  BY <1>2, <1>7 DEF Chained

\* enlargeHeight keeps the chains and adds levels without a node.
LEMMA Enlarged ==
  ASSUME ListInv, NEW height \in Nat, height > Top(node), NEW h, h = enlargeHeight(height)
  PROVE  /\ HeapOK(h) /\ Chained(h) /\ Top(h) = height /\ DOMAIN h = DOMAIN node
         /\ \A a \in DOMAIN h : h[a].key = node[a].key /\ h[a].value = node[a].value
         /\ \A l \in Nat : Tall(h, l) = Tall(node, l)
         /\ \A l \in Nat : l > Top(node) => Tall(h, l) = {}
<1> DEFINE hn == [l \in 1..height |-> IF l \in DOMAIN node[head_].nexts THEN node[head_].nexts[l] ELSE tail_]
           tn == [l \in 1..height |-> nullptr]
<1>1. HeapOK(node) /\ Chained(node) /\ Top(node) \in Nat /\ Top(node) >= 1
  BY ListWay
<1>2. head_ \in DOMAIN node /\ tail_ \in DOMAIN node /\ head_ # tail_ /\ node \in [DOMAIN node -> Node]
  BY <1>1, Constants DEF HeapOK
<1>3. h = [node EXCEPT ![head_].nexts = hn, ![tail_].nexts = tn]
  BY DEF enlargeHeight
<1>4. /\ DOMAIN h = DOMAIN node
      /\ h[head_] = [node[head_] EXCEPT !.nexts = hn]
      /\ h[tail_] = [node[tail_] EXCEPT !.nexts = tn]
      /\ \A a \in DOMAIN node : a # head_ /\ a # tail_ => h[a] = node[a]
  <2> HIDE DEF hn, tn
  <2> QED
    BY <1>2, <1>3
<1>5. /\ h[head_].nexts = hn /\ h[tail_].nexts = tn
      /\ h[head_].key = node[head_].key /\ h[head_].value = node[head_].value
      /\ h[tail_].key = node[tail_].key /\ h[tail_].value = node[tail_].value
      /\ h[head_] \in [key : Nat, value : Nat, nexts : {hn}]
      /\ h[tail_] \in [key : Nat, value : Nat, nexts : {tn}]
  <2> HIDE DEF hn, tn
  <2>1. node[head_] \in Node /\ node[tail_] \in Node
    BY <1>2
  <2> QED
    BY <2>1, <1>4 DEF Node
<1>6. /\ node[head_].nexts \in Seq(Nat) /\ Len(node[head_].nexts) = Top(node)
      /\ DOMAIN node[head_].nexts = 1..Top(node)
  BY <1>2 DEF Node, Top
<1>7. hn \in Seq(Nat) /\ tn \in Seq(Nat) /\ Len(hn) = height /\ Len(tn) = height
  <2>1. \A l \in 1..height : hn[l] \in Nat
    BY <1>6, Constants
  <2>2. hn \in [1..height -> Nat] /\ tn \in [1..height -> Nat]
    BY <2>1, Constants
  <2> QED
    BY <2>2
<1>8. \A a \in DOMAIN h : h[a].key = node[a].key /\ h[a].value = node[a].value
  BY <1>4, <1>5
<1>9. EntriesOf(h) = EntriesOf(node) /\ \A a \in EntriesOf(h) : h[a] = node[a]
  BY <1>4 DEF EntriesOf
<1>10. HeapOK(h)
  <2>1. \A a \in DOMAIN h : h[a] \in Node
    <3>1. h[head_] \in Node /\ h[tail_] \in Node
      <4> HIDE DEF hn, tn
      <4> QED
        BY <1>5, <1>7 DEF Node
    <3> QED
      BY <3>1, <1>2, <1>4
  <2>2. h \in [DOMAIN h -> Node]
    <3>1. h = [a \in DOMAIN h |-> h[a]]
      BY <1>3
    <3> QED
      BY <2>1, <3>1
  <2> QED
    BY <2>2, <1>1, <1>2, <1>4, <1>5, <1>9 DEF HeapOK
<1>11. Top(h) = height
  BY <1>5, <1>7 DEF Top
<1>12. \A l : Tall(h, l) = Tall(node, l)
  BY <1>9 DEF Tall
<1>13. \A l \in Nat : l > Top(node) => Tall(h, l) = {}
  BY <1>1, <1>12 DEF Tall, Chained
<1>14. ASSUME NEW l \in 1..Top(h), NEW a \in Way(h, l) PROVE Follows(h, l, a, h[a].nexts[l])
  <2>1. /\ a \in Way(node, l) /\ Tall(h, l) = Tall(node, l)
        /\ \A x \in Way(node, l) : x \in DOMAIN node /\ h[x].key = node[x].key
    BY <1>1, <1>8, <1>4, <1>12, WayKeys DEF Way
  <2>2. CASE l <= Top(node)
    <3>1. l \in 1..Top(node) /\ Follows(node, l, a, node[a].nexts[l])
      BY <1>1, <2>1, <2>2 DEF Chained
    <3>2. h[a].nexts[l] = node[a].nexts[l]
      BY <3>1, <1>5, <1>6, <1>9, <1>11, <1>12 DEF Way, Tall
    <3> QED
      BY <2>1, <3>1, <3>2, TallWay DEF Follows
  <2>3. CASE l > Top(node)
    <3>1. Tall(h, l) = {} /\ a = head_
      BY <2>3, <1>13 DEF Way
    <3>2. h[a].nexts[l] = tail_
      BY <3>1, <2>3, <1>1, <1>5, <1>6, <1>11
    <3> QED
      BY <3>1, <3>2 DEF Follows
  <2> QED
    BY <2>2, <2>3, <1>1
<1>15. Chained(h)
  <2>1. \A a \in EntriesOf(h) : Len(h[a].nexts) \in 1..Top(h)
    BY <1>1, <1>9, <1>11 DEF Chained
  <2>2. Top(h) >= 1 /\ Len(h[tail_].nexts) = Top(h)
    BY <1>1, <1>5, <1>7, <1>11
  <2>3. \A a, b \in EntriesOf(h) : h[a].key = h[b].key => a = b
    BY <1>1, <1>9 DEF Chained
  <2> QED
    BY <2>1, <2>2, <2>3, <1>14 DEF Chained
<1> QED
  BY <1>4, <1>8, <1>10, <1>11, <1>12, <1>13, <1>15

\* A new node a of some height has its place behind prev on every level.
Place(h, key, height, a, prev) ==
  /\ HeapOK(h) /\ Chained(h)
  /\ key \in Keys /\ \A b \in EntriesOf(h) : h[b].key # key
  /\ height \in 1..Top(h) /\ a \in Addresses \ DOMAIN h
  /\ \A l \in 1..height : IsStop(h, {k \in Keys : k < key}, l, prev[l])

\* Linking a new node behind the stops of its key keeps the chains.
LEMMA LinkedInOK ==
  ASSUME NEW h, NEW key, NEW height, NEW a, NEW prev, Place(h, key, height, a, prev),
         NEW value \in Values, NEW g, g = LinkedIn(h, a, key, value, height, prev)
  PROVE  /\ HeapOK(g) /\ Chained(g) /\ EntriesOf(g) = EntriesOf(h) \cup {a}
         /\ g[a].key = key /\ g[a].value = value
         /\ \A x \in DOMAIN h : g[x].key = h[x].key /\ g[x].value = h[x].value
<1> HeapOK(h) /\ Chained(h)
  BY DEF Place
<1> key \in Keys /\ \A b \in EntriesOf(h) : h[b].key # key
  BY DEF Place
<1> height \in 1..Top(h) /\ a \in Addresses \ DOMAIN h
  BY DEF Place
<1> \A l \in 1..height : IsStop(h, {k \in Keys : k < key}, l, prev[l])
  BY DEF Place
<1> DEFINE new == [l \in 1..height |-> h[prev[l]].nexts[l]]
           nx(x) == [l \in DOMAIN h[x].nexts |-> IF l <= height THEN IF prev[l] = x THEN a ELSE h[x].nexts[l]
                                                 ELSE h[x].nexts[l]]
<1>0. /\ a \in Nat /\ a # head_ /\ a # tail_ /\ a \notin DOMAIN h /\ Top(h) \in Nat
      /\ head_ \in DOMAIN h /\ tail_ \in DOMAIN h /\ head_ # tail_
      /\ h \in [DOMAIN h -> Node] /\ key \in Nat /\ value \in Nat /\ height \in Nat
  <2>1. head_ \in DOMAIN h /\ h \in [DOMAIN h -> Node]
    BY DEF HeapOK
  <2>2. Top(h) \in Nat
    BY <2>1 DEF Node, Top
  <2> QED
    BY <2>1, <2>2, Constants DEF HeapOK
<1>1. /\ DOMAIN g = DOMAIN h \cup {a}
      /\ g[a] = [key |-> key, value |-> value, nexts |-> new]
      /\ \A x \in DOMAIN h : g[x] = [h[x] EXCEPT !.nexts = nx(x)]
  <2>1. [NewNode(key, value, height) EXCEPT !.nexts = new] = [key |-> key, value |-> value, nexts |-> new]
    <3> HIDE DEF new
    <3> QED
      BY DEF NewNode
  <2> QED
    BY <1>0, <2>1 DEF LinkedIn
<1>2. ASSUME NEW x \in DOMAIN h
      PROVE  /\ g[x].key = h[x].key /\ g[x].value = h[x].value /\ g[x].nexts = nx(x)
             /\ g[x] = [key |-> h[x].key, value |-> h[x].value, nexts |-> nx(x)]
             /\ h[x].key \in Nat /\ h[x].value \in Nat /\ h[x].nexts \in Seq(Nat)
  <2>1. h[x] \in Node
    BY <1>0
  <2> HIDE DEF nx
  <2> QED
    BY <1>1, <2>1 DEF Node
<1>3. ASSUME NEW x \in DOMAIN h PROVE nx(x) \in Seq(Nat) /\ Len(nx(x)) = Len(h[x].nexts)
  <2>1. h[x].nexts \in Seq(Nat) /\ DOMAIN h[x].nexts = 1..Len(h[x].nexts) /\ Len(h[x].nexts) \in Nat
    <3> HIDE DEF nx
    <3>1. h[x].nexts \in Seq(Nat)
      BY <1>2, Zenon
    <3> QED
      BY <3>1
  <2>2. nx(x) \in [1..Len(h[x].nexts) -> Nat]
    BY <2>1, <1>0
  <2> QED
    BY <2>1, <2>2
<1>4. ASSUME NEW l \in 1..height
      PROVE  /\ prev[l] \in Way(h, l) /\ prev[l] \in DOMAIN h /\ h[prev[l]].key < key
             /\ \A b \in Tall(h, l) : h[b].key < key => h[b].key <= h[prev[l]].key
             /\ l \in 1..Top(h) /\ Follows(h, l, prev[l], new[l])
  <2>1. IsStop(h, {k \in Keys : k < key}, l, prev[l]) /\ l \in 1..Top(h)
    BY <1>0
  <2>2. prev[l] \in Way(h, l) /\ prev[l] \in DOMAIN h
    BY <2>1, WayKeys DEF IsStop
  <2>3. h[prev[l]].key < key
    BY <2>1, Constants, <1>0 DEF IsStop
  <2>4. \A b \in Tall(h, l) : h[b].key \in Keys
    BY DEF Tall, HeapOK
  <2>5. Follows(h, l, prev[l], new[l])
    BY <2>1, <2>2 DEF Chained
  <2> QED
    BY <2>1, <2>2, <2>3, <2>4, <2>5 DEF IsStop
<1>5. new \in Seq(Nat) /\ Len(new) = height
  <2>1. \A l \in 1..height : new[l] \in Nat
    BY <1>4, <1>0, Constants DEF Follows, Tall, EntriesOf, HeapOK
  <2>2. new \in [1..height -> Nat]
    BY <2>1
  <2> QED
    BY <2>2, <1>0
<1>6. /\ g[a].key = key /\ g[a].value = value /\ g[a].nexts = new
      /\ EntriesOf(g) = EntriesOf(h) \cup {a}
  BY <1>0, <1>1 DEF EntriesOf
<1> HIDE DEF new
<1>7. /\ Top(g) = Top(h)
      /\ \A x \in DOMAIN h : Len(g[x].nexts) = Len(h[x].nexts)
      /\ Len(g[a].nexts) = height
  BY <1>0, <1>2, <1>3, <1>5, <1>6 DEF Top
<1>8. \A l \in 1..Top(h) : Tall(g, l) = Tall(h, l) \cup (IF l <= height THEN {a} ELSE {})
  BY <1>6, <1>7 DEF Tall, EntriesOf
<1>9. HeapOK(g)
  <2>1. \A x \in DOMAIN h : g[x] \in Node
    <3> HIDE DEF nx
    <3>1. ASSUME NEW x \in DOMAIN h PROVE g[x] \in Node
      <4>1. /\ g[x] = [key |-> h[x].key, value |-> h[x].value, nexts |-> nx(x)]
            /\ h[x].key \in Nat /\ h[x].value \in Nat /\ nx(x) \in Seq(Nat)
        BY <1>2, <1>3
      <4> QED
        BY <4>1 DEF Node
    <3> QED
      BY <3>1
  <2>2. g[a] \in Node
    BY <1>0, <1>1, <1>5 DEF Node
  <2>3. g \in [DOMAIN g -> Node]
    <3>1. g = [x \in DOMAIN g |-> g[x]]
      BY DEF LinkedIn
    <3> QED
      BY <2>1, <2>2, <3>1, <1>1
  <2>4. \A x \in EntriesOf(g) : g[x].key \in Keys /\ g[x].value \in Values
    BY <1>2, <1>6 DEF HeapOK, EntriesOf
  <2> QED
    BY <2>3, <2>4, <1>0, <1>1, <1>2, <1>6 DEF HeapOK
<1>10. ASSUME NEW l \in 1..Top(h), NEW x \in Way(g, l) PROVE Follows(g, l, x, g[x].nexts[l])
  <2> DEFINE T == Tall(h, l)
  <2>1. /\ \A b \in T : b \in DOMAIN h /\ b # a /\ g[b].key = h[b].key /\ h[b].key \in Nat /\ h[b].key # key
        /\ g[a].key = key /\ key \in Nat
    BY <1>0, <1>2, <1>6 DEF Tall, EntriesOf
  <2>2. x \in Way(h, l) \/ (x = a /\ l <= height)
    <3>1. Tall(g, l) = Tall(h, l) \cup (IF l <= height THEN {a} ELSE {})
      BY <1>8
    <3> QED
      BY <3>1 DEF Way
  <2>3. x \in Way(h, l) => x \in DOMAIN h /\ x # a /\ g[x].key = h[x].key /\ h[x].key \in Nat
                           /\ l \in DOMAIN h[x].nexts /\ Follows(h, l, x, h[x].nexts[l])
    <3>1. SUFFICES ASSUME x \in Way(h, l)
                   PROVE  x \in DOMAIN h /\ x # a /\ g[x].key = h[x].key /\ h[x].key \in Nat
                          /\ l \in DOMAIN h[x].nexts /\ Follows(h, l, x, h[x].nexts[l])
      OBVIOUS
    <3>2. x \in DOMAIN h /\ Len(h[x].nexts) >= l
      BY <3>1, <1>0 DEF Way, Tall, EntriesOf, Top
    <3>3. l \in DOMAIN h[x].nexts
      BY <3>2, <1>2, <1>0
    <3> QED
      BY <3>1, <3>2, <3>3, <1>2, <1>0 DEF Chained
  <2>4. CASE l > height
    <3>1. Tall(g, l) = T /\ x \in Way(h, l)
      <4>1. Tall(g, l) = T \cup (IF l <= height THEN {a} ELSE {})
        BY <1>8
      <4>2. ~(l <= height)
        BY <2>4, <1>0
      <4> QED
        BY <4>1, <4>2, <2>2
    <3>2. g[x].nexts[l] = h[x].nexts[l]
      <4>1. g[x].nexts = nx(x) /\ l \in DOMAIN h[x].nexts /\ ~(l <= height)
        <5> HIDE DEF nx
        <5>1. l \in Nat
          BY <1>0
        <5>2. x \in DOMAIN h /\ l \in DOMAIN h[x].nexts
          BY <3>1, <2>3, Zenon
        <5>3. g[x].nexts = nx(x)
          BY <5>2, <1>2, Zenon
        <5> QED
          BY <5>1, <5>2, <5>3, <2>4, <1>0
      <4> QED
        BY <4>1
    <3> QED
      BY <3>1, <3>2, <2>1, <2>3 DEF Follows
  <2>5. CASE l <= height
    <3> DEFINE p == prev[l]
    <3>1. l \in 1..height /\ Tall(g, l) = T \cup {a}
      BY <2>5, <1>8, <1>0
    <3>2. /\ p \in Way(h, l) /\ p \in DOMAIN h /\ h[p].key < key /\ h[p].key \in Nat
          /\ \A b \in T : h[b].key < key => h[b].key <= h[p].key
          /\ Follows(h, l, p, new[l])
      BY <3>1, <1>2, <1>4
    <3> HIDE DEF p, T
    <3>3. CASE x = a
      <4>1. g[x].nexts[l] = new[l] /\ g[x].key = key
        BY <3>3, <1>6
      <4>2. CASE new[l] = tail_ /\ \A b \in T : h[b].key <= h[p].key
        <5>1. \A b \in Tall(g, l) : g[b].key <= key
          BY <4>2, <3>1, <3>2, <2>1
        <5> QED
          BY <4>1, <4>2, <5>1 DEF Follows
      <4>3. CASE /\ new[l] \in T /\ h[new[l]].key > h[p].key
                 /\ \A b \in T : h[b].key > h[p].key => h[new[l]].key <= h[b].key
        <5>1. g[new[l]].key = h[new[l]].key /\ h[new[l]].key > key
          BY <4>3, <3>2, <2>1
        <5>2. \A b \in T : h[b].key > key => h[b].key > h[p].key
          BY <3>2, <2>1
        <5>3. \A b \in Tall(g, l) : g[b].key > key => g[new[l]].key <= g[b].key
          BY <5>1, <5>2, <4>3, <3>1, <2>1
        <5>4. new[l] \in Tall(g, l)
          BY <4>3, <3>1
        <5> QED
          BY <4>1, <5>1, <5>3, <5>4 DEF Follows
      <4> QED
        BY <3>2, <4>2, <4>3 DEF Follows, T
    <3>4. CASE x \in Way(h, l) /\ x = p
      <4>1. g[x].nexts[l] = a
        BY <3>4, <2>3, <2>5, <1>2 DEF p
      <4>2. \A b \in Tall(g, l) : g[b].key > h[p].key => key <= g[b].key
        BY <3>1, <3>2, <2>1
      <4> QED
        BY <4>1, <4>2, <3>1, <3>2, <3>4, <2>1, <2>3 DEF Follows
    <3>5. CASE x \in Way(h, l) /\ x # p
      <4>1. g[x].nexts[l] = h[x].nexts[l]
        BY <3>5, <2>3, <2>5, <1>2 DEF p
      <4>2. ASSUME key > h[x].key PROVE p \in T /\ h[p].key > h[x].key
        <5>1. h[x].key # h[p].key
          BY <3>2, <3>5, KeyOfOne
        <5>2. h[x].key <= h[p].key
          <6>1. CASE x = head_
            BY <6>1, <3>2, <2>3, <1>0 DEF HeapOK
          <6>2. CASE x # head_
            BY <6>2, <4>2, <3>2, <3>5, <2>3, <2>1 DEF Way, T
          <6> QED
            BY <6>1, <6>2
        <5>3. h[p].key > h[x].key
          BY <5>1, <5>2, <3>2, <3>5, <2>3
        <5>4. p # head_
          BY <5>3, <3>5, <2>3 DEF HeapOK
        <5> QED
          BY <5>3, <5>4, <3>2 DEF Way, T
      <4> DEFINE n == h[x].nexts[l]
      <4>3. CASE n = tail_ /\ \A b \in T : h[b].key <= h[x].key
        <5>1. ~(key > h[x].key)
          BY <4>2, <4>3, <2>1, <2>3, <3>5
        <5>2. \A b \in Tall(g, l) : g[b].key <= g[x].key
          BY <4>3, <5>1, <3>1, <3>5, <2>1, <2>3
        <5> QED
          BY <4>1, <4>3, <5>2 DEF Follows
      <4>4. CASE /\ n \in T /\ h[n].key > h[x].key
                 /\ \A b \in T : h[b].key > h[x].key => h[n].key <= h[b].key
        <5>1. key > h[x].key => h[n].key <= h[p].key
          BY <4>2, <4>4
        <5>2. key > h[x].key => h[n].key <= key
          BY <5>1, <4>4, <3>2, <2>1
        <5>3. \A b \in Tall(g, l) : g[b].key > g[x].key => g[n].key <= g[b].key
          BY <4>4, <5>2, <3>1, <3>5, <2>1, <2>3
        <5>4. n \in Tall(g, l) /\ g[n].key > g[x].key
          BY <4>4, <3>1, <3>5, <2>1, <2>3
        <5> QED
          BY <4>1, <5>3, <5>4 DEF Follows
      <4> QED
        BY <3>5, <2>3, <4>3, <4>4 DEF Follows, T
    <3> QED
      BY <2>2, <3>3, <3>4, <3>5
  <2> QED
    BY <2>4, <2>5, <1>0
<1>11. Chained(g)
  <2>1. \A x \in EntriesOf(g) : Len(g[x].nexts) \in 1..Top(g)
    BY <1>6, <1>7 DEF Chained, EntriesOf
  <2>2. Top(g) >= 1 /\ Len(g[tail_].nexts) = Top(g)
    BY <1>0, <1>7 DEF Chained
  <2>3. ASSUME NEW x \in EntriesOf(g), NEW y \in EntriesOf(g), g[x].key = g[y].key PROVE x = y
    <3>1. \A z \in EntriesOf(h) : g[z].key = h[z].key /\ h[z].key # key
      BY <1>2 DEF EntriesOf
    <3> QED
      BY <2>3, <3>1, <1>6 DEF Chained
  <2> QED
    BY <2>1, <2>2, <2>3, <1>7, <1>10 DEF Chained
<1> QED
  BY <1>2, <1>6, <1>9, <1>11

\* Unlinking an entry from the stops of its key keeps the chains.
LEMMA LinkedOutOK ==
  ASSUME ListInv, NEW a \in EntriesOf(node), NEW prev,
         \A l \in 1..Top(node) : IsStop(node, {k \in Keys : k < node[a].key}, l, prev[l]),
         NEW g, g = LinkedOut(a, prev)
  PROVE  /\ HeapOK(g) /\ Chained(g) /\ EntriesOf(g) = EntriesOf(node) \ {a}
         /\ \A x \in DOMAIN g : g[x].key = node[x].key /\ g[x].value = node[x].value
<1> DEFINE h == node
           key == h[a].key
           height == Len(h[a].nexts)
           nx(x) == [l \in DOMAIN h[x].nexts |->
                       IF l <= Height(a) THEN IF prev[l] = x THEN h[a].nexts[l] ELSE h[x].nexts[l]
                       ELSE h[x].nexts[l]]
<1>0. /\ HeapOK(h) /\ Chained(h) /\ Top(h) \in Nat /\ Top(h) >= 1
      /\ a # head_ /\ a # tail_ /\ a \in DOMAIN h /\ head_ \in DOMAIN h /\ tail_ \in DOMAIN h /\ head_ # tail_
      /\ h \in [DOMAIN h -> Node] /\ key \in Nat /\ key \in Keys
      /\ height \in 1..Top(h) /\ height \in Nat /\ Height(a) = height
  <2>1. height \in 1..Top(h) /\ HeapOK(h) /\ Chained(h) /\ Top(h) \in Nat /\ Top(h) >= 1
    BY ListWay DEF Chained
  <2> QED
    BY <2>1, Constants DEF HeapOK, EntriesOf, Height
<1>1. /\ DOMAIN g = DOMAIN h \ {a}
      /\ \A x \in DOMAIN g : g[x] = [h[x] EXCEPT !.nexts = nx(x)]
  BY DEF LinkedOut
<1>2. ASSUME NEW x \in DOMAIN h
      PROVE  h[x].key \in Nat /\ h[x].value \in Nat /\ h[x].nexts \in Seq(Nat)
  BY <1>0 DEF Node
<1>3. ASSUME NEW x \in DOMAIN g
      PROVE  /\ x \in DOMAIN h /\ x # a
             /\ g[x].key = h[x].key /\ g[x].value = h[x].value /\ g[x].nexts = nx(x)
             /\ g[x] = [key |-> h[x].key, value |-> h[x].value, nexts |-> nx(x)]
  <2>1. h[x] \in Node /\ x \in DOMAIN h /\ x # a
    BY <1>0, <1>1
  <2> HIDE DEF nx, h
  <2> QED
    BY <1>1, <2>1 DEF Node
<1>4. ASSUME NEW l \in 1..height
      PROVE  /\ prev[l] \in Way(h, l) /\ prev[l] \in DOMAIN h /\ h[prev[l]].key < key
             /\ \A b \in Tall(h, l) : h[b].key < key => h[b].key <= h[prev[l]].key
             /\ l \in 1..Top(h) /\ Follows(h, l, a, h[a].nexts[l])
             /\ a \in Tall(h, l) /\ h[a].nexts[l] \in Nat
  <2>1. IsStop(h, {k \in Keys : k < key}, l, prev[l]) /\ l \in 1..Top(h)
    <3>1. l \in 1..Top(h)
      <4> HIDE DEF height, h
      <4> QED
        BY <1>0
    <3> QED
      BY <3>1
  <2>2. prev[l] \in Way(h, l) /\ prev[l] \in DOMAIN h
    BY <1>0, <2>1, WayKeys DEF IsStop
  <2>3. h[prev[l]].key < key
    BY <2>1, Constants, <1>0 DEF IsStop
  <2>4. \A b \in Tall(h, l) : h[b].key \in Keys
    BY <1>0 DEF Tall, HeapOK
  <2>5. a \in Tall(h, l)
    BY <1>0 DEF Tall
  <2>6. Follows(h, l, a, h[a].nexts[l])
    BY <1>0, <2>1, <2>5, TallWay DEF Chained
  <2>7. h[a].nexts[l] \in Nat
    <3>1. h[a].nexts \in Seq(Nat) /\ l \in 1..Len(h[a].nexts)
      BY <1>0, <1>2
    <3> QED
      BY <3>1
  <2> QED
    BY <2>1, <2>2, <2>3, <2>4, <2>5, <2>6, <2>7 DEF IsStop
<1>5. ASSUME NEW x \in DOMAIN h PROVE nx(x) \in Seq(Nat) /\ Len(nx(x)) = Len(h[x].nexts)
  <2>1. h[x].nexts \in Seq(Nat) /\ DOMAIN h[x].nexts = 1..Len(h[x].nexts) /\ Len(h[x].nexts) \in Nat
    <3>1. h[x].nexts \in Seq(Nat)
      BY <1>2, Zenon
    <3> QED
      BY <3>1
  <2>2. ASSUME NEW l \in DOMAIN h[x].nexts, l <= Height(a) PROVE h[a].nexts[l] \in Nat
    <3>1. l \in 1..height
      BY <2>1, <2>2, <1>0
    <3> QED
      BY <3>1, <1>4
  <2>3. nx(x) \in [1..Len(h[x].nexts) -> Nat]
    BY <2>1, <2>2, <1>0
  <2> QED
    BY <2>1, <2>3
<1> HIDE DEF h, nx
<1>6. EntriesOf(g) = EntriesOf(h) \ {a}
  BY <1>0, <1>1 DEF EntriesOf
<1>7. Top(g) = Top(h) /\ \A x \in DOMAIN g : Len(g[x].nexts) = Len(h[x].nexts)
  BY <1>0, <1>1, <1>3, <1>5 DEF Top
<1>8. \A l \in 1..Top(h) : Tall(g, l) = Tall(h, l) \ {a}
  <2>1. \A x \in EntriesOf(g) : Len(g[x].nexts) = Len(h[x].nexts)
    BY <1>7 DEF EntriesOf
  <2> QED
    BY <1>6, <2>1 DEF Tall
<1>9. HeapOK(g)
  <2>1. ASSUME NEW x \in DOMAIN g PROVE g[x] \in Node
    <3>1. /\ g[x] = [key |-> h[x].key, value |-> h[x].value, nexts |-> nx(x)]
          /\ h[x].key \in Nat /\ h[x].value \in Nat /\ nx(x) \in Seq(Nat)
      BY <1>2, <1>3, <1>5
    <3> QED
      BY <3>1 DEF Node
  <2>2. g \in [DOMAIN g -> Node]
    <3>1. g = [x \in DOMAIN g |-> g[x]]
      BY DEF LinkedOut
    <3> QED
      BY <2>1, <3>1
  <2>3. \A x \in EntriesOf(g) : g[x].key \in Keys /\ g[x].value \in Values
    BY <1>0, <1>3, <1>6 DEF HeapOK, EntriesOf
  <2> QED
    BY <2>2, <2>3, <1>0, <1>1, <1>3, <1>6 DEF HeapOK
<1>10. ASSUME NEW l \in 1..Top(h), NEW x \in Way(g, l) PROVE Follows(g, l, x, g[x].nexts[l])
  <2> DEFINE T == Tall(h, l)
             n == h[x].nexts[l]
  <2>1. /\ Tall(g, l) = T \ {a} /\ l \in Nat
        /\ \A b \in T : b \in DOMAIN h /\ h[b].key \in Nat /\ b # tail_
        /\ \A b \in T \ {a} : g[b].key = h[b].key /\ h[b].key # key
    <3>1. \A b \in T : b \in DOMAIN h /\ h[b].key \in Nat /\ b # tail_
      BY <1>2 DEF Tall, EntriesOf
    <3>2. ASSUME NEW b \in T, b # a PROVE g[b].key = h[b].key /\ h[b].key # key
      <4>1. b \in EntriesOf(h) /\ b \in DOMAIN g
        BY <3>2, <1>1 DEF Tall, EntriesOf
      <4>2. h[b].key # h[a].key
        BY <4>1, <3>2, <1>0 DEF Chained, h
      <4> QED
        BY <4>1, <4>2, <1>3
    <3>3. Tall(g, l) = T \ {a} /\ l \in Nat
      BY <1>8
    <3> QED
      BY <3>1, <3>2, <3>3
  <2>2. x \in Way(h, l) /\ x # a /\ x \in DOMAIN g /\ x \in DOMAIN h
    BY <2>1, <1>0, <1>1, WayKeys DEF Way
  <2>3. g[x].key = h[x].key /\ h[x].key \in Nat /\ Follows(h, l, x, n)
    BY <2>2, <1>0, <1>2, <1>3 DEF Chained
  <2>4. l \in DOMAIN h[x].nexts
    <3>1. Len(h[x].nexts) >= l /\ Len(h[x].nexts) \in Nat
      BY <2>2, <1>0, <1>2 DEF Way, Tall, Top
    <3>2. DOMAIN h[x].nexts = 1..Len(h[x].nexts)
      BY <2>2, <1>2
    <3> QED
      BY <3>1, <3>2, <2>1
  <2>5. g[x].nexts[l] = IF l <= height THEN IF prev[l] = x THEN h[a].nexts[l] ELSE n ELSE n
    <3>1. g[x].nexts = nx(x)
      BY <2>2, <1>3
    <3> QED
      BY <3>1, <2>4, <1>0 DEF nx
  <2>6. CASE l > height
    <3>1. a \notin T /\ g[x].nexts[l] = n
      BY <2>5, <2>6, <2>1, <1>0 DEF Tall
    <3> QED
      BY <3>1, <2>1, <2>3 DEF Follows
  <2>7. CASE l <= height
    <3> DEFINE p == prev[l]
               m == h[a].nexts[l]
    <3>1. /\ p \in Way(h, l) /\ p \in DOMAIN h /\ h[p].key < key /\ h[p].key \in Nat
          /\ \A b \in T : h[b].key < key => h[b].key <= h[p].key
          /\ Follows(h, l, a, m) /\ a \in T
      <4>1. l \in 1..height
        BY <2>7, <2>1, <1>0
      <4> QED
        BY <4>1, <1>2, <1>4
    <3> HIDE DEF p, T, m, n
    <3>2. CASE x = p
      <4>1. g[x].nexts[l] = m
        BY <2>5, <2>7, <3>2 DEF p, m
      <4>2. \A b \in T \ {a} : h[b].key > h[p].key => h[b].key > key
        BY <3>1, <2>1, <1>0
      <4>3. CASE m = tail_ /\ \A b \in T : h[b].key <= key
        <5>1. \A b \in Tall(g, l) : g[b].key <= g[x].key
          BY <4>2, <4>3, <3>1, <3>2, <2>1, <2>3, <1>0
        <5> QED
          BY <5>1, <4>1, <4>3 DEF Follows
      <4>4. CASE /\ m \in T /\ h[m].key > key
                 /\ \A b \in T : h[b].key > key => h[m].key <= h[b].key
        <5>1. m # a /\ m \in Tall(g, l) /\ g[m].key = h[m].key /\ g[m].key > g[x].key
          BY <4>4, <3>1, <3>2, <2>1, <2>3, <1>0
        <5>2. \A b \in Tall(g, l) : g[b].key > g[x].key => g[m].key <= g[b].key
          BY <5>1, <4>2, <4>4, <3>2, <2>1, <2>3
        <5> QED
          BY <5>1, <5>2, <4>1 DEF Follows
      <4> QED
        BY <3>1, <4>3, <4>4 DEF Follows, T
    <3>3. CASE x # p
      <4>1. g[x].nexts[l] = n
        BY <2>5, <3>3 DEF p
      <4>2. ASSUME n = a, n \in T, h[n].key > h[x].key,
                   \A b \in T : h[b].key > h[x].key => h[n].key <= h[b].key
            PROVE  FALSE
        <5>1. h[x].key # h[p].key
          BY <2>2, <3>1, <3>3, <1>0, KeyOfOne
        <5>2. h[x].key <= h[p].key
          <6>1. CASE x = head_
            BY <6>1, <3>1, <1>0 DEF HeapOK
          <6>2. CASE x # head_
            BY <6>2, <4>2, <3>1, <2>2 DEF Way, T
          <6> QED
            BY <6>1, <6>2
        <5>3. h[p].key > h[x].key
          BY <5>1, <5>2, <3>1, <2>3
        <5>4. p # head_
          BY <5>3, <2>3, <1>0 DEF HeapOK
        <5>5. p \in T
          BY <5>4, <3>1 DEF Way, T
        <5>6. key <= h[p].key
          BY <5>3, <5>5, <4>2
        <5> QED
          BY <5>6, <3>1, <1>0
      <4>3. CASE n = tail_ /\ \A b \in T : h[b].key <= h[x].key
        BY <4>1, <4>3, <2>1, <2>3 DEF Follows
      <4>4. CASE /\ n \in T /\ h[n].key > h[x].key
                 /\ \A b \in T : h[b].key > h[x].key => h[n].key <= h[b].key
        <5>1. n # a
          BY <4>2, <4>4
        <5> QED
          BY <5>1, <4>1, <4>4, <2>1, <2>3 DEF Follows
      <4> QED
        BY <2>3, <4>3, <4>4 DEF Follows, T
    <3> QED
      BY <3>2, <3>3
  <2> QED
    BY <2>1, <2>6, <2>7, <1>0
<1>11. Chained(g)
  <2>1. \A x \in EntriesOf(g) : x \in DOMAIN g /\ x \in EntriesOf(h)
    BY <1>6 DEF EntriesOf
  <2>2. \A x \in EntriesOf(g) : Len(g[x].nexts) \in 1..Top(g)
    BY <2>1, <1>0, <1>7 DEF Chained
  <2>3. Top(g) >= 1 /\ Len(g[tail_].nexts) = Top(g)
    BY <1>0, <1>1, <1>7 DEF Chained
  <2>4. \A x, y \in EntriesOf(g) : g[x].key = g[y].key => x = y
    BY <2>1, <1>0, <1>3 DEF Chained
  <2> QED
    BY <2>2, <2>3, <2>4, <1>7, <1>10 DEF Chained
<1> QED
  BY <1>3, <1>6, <1>9, <1>11 DEF h

(***************************************************************************)
(* The operations.                                                         *)
(***************************************************************************)

\* g is heap h with value at key, held by node a.
Puts(h, g, a, key, value) ==
  /\ HeapOK(g) /\ Chained(g) /\ EntriesOf(g) = EntriesOf(h) \cup {a}
  /\ g[a].key = key /\ g[a].value = value
  /\ \A x \in EntriesOf(h) \ {a} : g[x].key = h[x].key /\ g[x].value = h[x].value
  /\ a \in EntriesOf(h) => h[a].key = key
  /\ a \notin EntriesOf(h) => \A x \in EntriesOf(h) : h[x].key # key

\* g is heap h without node a.
Takes(h, g, a) ==
  /\ HeapOK(g) /\ Chained(g) /\ a \in EntriesOf(h) /\ EntriesOf(g) = EntriesOf(h) \ {a}
  /\ \A x \in EntriesOf(g) : g[x].key = h[x].key /\ g[x].value = h[x].value

LEMMA UpdateStep ==
  ASSUME ListInv, NEW key \in Keys, NEW value \in Values, Update(key, value)
  PROVE  \E a \in EntriesOf(node) :
           /\ Puts(node, node', a, key, value)
           /\ num_bytes_' = num_bytes_ - node[a].value + value /\ num_entries_' = num_entries_
<1>1. PICK a \in EntriesOf(node) : node[a].key = key /\ findGreatorOrEqual(key) = a
  BY Found DEF Update
<1>2. /\ node' = [node EXCEPT ![a].value = value]
      /\ num_bytes_' = num_bytes_ - node[a].value + value /\ num_entries_' = num_entries_
  BY <1>1 DEF Update
<1>3. HeapOK(node) /\ Chained(node) /\ a \in DOMAIN node /\ a # head_ /\ a # tail_
  BY DEF ListInv, EntriesOf
<1>4. node[a] \in Node /\ value \in Nat
  BY <1>3, Constants DEF HeapOK
<1>5. /\ DOMAIN node' = DOMAIN node /\ \A x \in DOMAIN node : x # a => node'[x] = node[x]
      /\ node'[a] = [node[a] EXCEPT !.value = value]
  BY <1>2, <1>3 DEF HeapOK
<1>6. node'[a] \in Node /\ node'[a].key = key /\ node'[a].value = value /\ node'[a].nexts = node[a].nexts
  BY <1>1, <1>4, <1>5 DEF Node
<1>7. /\ \A x \in DOMAIN node : node'[x].key = node[x].key /\ node'[x].nexts = node[x].nexts
      /\ EntriesOf(node') = EntriesOf(node) /\ Top(node') = Top(node)
      /\ \A l : Tall(node', l) = Tall(node, l)
  <2>1. \A x \in DOMAIN node : node'[x].key = node[x].key /\ node'[x].nexts = node[x].nexts
    BY <1>1, <1>5, <1>6
  <2>2. EntriesOf(node') = EntriesOf(node)
    BY <1>5 DEF EntriesOf
  <2>3. \A x \in EntriesOf(node) : x \in DOMAIN node
    BY DEF EntriesOf
  <2>4. Top(node') = Top(node)
    BY <2>1, <1>3 DEF Top, HeapOK
  <2> QED
    BY <2>1, <2>2, <2>3, <2>4 DEF Tall
<1>8. HeapOK(node')
  <2>1. node' \in [DOMAIN node' -> Node]
    <3>1. node' = [x \in DOMAIN node |-> IF x = a THEN node'[a] ELSE node[x]]
      BY <1>2, <1>5, <1>3 DEF HeapOK
    <3> QED
      BY <3>1, <1>3, <1>5, <1>6 DEF HeapOK
  <2>2. \A x \in EntriesOf(node) : x \in DOMAIN node
    BY DEF EntriesOf
  <2> QED
    BY <2>1, <2>2, <1>3, <1>5, <1>6, <1>7 DEF HeapOK
<1>9. Chained(node')
  <2>1. ASSUME NEW l \in 1..Top(node'), NEW x \in Way(node', l)
        PROVE  Follows(node', l, x, node'[x].nexts[l])
    <3>1. x \in Way(node, l) /\ x \in DOMAIN node /\ \A b \in Tall(node, l) : b \in DOMAIN node
      BY <1>3, <1>7 DEF Way, Tall, EntriesOf, HeapOK
    <3>2. Follows(node, l, x, node[x].nexts[l])
      BY <3>1, <1>3, <1>7 DEF Chained
    <3> QED
      BY <3>1, <3>2, <1>7 DEF Follows
  <2>2. \A x \in EntriesOf(node) : x \in DOMAIN node
    BY DEF EntriesOf
  <2>3. tail_ \in DOMAIN node
    BY <1>3 DEF HeapOK
  <2> QED
    BY <2>1, <2>2, <2>3, <1>3, <1>7 DEF Chained
<1>10. Puts(node, node', a, key, value)
  BY <1>1, <1>5, <1>6, <1>7, <1>8, <1>9 DEF Puts, EntriesOf
<1> QED
  BY <1>2, <1>10

LEMMA InsertStep ==
  ASSUME ListInv, NEW key \in Keys, NEW value \in Values, Insert(key, value)
  PROVE  \E a :
           /\ a \notin EntriesOf(node) /\ Puts(node, node', a, key, value)
           /\ num_bytes_' = num_bytes_ + key + value /\ num_entries_' = num_entries_ + 1
<1> DEFINE P == {k \in Keys : k < key}
           a == Min(Addresses \ DOMAIN node)
<1>1. HeapOK(node) /\ Chained(node) /\ Top(node) \in Nat /\ Top(node) >= 1 /\ getMaxHeight = Top(node)
  BY ListWay
<1>2. \A b \in EntriesOf(node) : node[b].key # key
  BY Found DEF Insert
<1>3. a \in Addresses \ DOMAIN node
  BY <1>1, <1>2, FreeAddress
<1>4. \A l \in 1..Top(node) : IsStop(node, P, l, prevs(key)[l])
  <2>1. UpTo(P)
    BY Constants DEF UpTo
  <2> QED
    BY <2>1, StopsStop DEF prevs
<1> HIDE DEF a
<1>5. PICK height \in 1..max_height_ :
        LET heap == IF height > getMaxHeight THEN enlargeHeight(height) ELSE node
            prev == [l \in 1..height |-> IF l > getMaxHeight THEN head_ ELSE prevs(key)[l]]
        IN  node' = LinkedIn(heap, a, key, value, height, prev)
  BY DEF Insert, a
<1> DEFINE heap == IF height > getMaxHeight THEN enlargeHeight(height) ELSE node
           prev == [l \in 1..height |-> IF l > getMaxHeight THEN head_ ELSE prevs(key)[l]]
<1>6. node' = LinkedIn(heap, a, key, value, height, prev)
  BY <1>5
<1>7. height \in Nat /\ height >= 1
  BY SkipListAssumption
<1>8. /\ HeapOK(heap) /\ Chained(heap) /\ DOMAIN heap = DOMAIN node /\ height \in 1..Top(heap)
      /\ \A x \in DOMAIN node : heap[x].key = node[x].key /\ heap[x].value = node[x].value
      /\ \A l \in 1..height : IsStop(heap, P, l, prev[l])
  <2>1. CASE height > getMaxHeight
    <3>0. heap = enlargeHeight(height)
      BY <2>1
    <3> HIDE DEF heap, P
    <3>1. /\ HeapOK(heap) /\ Chained(heap) /\ Top(heap) = height /\ DOMAIN heap = DOMAIN node
          /\ \A x \in DOMAIN heap : heap[x].key = node[x].key /\ heap[x].value = node[x].value
          /\ \A l \in Nat : Tall(heap, l) = Tall(node, l)
          /\ \A l \in Nat : l > Top(node) => Tall(heap, l) = {}
      BY <2>1, <3>0, <1>1, <1>7, Enlarged
    <3>2. ASSUME NEW l \in 1..height PROVE IsStop(heap, P, l, prev[l])
      <4>1. l \in Nat /\ Tall(heap, l) = Tall(node, l) /\ Way(heap, l) = Way(node, l)
        BY <3>1 DEF Way
      <4>2. CASE l > Top(node)
        <5>1. prev[l] = head_ /\ Tall(heap, l) = {} /\ head_ \in Way(heap, l)
          BY <4>1, <4>2, <1>1, <3>1, TallWay
        <5>2. heap[head_].key = 0
          BY <3>1 DEF HeapOK
        <5> QED
          BY <5>1, <5>2 DEF IsStop
      <4>3. CASE l <= Top(node)
        <5>1. l \in 1..Top(node) /\ prev[l] = prevs(key)[l]
          BY <4>1, <4>3, <1>1
        <5>2. IsStop(node, P, l, prev[l])
          BY <5>1, <1>4
        <5>3. \A x \in Way(node, l) : x \in DOMAIN node
          BY <1>1, WayKeys
        <5>4. \A x \in Way(node, l) : heap[x].key = node[x].key
          BY <5>3, <3>1
        <5> HIDE DEF prev
        <5> QED
          BY <5>2, <5>4, <4>1, TallWay DEF IsStop
      <4> QED
        BY <4>1, <4>2, <4>3, <1>1
    <3> QED
      BY <3>1, <3>2, <1>7
  <2>2. CASE ~(height > getMaxHeight)
    <3>1. heap = node /\ height \in 1..Top(node)
      BY <2>2, <1>1, <1>7
    <3>2. ASSUME NEW l \in 1..height PROVE l \in 1..Top(node) /\ prev[l] = prevs(key)[l]
      BY <2>2, <1>1, <1>7
    <3> HIDE DEF heap, prev, P
    <3> QED
      BY <3>1, <3>2, <1>1, <1>4
  <2> QED
    BY <2>1, <2>2
<1> HIDE DEF heap, prev
<1>9. EntriesOf(heap) = EntriesOf(node) /\ \A b \in EntriesOf(heap) : heap[b].key # key
  BY <1>2, <1>8 DEF EntriesOf
<1>10. /\ HeapOK(node') /\ Chained(node') /\ EntriesOf(node') = EntriesOf(heap) \cup {a}
       /\ node'[a].key = key /\ node'[a].value = value
       /\ \A x \in DOMAIN heap : node'[x].key = heap[x].key /\ node'[x].value = heap[x].value
  <2>1. Place(heap, key, height, a, prev)
    BY <1>3, <1>8, <1>9 DEF Place
  <2> QED
    BY <1>6, <2>1, LinkedInOK
<1>11. a \notin EntriesOf(node)
  BY <1>3 DEF EntriesOf
<1>12. Puts(node, node', a, key, value)
  BY <1>2, <1>8, <1>9, <1>10, <1>11 DEF Puts, EntriesOf
<1> QED
  BY <1>11, <1>12 DEF Insert

LEMMA DelStep ==
  ASSUME ListInv, NEW key \in Keys, del(key)
  PROVE  \E a \in EntriesOf(node) :
           /\ Takes(node, node', a) /\ node[a].key = key
           /\ num_bytes_' = num_bytes_ - key - node[a].value /\ num_entries_' = num_entries_ - 1
<1>1. PICK a \in EntriesOf(node) : node[a].key = key /\ findGreatorOrEqual(key) = a
  BY Found DEF del
<1>2. /\ node' = LinkedOut(a, prevs(key))
      /\ num_bytes_' = num_bytes_ - key - node[a].value /\ num_entries_' = num_entries_ - 1
  BY <1>1 DEF del
<1>3. \A l \in 1..Top(node) : IsStop(node, {k \in Keys : k < node[a].key}, l, prevs(key)[l])
  <2>1. UpTo({k \in Keys : k < key})
    BY Constants DEF UpTo
  <2> QED
    BY <1>1, <2>1, StopsStop DEF prevs
<1>4. /\ HeapOK(node') /\ Chained(node') /\ EntriesOf(node') = EntriesOf(node) \ {a}
      /\ \A x \in DOMAIN node' : node'[x].key = node[x].key /\ node'[x].value = node[x].value
  BY <1>2, <1>3, LinkedOutOK
<1>5. Takes(node, node', a)
  BY <1>4 DEF Takes, EntriesOf
<1> QED
  BY <1>1, <1>2, <1>5

LEMMA EmptyOK ==
  HeapOK(Empty) /\ Chained(Empty) /\ EntriesOf(Empty) = {}
<1>0. head_ # tail_ /\ tail_ \in Nat /\ nullptr \in Nat
  BY Constants
<1>1. /\ DOMAIN Empty = {head_, tail_} /\ EntriesOf(Empty) = {}
      /\ Empty[head_] = [key |-> 0, value |-> 0, nexts |-> <<tail_>>]
      /\ Empty[tail_] = [key |-> 0, value |-> 0, nexts |-> <<nullptr>>]
  BY <1>0 DEF Empty, EntriesOf
<1>2. Empty[head_] \in Node /\ Empty[tail_] \in Node
  BY <1>0, <1>1 DEF Node
<1>3. Empty \in [DOMAIN Empty -> Node]
  BY <1>1, <1>2 DEF Empty
<1>4. HeapOK(Empty)
  BY <1>1, <1>3 DEF HeapOK
<1>5. Top(Empty) = 1 /\ Len(Empty[tail_].nexts) = 1
  BY <1>1 DEF Top
<1>6. \A l : Tall(Empty, l) = {}
  BY <1>1 DEF Tall
<1>7. Chained(Empty)
  <2>1. Empty[head_].nexts[1] = tail_
    BY <1>1
  <2>2. \A l \in 1..1 : \A a \in Way(Empty, l) : Follows(Empty, l, a, Empty[a].nexts[l])
    BY <2>1, <1>6 DEF Way, Follows
  <2> QED
    BY <2>2, <1>1, <1>5 DEF Chained
<1> QED
  BY <1>1, <1>4, <1>7

\* Where the iterator may go: entries and the two ends.
LEMMA Moves ==
  ASSUME ListInv
  PROVE  /\ findLast \in EntriesOf(node) \cup {head_}
         /\ \A l \in 1..Top(node) : \A a \in Way(node, l) : node[a].nexts[l] \in EntriesOf(node) \cup {tail_}
         /\ \A k \in Keys : findLessThan(k) \in EntriesOf(node) \cup {head_}
<1>1. UpTo(Keys) /\ \A k \in Keys : UpTo({j \in Keys : j < k})
  BY Constants DEF UpTo
<1>2. 1 \in 1..Top(node) /\ Way(node, 1) \subseteq EntriesOf(node) \cup {head_}
  BY ListWay DEF Way, Tall
<1>3. IsStop(node, Keys, 1, findLast) /\ \A k \in Keys : IsStop(node, {j \in Keys : j < k}, 1, findLessThan(k))
  BY <1>1, <1>2, StopsStop DEF findLast, findLessThan, prevs
<1>4. \A l \in 1..Top(node) : \A a \in Way(node, l) : node[a].nexts[l] \in EntriesOf(node) \cup {tail_}
  BY DEF ListInv, Chained, Follows, Tall
<1> QED
  BY <1>2, <1>3, <1>4 DEF IsStop

LEMMA MovesOK ==
  ASSUME ListInv, NEW a \in EntriesOf(node) \cup {head_, tail_}, MoveTo(a)
  PROVE  ListInv'
BY DEF ListInv, MoveTo, HeapOK, Chained, EntriesOf, Top, Tall, Way, Follows

\* The iterator's entry is on the lowest level.
LEMMA OnLowest ==
  ASSUME ListInv
  PROVE  /\ head_ \in Way(node, 1) /\ 1 \in 1..Top(node)
         /\ \A a \in EntriesOf(node) : a \in Way(node, 1) /\ node[a].key \in Keys
BY ListWay DEF Way, Tall, ListInv, HeapOK, Chained

LEMMA InvInit == Init => ListInv
BY EmptyOK DEF Init, ListInv

LEMMA InvNext == ListInv /\ [Next]_vars => ListInv'
<1> SUFFICES ASSUME ListInv, [Next]_vars PROVE ListInv'
  OBVIOUS
<1>1. ASSUME NEW k \in Keys, NEW v \in Values, put(k, v) PROVE ListInv'
  <2>1. \E a : Puts(node, node', a, k, v)
    BY <1>1, UpdateStep, InsertStep DEF put
  <2>2. HeapOK(node') /\ Chained(node') /\ node_' = nullptr
    BY <1>1, <2>1 DEF put, Puts
  <2> QED
    BY <2>2 DEF ListInv
<1>2. ASSUME NEW k \in Keys, del(k) PROVE ListInv'
  <2>1. \E a : Takes(node, node', a)
    BY <1>2, DelStep
  <2>2. HeapOK(node') /\ Chained(node') /\ node_' = nullptr
    BY <1>2, <2>1 DEF del, Takes
  <2> QED
    BY <2>2 DEF ListInv
<1>3. ASSUME NEW k \in Keys, Seek(k) PROVE ListInv'
  BY <1>3, Ceiling, MovesOK DEF Seek
<1>4. CASE clear
  BY <1>4, EmptyOK DEF clear, ListInv
<1>5. CASE SeekToFirst
  BY <1>5, Moves, OnLowest, MovesOK DEF SeekToFirst
<1>6. CASE SeekToLast
  BY <1>6, Moves, MovesOK DEF SeekToLast
<1>7. CASE IterNext
  <2>1. node_ \in EntriesOf(node)
    BY <1>7 DEF IterNext, Valid, ListInv
  <2> QED
    BY <1>7, <2>1, Moves, OnLowest, MovesOK DEF IterNext
<1>8. CASE Prev
  <2>1. node_ \in EntriesOf(node)
    BY <1>8 DEF Prev, Valid, ListInv
  <2> QED
    BY <1>8, <2>1, Moves, OnLowest, MovesOK DEF Prev
<1>9. CASE UNCHANGED vars
  BY <1>9 DEF vars, ListInv
<1> QED
  BY <1>1, <1>2, <1>3, <1>4, <1>5, <1>6, <1>7, <1>8, <1>9 DEF Next

\* The heap is always one of sorted chains that hold entries of the right
\* kind, and the iterator stands on one of them or nowhere.
THEOREM ListInvAlways == Spec => []ListInv
BY InvInit, InvNext, PTL DEF Spec

\* put, del, clear, enlargeHeight and the random heights always leave sorted
\* chains on all levels: no node is lost from one or linked where it has no
\* level, and no pointer leads to a deleted node.
THEOREM LevelsStaySorted == Spec => []LevelsSorted
<1>1. ListInv => LevelsSorted
  BY InvSorted
<1> QED
  BY <1>1, ListInvAlways, PTL

\* contains and get always answer from the entries that were put and not
\* deleted, whatever the way down the levels.
THEOREM SearchesFindEntries == Spec => []GetFindsEntries
<1>1. ListInv => GetFindsEntries
  BY InvGets
<1> QED
  BY <1>1, ListInvAlways, PTL

(***************************************************************************)
(* Bytes of a map, as Counted of SortedMap adds them up: the number of     *)
(* elements of a set with as many pairs for every key as the entry has     *)
(* bytes.                                                                  *)
(***************************************************************************)

Space(m) == MapThenSumSet(LAMBDA k : k + m[k], DOMAIN m)

Pile(m, s) == UNION {{x} \X (1..(x + m[x])) : x \in s}

\* A map from finitely many naturals to naturals.
Small(m) ==
  IsFiniteSet(DOMAIN m) /\ DOMAIN m \subseteq Nat /\ \A x \in DOMAIN m : m[x] \in Nat

LEMMA PileFinite ==
  ASSUME NEW m, Small(m), NEW s \in SUBSET DOMAIN m
  PROVE  IsFiniteSet(Pile(m, s)) /\ IsFiniteSet(s)
<1> DEFINE f == [x \in s |-> {x} \X (1..(x + m[x]))]
           R == {{x} \X (1..(x + m[x])) : x \in s}
<1>1. IsFiniteSet(s)
  BY FS_Subset DEF Small
<1>2. f \in Surjection(s, R)
  BY DEF Surjection
<1>3. IsFiniteSet(R)
  <2> HIDE DEF f, R
  <2> QED
    BY <1>1, <1>2, FS_Surjection
<1>4. ASSUME NEW T \in R PROVE IsFiniteSet(T)
  <2>1. PICK x \in s : T = {x} \X (1..(x + m[x]))
    OBVIOUS
  <2>2. x \in Nat /\ m[x] \in Nat
    BY DEF Small
  <2>3. IsFiniteSet({x}) /\ IsFiniteSet(1..(x + m[x]))
    <3>1. 1 \in Int /\ x + m[x] \in Int
      BY <2>2
    <3> QED
      BY <3>1, FS_Singleton, FS_Interval, Zenon
  <2> QED
    BY <2>1, <2>3, FS_Product
<1>5. IsFiniteSet(UNION R)
  <2> HIDE DEF R
  <2> QED
    BY <1>3, <1>4, FS_UNION
<1> QED
  BY <1>1, <1>5 DEF Pile

LEMMA PileStep ==
  ASSUME NEW m, Small(m), NEW s \in SUBSET DOMAIN m, NEW y \in s
  PROVE  /\ Cardinality(Pile(m, s)) = y + m[y] + Cardinality(Pile(m, s \ {y}))
         /\ Cardinality(Pile(m, s)) \in Nat /\ Cardinality(Pile(m, s \ {y})) \in Nat
<1> DEFINE A == {y} \X (1..(y + m[y]))
           B == Pile(m, s \ {y})
<1>1. y \in Nat /\ m[y] \in Nat /\ y + m[y] \in Nat
  BY DEF Small
<1>2. IsFiniteSet(A) /\ Cardinality(A) = y + m[y]
  <2>1. IsFiniteSet({y}) /\ Cardinality({y}) = 1
    BY FS_Singleton
  <2>2. IsFiniteSet(1..(y + m[y])) /\ Cardinality(1..(y + m[y])) = y + m[y]
    <3> DEFINE w == y + m[y]
    <3>1. w \in Nat
      BY <1>1
    <3> HIDE DEF w
    <3>2. IsFiniteSet(1..w) /\ Cardinality(1..w) = IF 1 > w THEN 0 ELSE w - 1 + 1
      BY <3>1, FS_Interval
    <3>3. Cardinality(1..w) = w
      BY <3>1, <3>2
    <3> QED
      BY <3>2, <3>3 DEF w
  <2>3. IsFiniteSet(A) /\ Cardinality(A) = 1 * (y + m[y])
    BY <2>1, <2>2, FS_Product
  <2> QED
    BY <2>3, <1>1
<1>3. IsFiniteSet(B) /\ IsFiniteSet(Pile(m, s)) /\ Cardinality(B) \in Nat /\ Cardinality(Pile(m, s)) \in Nat
  <2>1. s \ {y} \in SUBSET DOMAIN m
    OBVIOUS
  <2> QED
    BY <2>1, PileFinite, FS_CardinalityType
<1>4. Pile(m, s) = A \cup B
  BY DEF Pile
<1>5. A \cap B = {}
  BY DEF Pile
<1> HIDE DEF A, B
<1>6. Cardinality(A \cup B) = Cardinality(A) + Cardinality(B) - Cardinality(A \cap B)
  BY <1>2, <1>3, FS_Union
<1>7. Cardinality(A \cap B) = 0
  BY <1>5, FS_EmptySet
<1> QED
  BY <1>1, <1>2, <1>3, <1>4, <1>6, <1>7 DEF B

\* The sum that MapThenSumSet takes is the size of the pile.
LEMMA SpaceIsPile ==
  ASSUME NEW m, Small(m)
  PROVE  Space(m) = Cardinality(Pile(m, DOMAIN m))
<1> DEFINE D == DOMAIN m
           one(s) == CHOOSE x \in s : TRUE
           Eq(f) == f = [s \in SUBSET D |-> IF s = {} THEN 0
                                            ELSE one(s) + m[one(s)] + f[s \ {one(s)}]]
           g == [s \in SUBSET D |-> Cardinality(Pile(m, s))]
<1>1. \A s \in SUBSET D : s # {} => one(s) \in s
  OBVIOUS
<1>2. Cardinality(Pile(m, {})) = 0
  <2>1. Pile(m, {}) = {}
    BY DEF Pile
  <2> QED
    BY <2>1, FS_EmptySet
<1> HIDE DEF one
<1>3. Eq(g)
  <2>1. ASSUME NEW s \in SUBSET D
        PROVE  g[s] = IF s = {} THEN 0 ELSE one(s) + m[one(s)] + g[s \ {one(s)}]
    <3>1. CASE s = {}
      BY <3>1, <1>2
    <3>2. CASE s # {}
      <4>1. one(s) \in s /\ s \ {one(s)} \in SUBSET D
        BY <3>2, <1>1
      <4>2. Cardinality(Pile(m, s)) = one(s) + m[one(s)] + Cardinality(Pile(m, s \ {one(s)}))
        BY <4>1, PileStep
      <4> QED
        BY <3>2, <4>1, <4>2
    <3> QED
      BY <3>1, <3>2
  <2> HIDE DEF g
  <2>2. g = [s \in SUBSET D |-> g[s]]
    BY DEF g
  <2> QED
    BY <2>1, <2>2
<1>4. PICK f : Eq(f) /\ Space(m) = f[D]
  <2>1. Space(m) = (CHOOSE f : Eq(f))[D]
    BY DEF Space, MapThenSumSet, MapThenFoldSet, one
  <2>2. Eq(CHOOSE f : Eq(f))
    <3> HIDE DEF Eq
    <3> QED
      BY <1>3
  <2> QED
    BY <2>1, <2>2
<1>5. ASSUME NEW t \in SUBSET D, f[t] # g[t] PROVE FALSE
  <2> DEFINE C == {c \in Nat : \E s \in SUBSET D : f[s] # g[s] /\ Cardinality(s) = c}
  <2>1. \A s \in SUBSET D : IsFiniteSet(s) /\ Cardinality(s) \in Nat
    BY PileFinite, FS_CardinalityType
  <2>2. Min(C) \in C /\ \A c \in C : Min(C) <= c
    <3>1. C \in SUBSET Nat /\ Cardinality(t) \in C
      BY <1>5, <2>1
    <3> QED
      BY <3>1, LeastOne
  <2>3. PICK s \in SUBSET D : f[s] # g[s] /\ Cardinality(s) = Min(C)
    BY <2>2
  <2>4. f[s] = IF s = {} THEN 0 ELSE one(s) + m[one(s)] + f[s \ {one(s)}]
    BY <1>4
  <2>5. g[s] = IF s = {} THEN 0 ELSE one(s) + m[one(s)] + g[s \ {one(s)}]
    BY <1>3
  <2>6. s # {} /\ f[s \ {one(s)}] # g[s \ {one(s)}]
    <3> HIDE DEF g
    <3> QED
      BY <2>3, <2>4, <2>5
  <2>7. one(s) \in s /\ s \ {one(s)} \in SUBSET D
    BY <2>6, <1>1
  <2>8. Cardinality(s \ {one(s)}) = Cardinality(s) - 1
    BY <2>1, <2>7, FS_RemoveElement
  <2>9. Cardinality(s \ {one(s)}) \in C
    BY <2>1, <2>6, <2>7
  <2>10. Min(C) <= Cardinality(s \ {one(s)}) /\ Min(C) = Cardinality(s) /\ Cardinality(s) \in Nat
    BY <2>1, <2>2, <2>3, <2>9, Zenon
  <2> QED
    BY <2>8, <2>10
<1>6. f[D] = g[D]
  BY <1>5
<1> QED
  BY <1>4, <1>6

\* Without an entry, a map takes as many bytes less as the entry does.
LEMMA SpaceStep ==
  ASSUME NEW m, Small(m), NEW y \in DOMAIN m, NEW n, n = [x \in DOMAIN m \ {y} |-> m[x]]
  PROVE  /\ Space(m) = y + m[y] + Space(n) /\ Space(m) \in Nat /\ Space(n) \in Nat
         /\ Cardinality(DOMAIN m) = Cardinality(DOMAIN n) + 1 /\ Cardinality(DOMAIN n) \in Nat
<1>1. DOMAIN n = DOMAIN m \ {y} /\ \A x \in DOMAIN n : n[x] = m[x]
  OBVIOUS
<1>2. IsFiniteSet(DOMAIN n) /\ Cardinality(DOMAIN n) = Cardinality(DOMAIN m) - 1
  BY <1>1, FS_RemoveElement DEF Small
<1>3. Cardinality(DOMAIN n) \in Nat /\ Cardinality(DOMAIN m) \in Nat
  BY <1>2, FS_CardinalityType DEF Small
<1>4. Small(n)
  BY <1>1, <1>2 DEF Small
<1>5. Pile(n, DOMAIN n) = Pile(m, DOMAIN m \ {y})
  BY <1>1 DEF Pile
<1>6. /\ Space(n) = Cardinality(Pile(m, DOMAIN m \ {y}))
      /\ Space(m) = Cardinality(Pile(m, DOMAIN m))
  BY <1>4, <1>5, SpaceIsPile
<1>7. /\ Cardinality(Pile(m, DOMAIN m)) = y + m[y] + Cardinality(Pile(m, DOMAIN m \ {y}))
      /\ Cardinality(Pile(m, DOMAIN m)) \in Nat /\ Cardinality(Pile(m, DOMAIN m \ {y})) \in Nat
  <2>1. DOMAIN m \in SUBSET DOMAIN m
    OBVIOUS
  <2> QED
    BY <2>1, PileStep, Zenon
<1> QED
  BY <1>2, <1>3, <1>6, <1>7

LEMMA NoSpace ==
  ASSUME NEW m, DOMAIN m = {}
  PROVE  Space(m) = 0 /\ Cardinality(DOMAIN m) = 0
<1>1. Small(m)
  BY FS_EmptySet DEF Small
<1>2. Pile(m, DOMAIN m) = {}
  BY DEF Pile
<1> QED
  BY <1>1, <1>2, SpaceIsPile, FS_EmptySet

(***************************************************************************)
(* The refinement of SortedMap.                                            *)
(***************************************************************************)

Counts ==
  num_entries_ = Cardinality(DOMAIN MapOf(node)) /\ num_bytes_ = Space(MapOf(node))

LEMMA MapSmall ==
  ASSUME NEW h, HeapOK(h), Chained(h)
  PROVE  Small(MapOf(h))
<1>1. DOMAIN MapOf(h) \subseteq Keys /\ MapOf(h) \in [DOMAIN MapOf(h) -> Values]
  BY MapOfEntry
<1>2. IsFiniteSet(DOMAIN MapOf(h))
  BY <1>1, SkipListAssumption, FS_Subset
<1> QED
  BY <1>1, <1>2, Constants DEF Small

\* The map after put.
With(m, key, value) == [x \in DOMAIN m \cup {key} |-> IF x = key THEN value ELSE m[x]]
Without(m, key) == [x \in DOMAIN m \ {key} |-> m[x]]

LEMMA PutMap ==
  ASSUME NEW h, NEW g, NEW a, NEW key, NEW value, HeapOK(h), Chained(h), Puts(h, g, a, key, value)
  PROVE  /\ MapOf(g) = With(MapOf(h), key, value)
         /\ key \in DOMAIN MapOf(h) <=> a \in EntriesOf(h)
<1>1. /\ DOMAIN MapOf(h) = {h[b].key : b \in EntriesOf(h)}
      /\ \A b \in EntriesOf(h) : h[b].key \in DOMAIN MapOf(h) /\ MapOf(h)[h[b].key] = h[b].value
  BY MapOfEntry
<1>2. /\ DOMAIN MapOf(g) = {g[b].key : b \in EntriesOf(g)}
      /\ \A b \in EntriesOf(g) : g[b].key \in DOMAIN MapOf(g) /\ MapOf(g)[g[b].key] = g[b].value
  BY MapOfEntry DEF Puts
<1>3. /\ EntriesOf(g) = EntriesOf(h) \cup {a} /\ g[a].key = key /\ g[a].value = value
      /\ \A x \in EntriesOf(h) \ {a} : g[x].key = h[x].key /\ g[x].value = h[x].value
      /\ a \in EntriesOf(h) => h[a].key = key
      /\ a \notin EntriesOf(h) => \A x \in EntriesOf(h) : h[x].key # key
      /\ \A x, y \in EntriesOf(h) : h[x].key = h[y].key => x = y
  BY DEF Puts, Chained
<1>4. key \in DOMAIN MapOf(h) <=> a \in EntriesOf(h)
  BY <1>1, <1>3
<1>5. DOMAIN MapOf(g) = DOMAIN MapOf(h) \cup {key}
  <2>1. ASSUME NEW b \in EntriesOf(h) PROVE h[b].key \in DOMAIN MapOf(g)
    <3>1. CASE b = a
      BY <3>1, <1>2, <1>3
    <3>2. CASE b # a
      BY <3>2, <1>2, <1>3
    <3> QED
      BY <3>1, <3>2
  <2>2. ASSUME NEW b \in EntriesOf(g) PROVE g[b].key \in DOMAIN MapOf(h) \cup {key}
    BY <1>1, <1>3
  <2> QED
    BY <2>1, <2>2, <1>1, <1>2, <1>3
<1>6. ASSUME NEW x \in DOMAIN MapOf(g) PROVE MapOf(g)[x] = IF x = key THEN value ELSE MapOf(h)[x]
  <2>1. PICK b \in EntriesOf(g) : g[b].key = x /\ MapOf(g)[x] = g[b].value
    BY <1>2
  <2>2. CASE b = a
    BY <2>1, <2>2, <1>3
  <2>3. CASE b # a
    <3>1. b \in EntriesOf(h) /\ h[b].key = x /\ h[b].value = g[b].value
      BY <2>1, <2>3, <1>3
    <3>2. x # key
      BY <2>3, <3>1, <1>3
    <3> QED
      BY <2>1, <3>1, <3>2, <1>1
  <2> QED
    BY <2>2, <2>3
<1>7. MapOf(g) = [x \in DOMAIN MapOf(g) |-> MapOf(g)[x]]
  BY DEF MapOf
<1>8. MapOf(g) = With(MapOf(h), key, value)
  <2> DEFINE m == MapOf(g)
             o == MapOf(h)
  <2> HIDE DEF m, o
  <2>1. /\ DOMAIN m = DOMAIN o \cup {key} /\ m = [x \in DOMAIN m |-> m[x]]
        /\ \A x \in DOMAIN m : m[x] = IF x = key THEN value ELSE o[x]
    BY <1>5, <1>6, <1>7 DEF m, o
  <2>2. m = With(o, key, value)
    BY <2>1 DEF With
  <2> QED
    BY <2>2 DEF m, o
<1> QED
  BY <1>4, <1>8

LEMMA DelMap ==
  ASSUME NEW h, NEW g, NEW a, HeapOK(h), Chained(h), Takes(h, g, a)
  PROVE  /\ h[a].key \in DOMAIN MapOf(h) /\ MapOf(h)[h[a].key] = h[a].value
         /\ MapOf(g) = Without(MapOf(h), h[a].key)
<1>1. /\ DOMAIN MapOf(h) = {h[b].key : b \in EntriesOf(h)}
      /\ \A b \in EntriesOf(h) : h[b].key \in DOMAIN MapOf(h) /\ MapOf(h)[h[b].key] = h[b].value
  BY MapOfEntry
<1>2. /\ DOMAIN MapOf(g) = {g[b].key : b \in EntriesOf(g)}
      /\ \A b \in EntriesOf(g) : g[b].key \in DOMAIN MapOf(g) /\ MapOf(g)[g[b].key] = g[b].value
  BY MapOfEntry DEF Takes
<1>3. /\ a \in EntriesOf(h) /\ EntriesOf(g) = EntriesOf(h) \ {a}
      /\ \A x \in EntriesOf(g) : g[x].key = h[x].key /\ g[x].value = h[x].value
      /\ \A x, y \in EntriesOf(h) : h[x].key = h[y].key => x = y
  BY DEF Takes, Chained
<1>4. DOMAIN MapOf(g) = DOMAIN MapOf(h) \ {h[a].key}
  BY <1>1, <1>2, <1>3
<1>5. \A x \in DOMAIN MapOf(g) : MapOf(g)[x] = MapOf(h)[x]
  BY <1>1, <1>2, <1>3
<1>6. MapOf(g) = [x \in DOMAIN MapOf(g) |-> MapOf(g)[x]]
  BY DEF MapOf
<1>7. MapOf(g) = Without(MapOf(h), h[a].key)
  <2> DEFINE m == MapOf(g)
             o == MapOf(h)
  <2> HIDE DEF m, o
  <2>1. /\ DOMAIN m = DOMAIN o \ {h[a].key} /\ m = [x \in DOMAIN m |-> m[x]]
        /\ \A x \in DOMAIN m : m[x] = o[x]
    BY <1>4, <1>5, <1>6 DEF m, o
  <2>2. m = Without(o, h[a].key)
    BY <2>1 DEF Without
  <2> QED
    BY <2>2 DEF m, o
<1> QED
  BY <1>1, <1>3, <1>7

\* What put does to the counts of a map.
LEMMA PutCounts ==
  ASSUME NEW m, Small(m), NEW key \in Nat, NEW value \in Nat, NEW w, w = With(m, key, value)
  PROVE  IF key \in DOMAIN m
         THEN /\ Space(w) = Space(m) - m[key] + value /\ Cardinality(DOMAIN w) = Cardinality(DOMAIN m)
         ELSE /\ Space(w) = Space(m) + key + value /\ Cardinality(DOMAIN w) = Cardinality(DOMAIN m) + 1
<1> DEFINE o == Without(w, key)
<1>1. /\ DOMAIN w = DOMAIN m \cup {key} /\ w[key] = value
      /\ \A x \in DOMAIN m \ {key} : w[x] = m[x]
  BY DEF With
<1>2. Small(w)
  <2>1. IsFiniteSet(DOMAIN w)
    BY <1>1, FS_AddElement DEF Small
  <2> QED
    BY <1>1, <2>1 DEF Small
<1>3. /\ Space(w) = key + value + Space(o) /\ Space(w) \in Nat /\ Space(o) \in Nat
      /\ Cardinality(DOMAIN w) = Cardinality(DOMAIN o) + 1 /\ Cardinality(DOMAIN o) \in Nat
  BY <1>1, <1>2, SpaceStep DEF Without
<1>4. CASE key \in DOMAIN m
  <2>1. o = [x \in DOMAIN m \ {key} |-> m[x]]
    BY <1>1, <1>4 DEF Without
  <2> HIDE DEF o
  <2>2. /\ Space(m) = key + m[key] + Space(o) /\ Space(m) \in Nat
        /\ Cardinality(DOMAIN m) = Cardinality(DOMAIN o) + 1
    BY <1>4, <2>1, SpaceStep
  <2>3. m[key] \in Nat
    BY <1>4 DEF Small
  <2> QED
    BY <1>3, <1>4, <2>2, <2>3
<1>5. CASE key \notin DOMAIN m
  <2>1. DOMAIN o = DOMAIN m /\ \A x \in DOMAIN m : o[x] = m[x]
    BY <1>1, <1>5 DEF Without
  <2> HIDE DEF o
  <2>2. Small(o) /\ Pile(o, DOMAIN o) = Pile(m, DOMAIN m)
    BY <2>1 DEF Small, Pile
  <2>3. Space(o) = Space(m)
    BY <2>2, SpaceIsPile
  <2> QED
    BY <1>3, <1>5, <2>1, <2>3
<1> QED
  BY <1>4, <1>5

LEMMA CountsNext == ListInv /\ ListInv' /\ Counts /\ [Next]_vars => Counts'
<1> SUFFICES ASSUME ListInv, ListInv', Counts, [Next]_vars PROVE Counts'
  OBVIOUS
<1>0. HeapOK(node) /\ Chained(node) /\ Small(MapOf(node))
  BY MapSmall DEF ListInv
<1>1. ASSUME NEW k \in Keys, NEW v \in Values, put(k, v) PROVE Counts'
  <2>0. k \in Nat /\ v \in Nat
    BY Constants
  <2>1. CASE Update(k, v)
    <3>1. PICK a \in EntriesOf(node) :
            /\ Puts(node, node', a, k, v)
            /\ num_bytes_' = num_bytes_ - node[a].value + v /\ num_entries_' = num_entries_
      BY <2>1, UpdateStep
    <3>2. MapOf(node') = With(MapOf(node), k, v) /\ k \in DOMAIN MapOf(node)
      BY <3>1, <1>0, PutMap
    <3>3. node[a].value = MapOf(node)[k]
      <4>1. node[a].key = k
        BY <3>1 DEF Puts
      <4> QED
        BY <4>1, <1>0, MapOfEntry
    <3> QED
      BY <3>1, <3>2, <3>3, <2>0, <1>0, PutCounts DEF Counts
  <2>2. CASE Insert(k, v)
    <3>1. PICK a : /\ a \notin EntriesOf(node) /\ Puts(node, node', a, k, v)
                   /\ num_bytes_' = num_bytes_ + k + v /\ num_entries_' = num_entries_ + 1
      BY <2>2, InsertStep
    <3>2. MapOf(node') = With(MapOf(node), k, v) /\ k \notin DOMAIN MapOf(node)
      BY <3>1, <1>0, PutMap
    <3> QED
      BY <3>1, <3>2, <2>0, <1>0, PutCounts DEF Counts
  <2> QED
    BY <1>1, <2>1, <2>2 DEF put
<1>2. ASSUME NEW k \in Keys, del(k) PROVE Counts'
  <2>1. PICK a \in EntriesOf(node) :
          /\ Takes(node, node', a) /\ node[a].key = k
          /\ num_bytes_' = num_bytes_ - k - node[a].value /\ num_entries_' = num_entries_ - 1
    BY <1>2, DelStep
  <2>2. /\ MapOf(node') = Without(MapOf(node), k) /\ k \in DOMAIN MapOf(node)
        /\ MapOf(node)[k] = node[a].value
    BY <2>1, <1>0, DelMap
  <2>3. /\ Space(MapOf(node)) = k + MapOf(node)[k] + Space(MapOf(node')) /\ Space(MapOf(node')) \in Nat
        /\ Cardinality(DOMAIN MapOf(node)) = Cardinality(DOMAIN MapOf(node')) + 1
        /\ Cardinality(DOMAIN MapOf(node')) \in Nat
    BY <2>2, <1>0, SpaceStep DEF Without
  <2>4. k \in Nat /\ MapOf(node)[k] \in Nat
    BY <2>2, <1>0 DEF Small
  <2> QED
    BY <2>1, <2>2, <2>3, <2>4 DEF Counts
<1>3. CASE clear
  <2>1. DOMAIN MapOf(node') = {}
    BY <1>3, EmptyOK DEF clear, MapOf
  <2> QED
    BY <1>3, <2>1, NoSpace DEF clear, Counts
<1>4. CASE \/ \E k \in Keys : Seek(k)
           \/ SeekToFirst \/ SeekToLast \/ IterNext \/ Prev
  <2>1. UNCHANGED <<node, num_entries_, num_bytes_>>
    BY <1>4 DEF Seek, SeekToFirst, SeekToLast, IterNext, Prev, MoveTo
  <2> QED
    BY <2>1 DEF Counts
<1>5. CASE UNCHANGED vars
  BY <1>5 DEF vars, Counts
<1> QED
  BY <1>1, <1>2, <1>3, <1>4, <1>5 DEF Next

LEMMA CountsInit == Init => Counts
<1> SUFFICES ASSUME Init PROVE Counts
  OBVIOUS
<1>1. DOMAIN MapOf(node) = {}
  BY EmptyOK DEF Init, MapOf
<1> QED
  BY <1>1, NoSpace DEF Init, Counts

LEMMA MinIs ==
  ASSUME NEW S \in SUBSET Nat, NEW m \in S, \A y \in S : m <= y
  PROVE  Min(S) = m
<1>1. \A x \in S : (\A y \in S : x <= y) => x = m
  <2>1. ASSUME NEW x \in S, \A y \in S : x <= y PROVE x = m
    <3>1. x <= m /\ m <= x /\ x \in Nat /\ m \in Nat
      BY <2>1
    <3> QED
      BY <3>1
  <2> QED
    BY <2>1
<1> QED
  BY <1>1 DEF Min

LEMMA MaxIs ==
  ASSUME NEW S \in SUBSET Nat, NEW m \in S, \A y \in S : y <= m
  PROVE  Max(S) = m
<1>0. \A y \in S : m >= y
  OBVIOUS
<1>1. \A x \in S : (\A y \in S : x >= y) => x = m
  <2>1. ASSUME NEW x \in S, \A y \in S : x >= y PROVE x = m
    <3>1. x >= m /\ x <= m /\ x \in Nat /\ m \in Nat
      BY <2>1
    <3> QED
      BY <3>1
  <2> QED
    BY <2>1
<1> QED
  BY <1>0, <1>1 DEF Max

\* The abstract module's own copies of library operators.
LEMMA SameOperators ==
  /\ \A S : Abstract!Min(S) = Min(S) /\ Abstract!Max(S) = Max(S)
  /\ \A S : Abstract!Cardinality(S) = Cardinality(S)
<1>1. \A S : Abstract!Min(S) = Min(S) /\ Abstract!Max(S) = Max(S)
  BY Zenon DEF Abstract!Min, Abstract!Max, Min, Max
<1>2. \A S : Abstract!Cardinality(S) = Cardinality(S)
  BY Zenon DEF Abstract!Cardinality, Cardinality
<1> QED
  BY <1>1, <1>2

\* Operations that leave the iterator nowhere change the map as m says.
LEMMA Changes ==
  ASSUME ListInv, ListInv', Counts', NEW m, MapOf(node') = m, node_' = nullptr
  PROVE  Abstract!Change(m)
<1>1. Map' = m
  BY DEF Map, MapOf, Entries, EntriesOf
<1>2. ~Valid'
  BY DEF Valid
<1>3. Abstract!Counted(m)
  <2>1. num_entries_' = Cardinality(DOMAIN m) /\ num_bytes_' = Space(m)
    BY DEF Counts
  <2>2. Abstract!Cardinality(DOMAIN m) = Cardinality(DOMAIN m)
    BY SameOperators
  <2>3. Abstract!MapThenSumSet(LAMBDA k : k + m[k], DOMAIN m) = Space(m)
    BY DEF Abstract!MapThenSumSet, Abstract!MapThenFoldSet, MapThenSumSet, MapThenFoldSet, Space
  <2> QED
    BY <2>1, <2>2, <2>3 DEF Abstract!Counted
<1> QED
  BY <1>1, <1>2, <1>3 DEF Abstract!Change

\* The key under a position of the iterator.
Cursor(a) == IF a \in {head_, tail_} THEN 0 ELSE node[a].key

LEMMA Moved ==
  ASSUME ListInv, NEW a \in EntriesOf(node) \cup {head_, tail_}, MoveTo(a)
  PROVE  Abstract!Move(Cursor(a))
<1>1. UNCHANGED <<node, num_entries_, num_bytes_>>
  BY DEF MoveTo
<1>2. Map' = Map
  BY <1>1 DEF Map, Entries
<1>3. nullptr \notin EntriesOf(node)
  BY Constants DEF ListInv, HeapOK
<1>4. (IF Valid THEN node[node_].key ELSE 0)' = Cursor(a)
  BY <1>1, <1>3 DEF Valid, MoveTo, Cursor, EntriesOf
<1> QED
  BY <1>1, <1>2, <1>4 DEF Abstract!Move

\* The keys of the map, from the entries.
LEMMA MapKeys ==
  ASSUME ListInv
  PROVE  /\ DOMAIN Map \in SUBSET Nat /\ DOMAIN Map \subseteq Keys
         /\ \A b \in EntriesOf(node) : node[b].key \in DOMAIN Map /\ Cursor(b) = node[b].key
         /\ \A k \in DOMAIN Map : \E b \in EntriesOf(node) : node[b].key = k
         /\ Cursor(head_) = 0 /\ Cursor(tail_) = 0 /\ tail_ \notin EntriesOf(node)
         /\ head_ \notin EntriesOf(node)
<1>1. DOMAIN Map = {node[b].key : b \in EntriesOf(node)}
  BY MapEntry
<1>2. \A b \in EntriesOf(node) : node[b].key \in Keys
  BY DEF ListInv, HeapOK
<1> QED
  BY <1>1, <1>2, Constants DEF Cursor, EntriesOf

\* The next node of the lowest level stands for the next key of the map.
LEMMA NextAbove ==
  ASSUME ListInv, NEW a \in EntriesOf(node), NEW n, n = node[a].nexts[1]
  PROVE  Cursor(n) = Abstract!Above(node[a].key)
<1> DEFINE k == node[a].key
           S == {x \in DOMAIN Map : x > k}
<1>1. Follows(node, 1, a, n) /\ Tall(node, 1) = EntriesOf(node) /\ k \in Nat
  <2>1. a \in Way(node, 1) /\ 1 \in 1..Top(node) /\ k \in Keys
    BY OnLowest
  <2>2. Tall(node, 1) = EntriesOf(node)
    BY DEF ListInv, Chained, Tall
  <2> QED
    BY <2>1, <2>2, Constants DEF ListInv, Chained
<1>2. Abstract!Above(k) = IF S = {} THEN 0 ELSE Min(S)
  BY SameOperators DEF Abstract!Above
<1>3. S \in SUBSET Nat
  BY MapKeys
<1> HIDE DEF k
<1>4. CASE n = tail_ /\ \A b \in EntriesOf(node) : node[b].key <= k
  <2>1. S = {}
    BY <1>1, <1>4, MapKeys
  <2> QED
    BY <1>2, <1>4, <2>1, MapKeys DEF k
<1>5. CASE /\ n \in EntriesOf(node) /\ node[n].key > k
           /\ \A b \in EntriesOf(node) : node[b].key > k => node[n].key <= node[b].key
  <2>1. node[n].key \in S /\ \A y \in S : node[n].key <= y
    BY <1>5, MapKeys
  <2> HIDE DEF S
  <2>2. Min(S) = node[n].key
    BY <1>3, <2>1, MinIs
  <2> QED
    BY <1>2, <1>5, <2>1, <2>2, MapKeys DEF k
<1> QED
  BY <1>1, <1>4, <1>5 DEF Follows, k

LEMMA FirstIs ==
  ASSUME ListInv, NEW n, n = node[head_].nexts[1]
  PROVE  Cursor(n) = Abstract!First
<1> DEFINE S == DOMAIN Map
<1>1. Follows(node, 1, head_, n) /\ Tall(node, 1) = EntriesOf(node) /\ node[head_].key = 0
  BY OnLowest DEF ListInv, Chained, Tall, HeapOK
<1>2. Abstract!First = IF S = {} THEN 0 ELSE Min(S)
  BY SameOperators DEF Abstract!First
<1>3. S \in SUBSET Nat /\ \A b \in EntriesOf(node) : node[b].key \in Nat /\ node[b].key > 0
  BY MapKeys, OnLowest, Constants
<1>4. CASE n = tail_ /\ \A b \in EntriesOf(node) : node[b].key <= 0
  <2>1. EntriesOf(node) = {}
    BY <1>3, <1>4
  <2>2. S = {}
    BY <2>1, MapKeys
  <2> QED
    BY <1>2, <1>4, <2>2, MapKeys
<1>5. CASE n \in EntriesOf(node) /\ \A b \in EntriesOf(node) : node[b].key > 0 => node[n].key <= node[b].key
  <2>1. node[n].key \in S /\ \A y \in S : node[n].key <= y
    BY <1>3, <1>5, MapKeys
  <2> HIDE DEF S
  <2>2. Min(S) = node[n].key
    BY <1>3, <2>1, MinIs
  <2> QED
    BY <1>2, <1>5, <2>1, <2>2, MapKeys
<1> QED
  BY <1>1, <1>4, <1>5 DEF Follows

LEMMA SeekIs ==
  ASSUME ListInv, NEW k \in Keys, NEW n, n = findGreatorOrEqual(k)
  PROVE  Cursor(n) = Abstract!From(k)
<1> DEFINE S == {x \in DOMAIN Map : x > k}
<1>1. /\ n \in EntriesOf(node) \cup {tail_} /\ (n # tail_ => node[n].key >= k)
      /\ \A b \in EntriesOf(node) : node[b].key >= k => n # tail_ /\ node[n].key <= node[b].key
  BY Ceiling
<1>2. Abstract!From(k) = IF k \in DOMAIN Map THEN k ELSE IF S = {} THEN 0 ELSE Min(S)
  BY SameOperators DEF Abstract!From, Abstract!Above
<1>3. S \in SUBSET Nat /\ k \in Nat /\ \A b \in EntriesOf(node) : node[b].key \in Nat
  BY MapKeys, OnLowest, Constants
<1>4. CASE k \in DOMAIN Map
  <2>1. PICK b \in EntriesOf(node) : node[b].key = k
    BY <1>4, MapKeys
  <2>2. n = b
    BY <2>1, Found
  <2> QED
    BY <1>2, <1>4, <2>1, <2>2, MapKeys
<1>5. CASE k \notin DOMAIN Map /\ n = tail_
  <2>1. S = {}
    BY <1>1, <1>3, <1>5, MapKeys
  <2> QED
    BY <1>2, <1>5, <2>1, MapKeys
<1>6. CASE k \notin DOMAIN Map /\ n # tail_
  <2>1. n \in EntriesOf(node) /\ node[n].key # k /\ node[n].key > k
    BY <1>1, <1>3, <1>6, MapKeys
  <2>2. node[n].key \in S /\ \A y \in S : node[n].key <= y
    BY <1>1, <1>3, <2>1, MapKeys
  <2> HIDE DEF S
  <2>3. Min(S) = node[n].key
    BY <1>3, <2>2, MinIs
  <2> QED
    BY <1>2, <1>6, <2>1, <2>2, <2>3, MapKeys
<1> QED
  BY <1>4, <1>5, <1>6

\* A stop on the lowest level is the greatest key that is passed.
LEMMA StopIs ==
  ASSUME ListInv, NEW passed, UpTo(passed), NEW a, IsStop(node, passed, 1, a),
         NEW S, S = DOMAIN Map \cap passed
  PROVE  Cursor(a) = IF S = {} THEN 0 ELSE Max(S)
<1>1. /\ a \in EntriesOf(node) \cup {head_} /\ node[a].key \in passed \cup {0}
      /\ \A b \in EntriesOf(node) : node[b].key \in passed => node[b].key <= node[a].key
  BY OnLowest DEF IsStop, Way, Tall, ListInv, Chained
<1>2. S \in SUBSET Nat /\ 0 \notin Keys /\ \A b \in EntriesOf(node) : node[b].key \in Keys
  BY MapKeys, OnLowest, Constants
<1>3. CASE a = head_
  <2>1. node[a].key = 0
    BY <1>3 DEF ListInv, HeapOK
  <2>2. S = {}
    BY <1>1, <1>2, <2>1, Constants, MapKeys
  <2> QED
    BY <1>3, <2>2, MapKeys
<1>4. CASE a # head_
  <2>1. a \in EntriesOf(node) /\ node[a].key \in passed
    BY <1>1, <1>2, <1>4
  <2>2. node[a].key \in S /\ \A y \in S : y <= node[a].key
    BY <1>1, <2>1, MapKeys
  <2>3. Max(S) = node[a].key
    BY <1>2, <2>2, MaxIs
  <2> QED
    BY <2>1, <2>2, <2>3, MapKeys
<1> QED
  BY <1>3, <1>4

LEMMA AbstractInit == Init => Abstract!Init
<1> SUFFICES ASSUME Init PROVE Abstract!Init
  OBVIOUS
<1>1. Entries = {}
  BY EmptyOK DEF Init, Entries, EntriesOf
<1>2. Map = <<>>
  BY <1>1 DEF Map
<1> QED
  BY <1>2 DEF Init, Abstract!Init, Valid

LEMMA AbstractNext ==
  ListInv /\ ListInv' /\ Counts' /\ [Next]_vars => [Abstract!Next]_Abstract!vars
<1> SUFFICES ASSUME ListInv, ListInv', Counts', [Next]_vars
             PROVE  Abstract!Next \/ UNCHANGED Abstract!vars
  OBVIOUS
<1>0. HeapOK(node) /\ Chained(node) /\ Map = MapOf(node)
  BY DEF ListInv, Map, MapOf, Entries, EntriesOf
<1>1. ASSUME NEW k \in Keys, NEW v \in Values, put(k, v) PROVE Abstract!Next
  <2>1. \E a : Puts(node, node', a, k, v)
    BY <1>1, UpdateStep, InsertStep DEF put
  <2>2. MapOf(node') = With(Map, k, v)
    BY <1>0, <2>1, PutMap
  <2>3. Abstract!Change(With(Map, k, v))
    BY <1>1, <2>2, Changes DEF put
  <2>4. Abstract!Put
    BY <2>3 DEF Abstract!Put, With
  <2> QED
    BY <2>4 DEF Abstract!Next
<1>2. ASSUME NEW k \in Keys, del(k) PROVE Abstract!Next
  <2>1. PICK a \in EntriesOf(node) : Takes(node, node', a) /\ node[a].key = k
    BY <1>2, DelStep
  <2>2. MapOf(node') = Without(Map, k) /\ k \in DOMAIN Map
    BY <1>0, <2>1, DelMap
  <2>3. Abstract!Change(Without(Map, k))
    BY <1>2, <2>2, Changes DEF del
  <2>4. Abstract!Del
    BY <2>2, <2>3 DEF Abstract!Del, Without
  <2> QED
    BY <2>4 DEF Abstract!Next
<1>3. CASE clear
  <2>1. MapOf(node') = <<>>
    BY <1>3, EmptyOK DEF clear, MapOf
  <2>2. Abstract!Change(<<>>)
    BY <1>3, <2>1, Changes DEF clear
  <2> QED
    BY <2>2 DEF Abstract!Clear, Abstract!Next
<1>4. ASSUME NEW k \in Keys, Seek(k) PROVE Abstract!Next
  <2>1. Abstract!Move(Cursor(findGreatorOrEqual(k)))
    BY <1>4, Ceiling, Moved DEF Seek
  <2>2. Abstract!Move(Abstract!From(k))
    BY <2>1, SeekIs
  <2> QED
    BY <2>2 DEF Abstract!Seek, Abstract!Next
<1>5. CASE SeekToFirst
  <2>1. Abstract!Move(Cursor(node[head_].nexts[1]))
    BY <1>5, Moves, OnLowest, Moved DEF SeekToFirst
  <2>2. Abstract!Move(Abstract!First)
    BY <2>1, FirstIs
  <2> QED
    BY <2>2 DEF Abstract!Next
<1>6. CASE SeekToLast
  <2>1. Abstract!Move(Cursor(findLast))
    BY <1>6, Moves, Moved DEF SeekToLast
  <2>2. UpTo(Keys) /\ IsStop(node, Keys, 1, findLast) /\ DOMAIN Map \cap Keys = DOMAIN Map
    <3>1. UpTo(Keys) /\ DOMAIN Map \cap Keys = DOMAIN Map
      BY MapKeys DEF UpTo
    <3> QED
      BY <3>1, OnLowest, StopsStop DEF findLast
  <2>3. Cursor(findLast) = IF DOMAIN Map = {} THEN 0 ELSE Max(DOMAIN Map)
    BY <2>2, StopIs
  <2>4. Cursor(findLast) = Abstract!Last
    BY <2>3, SameOperators DEF Abstract!Last
  <2> QED
    BY <2>1, <2>4 DEF Abstract!Next
<1>7. CASE IterNext
  <2>1. node_ \in EntriesOf(node) /\ Valid /\ node[node_].key # 0
    BY <1>7, OnLowest, Constants DEF IterNext, Valid, ListInv
  <2>2. Abstract!Move(Cursor(node[node_].nexts[1]))
    BY <1>7, <2>1, Moves, OnLowest, Moved DEF IterNext
  <2>3. Abstract!Move(Abstract!Above(node[node_].key))
    BY <2>1, <2>2, NextAbove
  <2> QED
    BY <2>1, <2>3 DEF Abstract!Step, Abstract!Next
<1>8. CASE Prev
  <2> DEFINE k == node[node_].key
             P == {j \in Keys : j < k}
  <2>1. node_ \in EntriesOf(node) /\ Valid /\ k # 0 /\ k \in Keys
    BY <1>8, OnLowest, Constants DEF Prev, Valid, ListInv
  <2>2. Abstract!Move(Cursor(findLessThan(k)))
    BY <1>8, <2>1, Moves, Moved DEF Prev
  <2>3. UpTo(P) /\ DOMAIN Map \cap P = {x \in DOMAIN Map : x < k}
    BY <2>1, Constants, MapKeys DEF UpTo
  <2>4. IsStop(node, P, 1, findLessThan(k))
    BY <2>3, OnLowest, StopsStop DEF findLessThan, prevs
  <2> HIDE DEF P
  <2>5. Cursor(findLessThan(k)) = IF {x \in DOMAIN Map : x < k} = {} THEN 0 ELSE Max({x \in DOMAIN Map : x < k})
    BY <2>3, <2>4, StopIs
  <2>6. Cursor(findLessThan(k)) = Abstract!Below(k)
    BY <2>5, SameOperators DEF Abstract!Below
  <2> QED
    BY <2>1, <2>2, <2>6 DEF Abstract!Step, Abstract!Next
<1>9. CASE UNCHANGED vars
  BY <1>9 DEF vars, Abstract!vars, Map, Entries, Valid
<1> QED
  BY <1>1, <1>2, <1>3, <1>4, <1>5, <1>6, <1>7, <1>8, <1>9 DEF Next

\* The skip list is a sorted map: every operation, every count of entries and
\* bytes and every move of the iterator is one the sorted map allows.
THEOREM SkipListImplementsSortedMap == Spec => ImplementsSortedMap
<1>1. Spec => [](ListInv /\ Counts)
  BY InvInit, InvNext, CountsInit, CountsNext, PTL DEF Spec
<1> QED
  BY <1>1, AbstractInit, AbstractNext, PTL DEF Spec, ImplementsSortedMap, Abstract!Spec
=============================================================================
