-------------------------- MODULE MetaServerProofs --------------------------
(***************************************************************************)
(* Theorems about MetaServer for any number of threads, databases, tables  *)
(* and servers, proved with TLAPS.                                         *)
(***************************************************************************)
EXTENDS MetaServer, FiniteSetTheorems, NaturalsInduction, WellFoundedInduction, TLAPS

(***************************************************************************)
(* The inductive invariant.                                                *)
(***************************************************************************)

Readers == {"find_tab", "latch_tab"}            \* have the database's latch shared
Makers  == {"set_oid", "place", "count"}        \* have entered a table into the map
Writers == {"check_tab", "new_tab"} \cup Makers \* have the database's latch exclusive
InDb    == {"latch_db", "excl_db"} \cup Readers \cup Writers

AllLatches == {"ms", "dms", "tms"} \X Nat
Holdings == Actors \X AllLatches \X {"shared", "exclusive"}

ThreadTypes ==
  /\ pc \in [Threads -> Pcs]
  /\ DOMAIN call = Threads
  /\ dp \in [Threads -> Nat] /\ tp \in [Threads -> Nat]

\* What a thread at a place in a handler holds.
Latched ==
  \A t \in Threads :
    /\ pc[t] \in Readers => Shared(t, DMS(dp[t])) \in held
    /\ pc[t] \in Writers => Exclusive(t, DMS(dp[t])) \in held

LatchInv == ThreadTypes /\ held \subseteq Holdings /\ LatchesSound /\ Latched

IsSeq(s) == \E S : s \in Seq(S)

\* The objects are there that the maps and the threads point to, and no two
\* databases are the same object.
Pointed ==
  /\ IsSeq(tabs) /\ IsSeq(tms)
  /\ \A db \in DOMAIN db_map_ : db_map_[db] \in 0..Len(tabs)
  /\ \A a, b \in DOMAIN db_map_ : db_map_[a] = db_map_[b] /\ db_map_[a] # 0 => a = b
  /\ \A d \in 1..Len(tabs) : \A x \in DOMAIN tabs[d] : tabs[d][x] \in 0..Len(tms)

\* A thread in a database is in the one its request names.
AtDb(t) ==
  /\ dp[t] \in 1..Len(tabs)
  /\ call[t].db \in DOMAIN db_map_
  /\ db_map_[call[t].db] # 0
  /\ call[t].db \notin replaced => db_map_[call[t].db] = dp[t]
ThreadsPointed ==
  \A t \in Threads :
    /\ pc[t] \in InDb => AtDb(t)
    /\ pc[t] \in Makers \cup {"latch_tab", "answer"} => tp[t] \in 1..Len(tms)

\* A table that is not finished has a thread that is making it.
Making(db, i) == \E t \in Threads : pc[t] \in Makers /\ tp[t] = i /\ call[t].db = db
Unfinished ==
  \A db \in DOMAIN db_map_ \ replaced : db_map_[db] # 0 =>
    \A x \in DOMAIN tabs[db_map_[db]] :
      LET i == tabs[db_map_[db]][x] IN i # 0 /\ i \notin whole => Making(db, i)

MapInv == Pointed /\ ThreadsPointed /\ Unfinished /\ ReadersSeeWholeTables

Inv == LatchInv /\ MapInv

(***************************************************************************)
(* Latches.                                                                *)
(***************************************************************************)

\* A call that ends leaves the latches of the others as they are.
LEMMA ReturnLatches ==
  ASSUME LatchInv, NEW t \in Threads, Return(t)
  PROVE  LatchInv'
<1> USE DEF LatchInv, Return, Goto
<1>1. ThreadTypes'
  BY DEF ThreadTypes, Pcs
<1>2. held' \subseteq Holdings /\ held' \subseteq held /\ \A h \in held' : h[1] # t
  OBVIOUS
<1>3. LatchesSound'
  BY <1>2 DEF LatchesSound, ThreadTypes, Holdings
<1>4. Latched'
  <2> SUFFICES ASSUME NEW u \in Threads
               PROVE  /\ pc'[u] \in Readers => Shared(u, DMS(dp'[u])) \in held'
                      /\ pc'[u] \in Writers => Exclusive(u, DMS(dp'[u])) \in held'
    BY DEF Latched, Shared, Exclusive, DMS
  <2>1. CASE u = t
    BY <2>1 DEF ThreadTypes, Readers, Writers, Makers
  <2>2. CASE u # t
    BY <2>2 DEF Latched, ThreadTypes, Shared, Exclusive
  <2> QED
    BY <2>1, <2>2
<1> QED
  BY <1>1, <1>2, <1>3, <1>4

\* A step that takes and gives back no latch, to a place with the same ones.
LEMMA QuietLatches ==
  ASSUME LatchInv, NEW t \in Threads, NEW p \in Pcs \ {"idle"}, Goto(t, p),
         held' = held, dp' = dp, tp' \in [Threads -> Nat], DOMAIN call' = Threads,
         p \in Readers => pc[t] \in Readers, p \in Writers => pc[t] \in Writers
  PROVE  LatchInv'
<1>1. ThreadTypes'
  BY DEF ThreadTypes, LatchInv, Goto
<1>2. LatchesSound'
  BY DEF LatchesSound, LatchInv, ThreadTypes, Goto
<1>3. Latched'
  BY DEF Latched, LatchInv, ThreadTypes, Goto, Shared, Exclusive, DMS
<1> QED
  BY <1>1, <1>2, <1>3 DEF LatchInv

\* A shared latch taken, and others of the thread given back.
LEMMA ShareLatches ==
  ASSUME LatchInv, NEW t \in Threads, NEW p \in Pcs \ {"idle"}, Goto(t, p),
         NEW l \in AllLatches, CanShare(l), held' \subseteq held \cup {Shared(t, l)},
         \A h \in held : h[1] # t => h \in held',
         dp' \in [Threads -> Nat], \A u \in Threads \ {t} : dp'[u] = dp[u],
         UNCHANGED <<tp, call>>,
         p \in Readers => Shared(t, DMS(dp'[t])) \in held', p \notin Writers
  PROVE  LatchInv'
<1>1. ThreadTypes'
  BY DEF ThreadTypes, LatchInv, Goto
<1>2. held' \subseteq Holdings
  BY DEF LatchInv, Holdings, Shared, Actors
<1>3. LatchesSound'
  <2>1. ASSUME NEW h \in held', NEW g \in held', h[2] = g[2], h[3] = "exclusive"
        PROVE  h = g
    <3>1. h \in held
      BY <2>1 DEF Shared
    <3>2. CASE g \in held
      BY <2>1, <3>1, <3>2 DEF LatchInv, LatchesSound
    <3>3. CASE g = Shared(t, l)
      <4>1. h = Exclusive(h[1], l) /\ h[1] \in Actors
        BY <2>1, <3>1, <3>3 DEF LatchInv, Holdings, Shared, Exclusive
      <4> QED
        BY <3>1, <4>1 DEF CanShare
    <3> QED
      BY <2>1, <3>2, <3>3
  <2>2. ASSUME NEW h \in held', h[1] \in Threads
        PROVE  pc'[h[1]] # "idle"
    BY <2>2 DEF LatchInv, LatchesSound, Goto, ThreadTypes, Shared
  <2> QED
    BY <2>1, <2>2 DEF LatchesSound
<1>4. Latched'
  <2> SUFFICES ASSUME NEW u \in Threads
               PROVE  /\ pc'[u] \in Readers => Shared(u, DMS(dp'[u])) \in held'
                      /\ pc'[u] \in Writers => Exclusive(u, DMS(dp'[u])) \in held'
    BY DEF Latched, Shared, Exclusive, DMS
  <2>1. CASE u = t
    BY <2>1 DEF LatchInv, ThreadTypes, Goto
  <2>2. CASE u # t
    BY <2>2 DEF LatchInv, Latched, ThreadTypes, Goto, Shared, Exclusive
  <2> QED
    BY <2>1, <2>2
<1> QED
  BY <1>1, <1>2, <1>3, <1>4 DEF LatchInv

\* The same for an exclusive one.
LEMMA ExcludeLatches ==
  ASSUME LatchInv, NEW t \in Threads, NEW p \in Pcs \ {"idle"}, Goto(t, p),
         NEW l \in AllLatches, CanExclude(l), held' \subseteq held \cup {Exclusive(t, l)},
         \A h \in held : h[1] # t => h \in held',
         UNCHANGED <<dp, tp, call>>,
         p \notin Readers, p \in Writers => Exclusive(t, DMS(dp[t])) \in held'
  PROVE  LatchInv'
<1>1. ThreadTypes'
  BY DEF ThreadTypes, LatchInv, Goto
<1>2. held' \subseteq Holdings
  BY DEF LatchInv, Holdings, Exclusive, Actors
<1>3. LatchesSound'
  <2>1. ASSUME NEW h \in held', NEW g \in held', h[2] = g[2], h[3] = "exclusive"
        PROVE  h = g
    <3>1. ASSUME NEW k \in held PROVE k[2] # l
      <4>1. /\ k[1] \in Actors
            /\ k = Shared(k[1], k[2]) \/ k = Exclusive(k[1], k[2])
        BY <3>1 DEF LatchInv, Holdings, Shared, Exclusive
      <4> QED
        BY <3>1, <4>1 DEF CanExclude
    <3>2. CASE h \in held /\ g \in held
      BY <2>1, <3>2 DEF LatchInv, LatchesSound
    <3>3. CASE h \notin held \/ g \notin held
      BY <2>1, <3>1, <3>3 DEF Exclusive
    <3> QED
      BY <3>2, <3>3
  <2>2. ASSUME NEW h \in held', h[1] \in Threads
        PROVE  pc'[h[1]] # "idle"
    BY <2>2 DEF LatchInv, LatchesSound, Goto, ThreadTypes, Exclusive
  <2> QED
    BY <2>1, <2>2 DEF LatchesSound
<1>4. Latched'
  <2> SUFFICES ASSUME NEW u \in Threads
               PROVE  /\ pc'[u] \in Readers => Shared(u, DMS(dp'[u])) \in held'
                      /\ pc'[u] \in Writers => Exclusive(u, DMS(dp'[u])) \in held'
    BY DEF Latched, Shared, Exclusive, DMS
  <2>1. CASE u = t
    BY <2>1 DEF LatchInv, ThreadTypes, Goto, Shared, Exclusive
  <2>2. CASE u # t
    BY <2>2 DEF LatchInv, Latched, ThreadTypes, Goto, Shared, Exclusive
  <2> QED
    BY <2>1, <2>2
<1> QED
  BY <1>1, <1>2, <1>3, <1>4 DEF LatchInv

\* The background thread has no place in a handler.
LEMMA SaverLatches ==
  ASSUME LatchInv, SaveLock \/ SaveUnlock, UNCHANGED thread
  PROVE  LatchInv'
<1>1. ThreadTypes' /\ UNCHANGED <<pc, dp>>
  BY DEF ThreadTypes, LatchInv, thread
<1>2. Saver \notin Threads /\ Saver \in Actors /\ MS \in AllLatches
  BY MetaAssumption DEF Actors, MS, AllLatches
<1>3. held' \subseteq Holdings
  BY <1>2 DEF LatchInv, Holdings, SaveLock, SaveUnlock, Exclusive
<1>4. CASE SaveLock
  <2>1. ASSUME NEW k \in held PROVE k[2] # MS
    <3>1. /\ k[1] \in Actors
          /\ k = Shared(k[1], k[2]) \/ k = Exclusive(k[1], k[2])
      BY <2>1 DEF LatchInv, Holdings, Shared, Exclusive
    <3> QED
      BY <1>4, <2>1, <3>1 DEF SaveLock, CanExclude
  <2>2. LatchesSound'
    <3>1. ASSUME NEW h \in held', NEW g \in held', h[2] = g[2], h[3] = "exclusive"
          PROVE  h = g
      <4>1. CASE h \in held /\ g \in held
        BY <3>1, <4>1 DEF LatchInv, LatchesSound
      <4>2. CASE h \notin held \/ g \notin held
        BY <1>4, <2>1, <3>1, <4>2 DEF SaveLock, Exclusive
      <4> QED
        BY <4>1, <4>2
    <3>2. ASSUME NEW h \in held', h[1] \in Threads PROVE pc'[h[1]] # "idle"
      BY <1>1, <1>2, <1>4, <3>2 DEF LatchInv, LatchesSound, SaveLock, Exclusive
    <3> QED
      BY <3>1, <3>2 DEF LatchesSound
  <2>3. Latched'
    BY <1>1, <1>4 DEF LatchInv, Latched, SaveLock, Shared, Exclusive, DMS
  <2> QED
    BY <1>1, <1>3, <2>2, <2>3 DEF LatchInv
<1>5. CASE SaveUnlock
  <2>1. held' \subseteq held
    BY <1>5 DEF SaveUnlock
  <2>2. LatchesSound'
    BY <1>1, <2>1 DEF LatchInv, LatchesSound
  <2>3. Latched'
    BY <1>1, <1>2, <1>5 DEF LatchInv, Latched, SaveUnlock, Shared, Exclusive, DMS
  <2> QED
    BY <1>1, <1>3, <2>2, <2>3 DEF LatchInv
<1> QED
  BY <1>4, <1>5

\* No thread is in a handler when main starts.
LEMMA FreshLatches ==
  ASSUME Init PROVE LatchInv
<1> USE DEF Init, Fresh
<1>1. ThreadTypes
  BY DEF ThreadTypes, Pcs
<1>2. LatchesSound /\ held \subseteq Holdings
  BY DEF LatchesSound
<1>3. Latched
  BY DEF Latched, Readers, Writers, Makers
<1> QED
  BY <1>1, <1>2, <1>3 DEF LatchInv

LEMMA StopLatches ==
  ASSUME Stop PROVE LatchInv'
<1> USE DEF Stop, Fresh
<1>1. ThreadTypes'
  BY DEF ThreadTypes, Pcs
<1>2. LatchesSound' /\ held' \subseteq Holdings
  BY DEF LatchesSound
<1>3. Latched'
  BY DEF Latched, Readers, Writers, Makers
<1> QED
  BY <1>1, <1>2, <1>3 DEF LatchInv

\* Latches named by pointers.
LEMMA LatchTypes ==
  ASSUME LatchInv, NEW t \in Threads
  PROVE  DMS(dp[t]) \in AllLatches /\ TMS(tp[t]) \in AllLatches /\ MS \in AllLatches
BY DEF LatchInv, ThreadTypes, DMS, TMS, MS, AllLatches

\* Every step of a handler keeps the latches in order.
LEMMA HandlerLatches ==
  ASSUME Inv, NEW t \in Threads, Handler(t)
  PROVE  LatchInv'
<1> USE DEF Inv
<1>0. IsSeq(tms) => Len(tms) \in Nat
  BY DEF IsSeq
<1>p. /\ "latch_db" \in Pcs \ {"idle"} /\ "excl_db" \in Pcs \ {"idle"}
      /\ "find_tab" \in Pcs \ {"idle"} /\ "check_tab" \in Pcs \ {"idle"}
      /\ "latch_db" \notin Readers /\ "latch_db" \notin Writers
      /\ "excl_db" \notin Readers /\ "excl_db" \notin Writers
      /\ "find_tab" \notin Writers /\ "check_tab" \notin Readers
  BY DEF Pcs, Readers, Writers, Makers
<1>l. /\ MS \in AllLatches /\ DMS(dp[t]) \in AllLatches
      /\ Shared(t, MS)[1] = t /\ Shared(t, DMS(dp[t]))[1] = t
  BY LatchTypes DEF Shared
<1>1. CASE LookupDb(t)
  <2>1. CASE Return(t)
    BY <2>1, ReturnLatches
  <2>2. CASE ~Return(t)
    <3> DEFINE db == call[t].db
               p == IF db \in DOMAIN db_map_ THEN db_map_[db] ELSE 0
    <3>1. /\ held' = (held \cup {Shared(t, MS)}) /\ dp' = [dp EXCEPT ![t] = p]
          /\ Goto(t, "latch_db") /\ UNCHANGED <<call, tp>> /\ CanShare(MS)
      BY <1>1, <2>2 DEF LookupDb
    <3>2. p \in Nat
      BY DEF MapInv, Pointed, IsSeq
    <3>3. dp' \in [Threads -> Nat] /\ \A u \in Threads \ {t} : dp'[u] = dp[u]
      BY <3>1, <3>2 DEF LatchInv, ThreadTypes
    <3> HIDE DEF p
    <3> QED
      BY <1>p, <1>l, <3>1, <3>3, ShareLatches
  <2> QED
    BY <2>1, <2>2
<1>2. CASE LookupLatchDb(t)
  <2>1. Shared(t, DMS(dp'[t])) \in held'
    BY <1>2 DEF LookupLatchDb, Shared, DMS, MS
  <2>2. dp' \in [Threads -> Nat] /\ \A u \in Threads \ {t} : dp'[u] = dp[u]
    BY <1>2 DEF LookupLatchDb, LatchInv, ThreadTypes
  <2> QED
    BY <1>2, <1>p, <1>l, <2>1, <2>2, ShareLatches DEF LookupLatchDb
<1>3. CASE FindTable(t)
  <2>1. CASE Return(t)
    BY <2>1, ReturnLatches
  <2>2. CASE ~Return(t)
    <3> DEFINE p == IF call[t].tab \in DOMAIN tabs[dp[t]] THEN tabs[dp[t]][call[t].tab] ELSE 0
    <3>1. /\ tp' = [tp EXCEPT ![t] = p] /\ Goto(t, "latch_tab") /\ UNCHANGED <<held, call, dp>>
          /\ pc[t] = "find_tab"
      BY <1>3, <2>2 DEF FindTable
    <3>2. p \in Nat
      BY <3>1 DEF MapInv, Pointed, IsSeq, ThreadsPointed, AtDb, InDb, Readers
    <3>3. tp' \in [Threads -> Nat]
      BY <3>1, <3>2 DEF LatchInv, ThreadTypes
    <3> HIDE DEF p
    <3> QED
      BY <3>1, <3>3, QuietLatches DEF LatchInv, ThreadTypes, Pcs, Readers, Writers, Makers
  <2> QED
    BY <2>1, <2>2
<1>4. CASE LatchTable(t)
  <2>1. dp' \in [Threads -> Nat] /\ \A u \in Threads \ {t} : dp'[u] = dp[u]
    BY <1>4 DEF LatchTable, LatchInv, ThreadTypes
  <2>2. "answer" \in Pcs \ {"idle"} /\ "answer" \notin Readers /\ "answer" \notin Writers
    BY DEF Pcs, Readers, Writers, Makers
  <2>3. Goto(t, "answer") /\ UNCHANGED <<dp, tp, call>>
    BY <1>4 DEF LatchTable
  <2>4. CASE call[t].op = "Lookup"
    BY <1>4, <1>l, <2>1, <2>2, <2>3, <2>4, LatchTypes, ShareLatches DEF LatchTable
  <2>5. CASE call[t].op = "UpdateLeader"
    BY <1>4, <1>l, <2>2, <2>3, <2>5, LatchTypes, ExcludeLatches DEF LatchTable
  <2> QED
    BY <1>4, <2>4, <2>5 DEF LatchTable
<1>5. CASE Answer(t)
  BY <1>5, ReturnLatches DEF Answer
<1>6. CASE CreateEnter(t)
  <2>1. CASE Return(t)
    BY <2>1, ReturnLatches
  <2>2. CASE Stop
    BY <2>2, StopLatches
  <2>3. CASE ~Return(t) /\ ~Stop
    <3>1. /\ held' = (held \cup {Shared(t, MS)}) /\ dp' = [dp EXCEPT ![t] = db_map_[call[t].db]]
          /\ call[t].db \in DOMAIN db_map_
          /\ Goto(t, "excl_db") /\ UNCHANGED <<call, tp>> /\ CanShare(MS)
      BY <1>6, <2>3 DEF CreateEnter
    <3>2. dp' \in [Threads -> Nat] /\ \A u \in Threads \ {t} : dp'[u] = dp[u]
      BY <3>1 DEF MapInv, Pointed, IsSeq, LatchInv, ThreadTypes
    <3> QED
      BY <1>p, <1>l, <3>1, <3>2, ShareLatches
  <2> QED
    BY <2>1, <2>2, <2>3
<1>7. CASE CreateLatchDb(t)
  <2>1. Exclusive(t, DMS(dp[t])) \in held'
    BY <1>7 DEF CreateLatchDb, Shared, Exclusive, DMS, MS
  <2> QED
    BY <1>7, <1>p, <1>l, <2>1, ExcludeLatches DEF CreateLatchDb
<1>8. CASE CheckTable(t)
  BY <1>8, ReturnLatches, QuietLatches
     DEF CheckTable, LatchInv, ThreadTypes, Pcs, Readers, Writers, Makers
<1>9. CASE NewTable(t)
  <2>1. tp' \in [Threads -> Nat]
    BY <1>0, <1>9 DEF NewTable, LatchInv, ThreadTypes, MapInv, Pointed
  <2> QED
    BY <1>9, <2>1, QuietLatches
       DEF NewTable, LatchInv, ThreadTypes, Pcs, Readers, Writers, Makers
<1>10. CASE FinishPlain(t)
  BY <1>10, ReturnLatches DEF FinishPlain
<1>11. CASE DescribeTable(t)
  BY <1>11, StopLatches, QuietLatches
     DEF DescribeTable, LatchInv, ThreadTypes, Pcs, Readers, Writers, Makers
<1>12. CASE PlaceReplica(t)
  BY <1>12, StopLatches, QuietLatches
     DEF PlaceReplica, LatchInv, ThreadTypes, Pcs, Readers, Writers, Makers
<1>13. CASE CountReplica(t)
  BY <1>13, ReturnLatches, QuietLatches
     DEF CountReplica, LatchInv, ThreadTypes, Pcs, Readers, Writers, Makers
<1>14. CASE CheckDb(t)
  BY <1>14, ReturnLatches, QuietLatches
     DEF CheckDb, LatchInv, ThreadTypes, Pcs, Readers, Writers, Makers
<1>15. CASE InsertDb(t)
  BY <1>15, ReturnLatches DEF InsertDb
<1>16. CASE CheckNode(t)
  BY <1>16, ReturnLatches, QuietLatches
     DEF CheckNode, LatchInv, ThreadTypes, Pcs, Readers, Writers, Makers
<1>17. CASE InsertNode(t)
  BY <1>17, ReturnLatches DEF InsertNode
<1> QED
  BY <1>1, <1>2, <1>3, <1>4, <1>5, <1>6, <1>7, <1>8, <1>9, <1>10, <1>11, <1>12, <1>13,
     <1>14, <1>15, <1>16, <1>17 DEF Handler

(***************************************************************************)
(* The maps and the tables in them.                                        *)
(***************************************************************************)

LEMMA AppendIsSeq ==
  ASSUME NEW s, NEW e, IsSeq(s)
  PROVE  /\ IsSeq(Append(s, e)) /\ Len(s) \in Nat /\ Len(Append(s, e)) = Len(s) + 1
         /\ \A i \in 1..Len(s) : Append(s, e)[i] = s[i]
         /\ Append(s, e)[Len(s) + 1] = e
<1>1. PICK S : s \in Seq(S)
  BY DEF IsSeq
<1>2. s \in Seq(S \cup {e}) /\ e \in S \cup {e}
  BY <1>1
<1>3. Append(s, e) \in Seq(S \cup {e})
  BY <1>2
<1> QED
  BY <1>2, <1>3 DEF IsSeq

LEMMA TabsStaySeq ==
  ASSUME IsSeq(tabs), NEW d \in 1..Len(tabs), NEW e, tabs' = [tabs EXCEPT ![d] = e]
  PROVE  /\ IsSeq(tabs') /\ Len(tabs') = Len(tabs) /\ tabs'[d] = e
         /\ \A j \in 1..Len(tabs) : j # d => tabs'[j] = tabs[j]
<1>1. PICK S : tabs \in Seq(S)
  BY DEF IsSeq
<1>2. tabs \in Seq(S \cup {e}) /\ e \in S \cup {e}
  BY <1>1
<1>3. tabs' \in Seq(S \cup {e}) /\ Len(tabs') = Len(tabs)
  BY <1>2
<1> QED
  BY <1>2, <1>3 DEF IsSeq

LEMMA NextOidStaysSeq ==
  ASSUME IsSeq(next_oid), NEW d \in 1..Len(next_oid), NEW e, next_oid' = [next_oid EXCEPT ![d] = e]
  PROVE  /\ IsSeq(next_oid') /\ Len(next_oid') = Len(next_oid) /\ next_oid'[d] = e
         /\ \A j \in 1..Len(next_oid) : j # d => next_oid'[j] = next_oid[j]
<1>1. PICK S : next_oid \in Seq(S)
  BY DEF IsSeq
<1>2. next_oid \in Seq(S \cup {e}) /\ e \in S \cup {e}
  BY <1>1
<1>3. next_oid' \in Seq(S \cup {e}) /\ Len(next_oid') = Len(next_oid)
  BY <1>2
<1> QED
  BY <1>2, <1>3 DEF IsSeq

LEMMA TmsStaySeq ==
  ASSUME IsSeq(tms), NEW i \in 1..Len(tms), NEW e, tms' = [tms EXCEPT ![i] = e]
  PROVE  /\ IsSeq(tms') /\ Len(tms') = Len(tms) /\ tms'[i] = e
         /\ \A j \in 1..Len(tms) : j # i => tms'[j] = tms[j]
<1>1. PICK S : tms \in Seq(S)
  BY DEF IsSeq
<1>2. tms \in Seq(S \cup {e}) /\ e \in S \cup {e}
  BY <1>1
<1>3. tms' \in Seq(S \cup {e}) /\ Len(tms') = Len(tms)
  BY <1>2
<1> QED
  BY <1>2, <1>3 DEF IsSeq

LEMMA NodesStaySeq ==
  ASSUME IsSeq(nodes), NEW i \in 1..Len(nodes), NEW e, nodes' = [nodes EXCEPT ![i] = e]
  PROVE  /\ IsSeq(nodes') /\ Len(nodes') = Len(nodes) /\ nodes'[i] = e
         /\ \A j \in 1..Len(nodes) : j # i => nodes'[j] = nodes[j]
<1>1. PICK S : nodes \in Seq(S)
  BY DEF IsSeq
<1>2. nodes \in Seq(S \cup {e}) /\ e \in S \cup {e}
  BY <1>1
<1>3. nodes' \in Seq(S \cup {e}) /\ Len(nodes') = Len(nodes)
  BY <1>2
<1> QED
  BY <1>2, <1>3 DEF IsSeq

\* Only null pointers come into the maps.
SameDbs ==
  /\ \A db \in DOMAIN db_map_ : db \in DOMAIN db_map_' /\ db_map_'[db] = db_map_[db]
  /\ \A db \in DOMAIN db_map_' : db \notin DOMAIN db_map_ => db_map_'[db] = 0
SameTabs ==
  /\ IsSeq(tabs') /\ Len(tabs') = Len(tabs)
  /\ \A d \in 1..Len(tabs) :
       /\ \A x \in DOMAIN tabs[d] : x \in DOMAIN tabs'[d] /\ tabs'[d][x] = tabs[d][x]
       /\ \A x \in DOMAIN tabs'[d] : x \notin DOMAIN tabs[d] => tabs'[d][x] = 0
SameObjects == SameDbs /\ SameTabs /\ IsSeq(tms') /\ Len(tms') = Len(tms)

\* The other threads stay where they are.
OnlyMoves(t) ==
  \A u \in Threads \ {t} : pc'[u] = pc[u] /\ call'[u] = call[u] /\ dp'[u] = dp[u] /\ tp'[u] = tp[u]

\* Where the thread comes to, its pointers are as the invariant wants them,
\* and it does not leave a table it was making unfinished.
ArrivesWell(t) ==
  /\ pc'[t] \in InDb => AtDb(t)'
  /\ pc'[t] \in Makers \cup {"latch_tab", "answer"} => tp'[t] \in 1..Len(tms')
  /\ pc'[t] \in {"latch_tab", "answer"} /\ call'[t].db \notin replaced' => tp'[t] \in whole'
LeavesWell(t) ==
  pc[t] \in Makers =>
    \/ tp[t] \in whole'
    \/ pc'[t] \in Makers /\ tp'[t] = tp[t] /\ call'[t] = call[t]

\* A step that brings no new object into the maps.
LEMMA SameMap ==
  ASSUME MapInv, NEW t \in Threads, SameObjects, OnlyMoves(t), ArrivesWell(t), LeavesWell(t),
         whole \subseteq whole', UNCHANGED replaced
  PROVE  MapInv'
<1>1. Pointed'
  <2>1. \A db \in DOMAIN db_map_' : db_map_'[db] \in 0..Len(tabs')
    BY DEF MapInv, Pointed, SameObjects, SameDbs, SameTabs, IsSeq
  <2>2. \A a, b \in DOMAIN db_map_' : db_map_'[a] = db_map_'[b] /\ db_map_'[a] # 0 => a = b
    BY DEF MapInv, Pointed, SameObjects, SameDbs
  <2>3. \A d \in 1..Len(tabs') : \A x \in DOMAIN tabs'[d] : tabs'[d][x] \in 0..Len(tms')
    BY DEF MapInv, Pointed, SameObjects, SameTabs, IsSeq
  <2> QED
    BY <2>1, <2>2, <2>3 DEF Pointed, SameObjects, SameTabs, IsSeq
<1>2. ThreadsPointed'
  <2> SUFFICES ASSUME NEW u \in Threads
               PROVE  /\ pc'[u] \in InDb => AtDb(u)'
                      /\ pc'[u] \in Makers \cup {"latch_tab", "answer"} => tp'[u] \in 1..Len(tms')
    BY DEF ThreadsPointed
  <2>1. CASE u = t
    BY <2>1 DEF ArrivesWell
  <2>2. CASE u # t
    BY <2>2 DEF MapInv, ThreadsPointed, AtDb, OnlyMoves, SameObjects, SameDbs, SameTabs
  <2> QED
    BY <2>1, <2>2
<1>3. Unfinished'
  <2> SUFFICES ASSUME NEW db \in DOMAIN db_map_', db \notin replaced', db_map_'[db] # 0,
                      NEW x \in DOMAIN tabs'[db_map_'[db]],
                      tabs'[db_map_'[db]][x] # 0, tabs'[db_map_'[db]][x] \notin whole'
               PROVE  Making(db, tabs[db_map_[db]][x])'
    BY DEF Unfinished
  <2> DEFINE d == db_map_[db]
  <2>1. db \in DOMAIN db_map_ /\ db_map_'[db] = d /\ d # 0 /\ d \in 1..Len(tabs)
    BY DEF SameObjects, SameDbs, MapInv, Pointed, IsSeq
  <2>2. x \in DOMAIN tabs[d] /\ tabs'[d][x] = tabs[d][x]
    BY <2>1 DEF SameObjects, SameTabs
  <2>3. Making(db, tabs[d][x])
    BY <2>1, <2>2 DEF MapInv, Unfinished
  <2>4. PICK u \in Threads : pc[u] \in Makers /\ tp[u] = tabs[d][x] /\ call[u].db = db
    BY <2>3 DEF Making
  <2>5. pc'[u] \in Makers /\ tp'[u] = tabs[d][x] /\ call'[u].db = db
    BY <2>1, <2>2, <2>4 DEF OnlyMoves, LeavesWell
  <2> QED
    BY <2>1, <2>2, <2>5 DEF Making
<1>4. ReadersSeeWholeTables'
  <2> SUFFICES ASSUME NEW u \in Threads, pc'[u] \in {"latch_tab", "answer"},
                      call'[u].db \notin replaced'
               PROVE  tp'[u] \in whole'
    BY DEF ReadersSeeWholeTables
  <2>1. CASE u = t
    BY <2>1 DEF ArrivesWell
  <2>2. CASE u # t
    BY <2>2 DEF MapInv, ReadersSeeWholeTables, OnlyMoves
  <2> QED
    BY <2>1, <2>2
<1> QED
  BY <1>1, <1>2, <1>3, <1>4 DEF MapInv

LEMMA UnchangedObjects ==
  ASSUME MapInv, UNCHANGED <<db_map_, tabs>>, IsSeq(tms'), Len(tms') = Len(tms)
  PROVE  SameObjects
BY DEF SameObjects, SameDbs, SameTabs, MapInv, Pointed

LEMMA ReturnMoves ==
  ASSUME LatchInv, NEW t \in Threads, Return(t)
  PROVE  OnlyMoves(t) /\ ArrivesWell(t) /\ pc'[t] = "idle"
BY DEF LatchInv, ThreadTypes, Return, Goto, OnlyMoves, ArrivesWell, InDb, Readers, Writers, Makers

\* A call that ends, of a thread that makes no table or has finished it.
LEMMA ReturnMap ==
  ASSUME Inv, NEW t \in Threads, Return(t), SameObjects,
         pc[t] \in Makers => tp[t] \in whole', whole \subseteq whole', UNCHANGED replaced
  PROVE  MapInv'
BY ReturnMoves, SameMap DEF Inv, LeavesWell

\* A step from a place to another one in the same database and table.
LEMMA GotoMap ==
  ASSUME Inv, NEW t \in Threads, NEW p \in Pcs, Goto(t, p), UNCHANGED <<call, dp, tp>>,
         UNCHANGED <<db_map_, tabs>>, IsSeq(tms'), Len(tms') = Len(tms),
         UNCHANGED <<whole, replaced>>,
         p \in InDb => pc[t] \in InDb,
         p \in Makers => pc[t] \in Makers,
         p \in {"latch_tab", "answer"} => pc[t] \in {"latch_tab", "answer"},
         pc[t] \in Makers => p \in Makers
  PROVE  MapInv'
<1>1. SameObjects
  BY UnchangedObjects DEF Inv
<1>2. OnlyMoves(t) /\ pc'[t] = p
  BY DEF Inv, LatchInv, ThreadTypes, Goto, OnlyMoves
<1>3. ArrivesWell(t)
  BY <1>2 DEF ArrivesWell, Inv, MapInv, ThreadsPointed, ReadersSeeWholeTables, AtDb
<1>4. LeavesWell(t)
  BY <1>2 DEF LeavesWell
<1> QED
  BY <1>1, <1>2, <1>3, <1>4, SameMap DEF Inv

LEMMA EmptyIsSeq == IsSeq(<<>>)
<1>1. <<>> \in Seq({})
  OBVIOUS
<1> QED
  BY <1>1 DEF IsSeq

\* There are no objects when main starts.
LEMMA FreshMap ==
  ASSUME Init PROVE MapInv
<1> USE DEF Init, Fresh
<1>1. Pointed
  BY EmptyIsSeq DEF Pointed
<1>2. ThreadsPointed
  BY DEF ThreadsPointed, InDb, Readers, Writers, Makers
<1>3. Unfinished /\ ReadersSeeWholeTables
  BY DEF Unfinished, ReadersSeeWholeTables
<1> QED
  BY <1>1, <1>2, <1>3 DEF MapInv

LEMMA StopMap ==
  ASSUME Stop PROVE MapInv'
<1> USE DEF Stop, Fresh
<1>1. Pointed'
  BY EmptyIsSeq DEF Pointed
<1>2. ThreadsPointed'
  BY DEF ThreadsPointed, InDb, Readers, Writers, Makers
<1>3. Unfinished' /\ ReadersSeeWholeTables'
  BY DEF Unfinished, ReadersSeeWholeTables
<1> QED
  BY <1>1, <1>2, <1>3 DEF MapInv

\* A writer's database has no reader and no other writer, and none of its
\* tables is unfinished before the writer enters one.
LEMMA AloneInDb ==
  ASSUME Inv, NEW t \in Threads, NEW u \in Threads \ {t},
         pc[t] \in Writers, pc[u] \in Readers \cup Writers,
         call[t].db = call[u].db
  PROVE  call[t].db \in replaced
<1> SUFFICES ASSUME call[t].db \notin replaced PROVE FALSE
  OBVIOUS
<1>1. dp[t] = dp[u]
  BY DEF Inv, MapInv, ThreadsPointed, AtDb, InDb
<1>2. Exclusive(t, DMS(dp[t])) \in held
  BY DEF Inv, LatchInv, Latched
<1>3. Shared(u, DMS(dp[t])) \in held \/ Exclusive(u, DMS(dp[t])) \in held
  BY <1>1 DEF Inv, LatchInv, Latched
<1> QED
  BY <1>2, <1>3 DEF Inv, LatchInv, LatchesSound, Shared, Exclusive

\* A reader finds only finished tables.
LEMMA FoundIsWhole ==
  ASSUME Inv, NEW t \in Threads, pc[t] = "find_tab", call[t].db \notin replaced,
         NEW x \in DOMAIN tabs[dp[t]], tabs[dp[t]][x] # 0
  PROVE  tabs[dp[t]][x] \in whole
<1> SUFFICES ASSUME tabs[dp[t]][x] \notin whole PROVE FALSE
  OBVIOUS
<1>1. AtDb(t)
  BY DEF Inv, MapInv, ThreadsPointed, InDb, Readers
<1>2. Making(call[t].db, tabs[dp[t]][x])
  BY <1>1 DEF AtDb, Inv, MapInv, Unfinished
<1>3. PICK u \in Threads : pc[u] \in Makers /\ call[u].db = call[t].db
  BY <1>2 DEF Making
<1> QED
  BY <1>3, AloneInDb DEF Readers, Writers, Makers

\* A table comes into the map with its maker.
LEMMA NewTableMap ==
  ASSUME Inv, NEW t \in Threads, NewTable(t)
  PROVE  MapInv'
<1> DEFINE db == call[t].db
           p == db_map_[db]
           i == Len(tms) + 1
           entries == With(tabs[p], call[t].tab, i)
<1>1. /\ pc[t] = "new_tab" /\ Goto(t, "set_oid") /\ tp' = [tp EXCEPT ![t] = i]
      /\ tabs' = [tabs EXCEPT ![p] = entries]
      /\ \E e : tms' = Append(tms, e)
      /\ UNCHANGED <<db_map_, call, dp, whole, replaced>>
  BY DEF NewTable
<1>2. AtDb(t) /\ p \in 1..Len(tabs)
  BY <1>1 DEF Inv, MapInv, ThreadsPointed, InDb, Writers, AtDb, Pointed, IsSeq
<1>3. IsSeq(tms') /\ Len(tms') = i /\ Len(tms) \in Nat
  BY <1>1, AppendIsSeq DEF Inv, MapInv, Pointed
<1>4. /\ IsSeq(tabs') /\ Len(tabs') = Len(tabs) /\ tabs'[p] = entries
      /\ \A d \in 1..Len(tabs) : d # p => tabs'[d] = tabs[d]
  <2>1. IsSeq(tabs) /\ tabs' = [tabs EXCEPT ![p] = entries] /\ p \in 1..Len(tabs)
    BY <1>1, <1>2 DEF Inv, MapInv, Pointed
  <2> HIDE DEF entries, p
  <2> QED
    BY <2>1, TabsStaySeq
<1>5. \A x \in DOMAIN tabs'[p] : tabs'[p][x] = i \/ (x \in DOMAIN tabs[p] /\ tabs'[p][x] = tabs[p][x])
  <2>1. \A x \in DOMAIN entries : entries[x] = i \/ (x \in DOMAIN tabs[p] /\ entries[x] = tabs[p][x])
    BY DEF With
  <2> HIDE DEF entries
  <2> QED
    BY <1>4, <2>1
<1>6. /\ \A u \in Threads \ {t} : pc'[u] = pc[u] /\ tp'[u] = tp[u]
      /\ pc'[t] = "set_oid" /\ tp'[t] = i
  BY <1>1 DEF Inv, LatchInv, ThreadTypes, Goto
<1> HIDE DEF i
<1>7. Pointed'
  <2>1. \A d \in 1..Len(tabs') : \A x \in DOMAIN tabs'[d] : tabs'[d][x] \in 0..Len(tms')
    <3> SUFFICES ASSUME NEW d \in 1..Len(tabs), NEW x \in DOMAIN tabs'[d]
                 PROVE  tabs'[d][x] \in 0..Len(tms')
      BY <1>4
    <3>1. 0..Len(tms) \subseteq 0..i /\ i \in 0..i
      BY <1>3 DEF i
    <3>2. CASE d = p
      BY <1>3, <1>5, <3>1, <3>2 DEF Inv, MapInv, Pointed
    <3>3. CASE d # p
      BY <1>3, <1>4, <3>1, <3>3 DEF Inv, MapInv, Pointed
    <3> QED
      BY <3>2, <3>3
  <2> QED
    BY <1>1, <1>3, <1>4, <2>1 DEF Pointed, Inv, MapInv
<1>8. ThreadsPointed'
  <2> SUFFICES ASSUME NEW u \in Threads
               PROVE  /\ pc'[u] \in InDb => AtDb(u)'
                      /\ pc'[u] \in Makers \cup {"latch_tab", "answer"} => tp'[u] \in 1..Len(tms')
    BY DEF ThreadsPointed
  <2>1. AtDb(u) => AtDb(u)'
    BY <1>1, <1>4 DEF AtDb
  <2>2. CASE u = t
    BY <1>2, <1>3, <1>6, <2>1, <2>2 DEF i
  <2>3. CASE u # t
    BY <1>3, <1>6, <2>1, <2>3 DEF Inv, MapInv, ThreadsPointed, i
  <2> QED
    BY <2>2, <2>3
<1>9. Unfinished'
  <2> SUFFICES ASSUME NEW c \in DOMAIN db_map_', c \notin replaced', db_map_'[c] # 0,
                      NEW x \in DOMAIN tabs'[db_map_'[c]],
                      tabs'[db_map_'[c]][x] # 0, tabs'[db_map_'[c]][x] \notin whole'
               PROVE  Making(c, tabs[db_map_[c]][x])'
    BY DEF Unfinished
  <2> DEFINE d == db_map_[c]
  <2>0. c \in DOMAIN db_map_ /\ c \notin replaced /\ d # 0 /\ d \in 1..Len(tabs)
    BY <1>1 DEF Inv, MapInv, Pointed, IsSeq
  <2>1. CASE d = p /\ tabs'[d][x] = i
    <3>1. c = db
      BY <1>1, <1>2, <2>0, <2>1 DEF Inv, MapInv, Pointed, AtDb
    <3> QED
      BY <1>1, <1>6, <2>1, <3>1 DEF Making, Makers
  <2>2. CASE x \in DOMAIN tabs[d] /\ tabs'[d][x] = tabs[d][x]
    <3>1. Making(c, tabs[d][x])
      BY <1>1, <2>0, <2>2 DEF Inv, MapInv, Unfinished
    <3>2. PICK u \in Threads : pc[u] \in Makers /\ tp[u] = tabs[d][x] /\ call[u].db = c
      BY <3>1 DEF Making
    <3>3. u # t
      BY <1>1, <3>2 DEF Makers
    <3> QED
      BY <1>1, <1>6, <2>2, <3>2, <3>3 DEF Making
  <2> QED
    BY <1>1, <1>4, <1>5, <2>0, <2>1, <2>2
<1>10. ReadersSeeWholeTables'
  BY <1>1, <1>6 DEF ReadersSeeWholeTables, Inv, MapInv
<1> QED
  BY <1>7, <1>8, <1>9, <1>10 DEF MapInv

\* A database comes into the map, in the place of a null pointer, of nothing,
\* or of another database, which is then replaced.
LEMMA InsertDbMap ==
  ASSUME Inv, NEW t \in Threads, InsertDb(t)
  PROVE  MapInv'
<1> DEFINE db == call[t].db
           n == Len(tabs) + 1
<1>1. /\ pc[t] = "insert_db" /\ Return(t)
      /\ tabs' = Append(tabs, <<>>) /\ db_map_' = With(db_map_, db, n)
      /\ replaced' = IF db \in DOMAIN db_map_ /\ db_map_[db] # 0
                     THEN replaced \cup {db} ELSE replaced
      /\ UNCHANGED <<tms, whole>>
  BY DEF InsertDb
<1>2. /\ IsSeq(tabs') /\ Len(tabs') = n /\ Len(tabs) \in Nat /\ tabs'[n] = <<>>
      /\ \A d \in 1..Len(tabs) : tabs'[d] = tabs[d]
  BY <1>1, AppendIsSeq DEF Inv, MapInv, Pointed
<1>3. /\ \A u \in Threads \ {t} : pc'[u] = pc[u] /\ call'[u] = call[u] /\ dp'[u] = dp[u] /\ tp'[u] = tp[u]
      /\ pc'[t] = "idle"
  BY <1>1, ReturnMoves DEF Inv, OnlyMoves
<1>4. /\ db \in DOMAIN db_map_' /\ db_map_'[db] = n
      /\ \A c : c # db => (c \in DOMAIN db_map_' <=> c \in DOMAIN db_map_)
      /\ \A c \in DOMAIN db_map_ : c # db => db_map_'[c] = db_map_[c]
      /\ \A c \in DOMAIN db_map_ : c \in DOMAIN db_map_'
  BY <1>1 DEF With
<1> HIDE DEF n
<1>5. n \in Nat /\ n # 0 /\ \A d \in 0..Len(tabs) : d # n /\ d \in 0..n
  BY <1>2 DEF n
<1>6. Pointed'
  <2>1. \A c \in DOMAIN db_map_' : db_map_'[c] \in 0..Len(tabs')
    BY <1>2, <1>4, <1>5 DEF Inv, MapInv, Pointed
  <2>2. \A a, b \in DOMAIN db_map_' : db_map_'[a] = db_map_'[b] /\ db_map_'[a] # 0 => a = b
    BY <1>4, <1>5 DEF Inv, MapInv, Pointed
  <2>3. \A d \in 1..Len(tabs') : \A x \in DOMAIN tabs'[d] : tabs'[d][x] \in 0..Len(tms')
    <3> SUFFICES ASSUME NEW d \in 1..Len(tabs'), NEW x \in DOMAIN tabs'[d]
                 PROVE  tabs'[d][x] \in 0..Len(tms')
      OBVIOUS
    <3>1. d = n \/ d \in 1..Len(tabs)
      BY <1>2 DEF n
    <3>2. d # n
      BY <1>2
    <3> QED
      BY <1>1, <1>2, <3>1, <3>2 DEF Inv, MapInv, Pointed
  <2> QED
    BY <1>1, <1>2, <2>1, <2>2, <2>3 DEF Pointed, Inv, MapInv
<1>7. ThreadsPointed'
  <2> SUFFICES ASSUME NEW u \in Threads \ {t}
               PROVE  /\ pc'[u] \in InDb => AtDb(u)'
                      /\ pc'[u] \in Makers \cup {"latch_tab", "answer"} => tp'[u] \in 1..Len(tms')
    BY <1>3 DEF ThreadsPointed, InDb, Readers, Writers, Makers
  <2>1. AtDb(u) => AtDb(u)'
    <3> SUFFICES ASSUME AtDb(u) PROVE AtDb(u)'
      OBVIOUS
    <3>1. dp'[u] \in 1..Len(tabs')
      BY <1>2, <1>3 DEF AtDb, n
    <3>2. CASE call[u].db = db
      BY <1>1, <1>3, <1>4, <1>5, <3>1, <3>2 DEF AtDb
    <3>3. CASE call[u].db # db
      BY <1>1, <1>3, <1>4, <3>1, <3>3 DEF AtDb
    <3> QED
      BY <3>2, <3>3
  <2> QED
    BY <1>1, <1>3, <2>1 DEF Inv, MapInv, ThreadsPointed
<1>8. Unfinished'
  <2> SUFFICES ASSUME NEW c \in DOMAIN db_map_', c \notin replaced', db_map_'[c] # 0,
                      NEW x \in DOMAIN tabs'[db_map_'[c]],
                      tabs'[db_map_'[c]][x] # 0, tabs'[db_map_'[c]][x] \notin whole'
               PROVE  Making(c, tabs[db_map_[c]][x])'
    BY DEF Unfinished
  <2>1. c # db
    BY <1>2, <1>4
  <2>2. /\ c \in DOMAIN db_map_ /\ c \notin replaced /\ db_map_'[c] = db_map_[c]
        /\ db_map_[c] \in 1..Len(tabs)
    BY <1>1, <1>4, <1>2, <2>1 DEF Inv, MapInv, Pointed
  <2>3. Making(c, tabs[db_map_[c]][x])
    BY <1>1, <1>2, <2>2 DEF Inv, MapInv, Unfinished
  <2>4. PICK u \in Threads : pc[u] \in Makers /\ tp[u] = tabs[db_map_[c]][x] /\ call[u].db = c
    BY <2>3 DEF Making
  <2>5. u # t
    BY <1>1, <2>4 DEF Makers
  <2> QED
    BY <1>2, <1>3, <2>2, <2>4, <2>5 DEF Making
<1>9. ReadersSeeWholeTables'
  BY <1>1, <1>3 DEF ReadersSeeWholeTables, Inv, MapInv
<1> QED
  BY <1>6, <1>7, <1>8, <1>9 DEF MapInv

\* operator[] brings a null pointer into the map of databases, or nothing.
LEMMA LookupDbObjects ==
  ASSUME Inv, NEW t \in Threads, LookupDb(t)
  PROVE  SameObjects
<1>1. SameDbs
  BY DEF LookupDb, SameDbs, With
<1>2. UNCHANGED <<tabs, tms>>
  BY DEF LookupDb
<1> QED
  BY <1>1, <1>2 DEF SameObjects, SameTabs, Inv, MapInv, Pointed

\* The same in the map of tables.
LEMMA FindTableObjects ==
  ASSUME Inv, NEW t \in Threads, FindTable(t)
  PROVE  SameObjects
<1> DEFINE tab == call[t].tab
           d == dp[t]
           p == IF tab \in DOMAIN tabs[d] THEN tabs[d][tab] ELSE 0
           entries == With(tabs[d], tab, p)
<1>1. /\ pc[t] = "find_tab" /\ tabs' = [tabs EXCEPT ![d] = entries] /\ UNCHANGED <<db_map_, tms>>
  BY DEF FindTable
<1>2. AtDb(t)
  BY <1>1 DEF Inv, MapInv, ThreadsPointed, InDb, Readers
<1>3. /\ \A x \in DOMAIN tabs[d] : x \in DOMAIN entries /\ entries[x] = tabs[d][x]
      /\ \A x \in DOMAIN entries : x \notin DOMAIN tabs[d] => entries[x] = 0
  BY DEF With
<1>4. /\ IsSeq(tabs') /\ Len(tabs') = Len(tabs) /\ tabs'[d] = entries
      /\ \A j \in 1..Len(tabs) : j # d => tabs'[j] = tabs[j]
  <2>1. IsSeq(tabs) /\ tabs' = [tabs EXCEPT ![d] = entries] /\ d \in 1..Len(tabs)
    BY <1>1, <1>2 DEF Inv, MapInv, Pointed, AtDb
  <2> HIDE DEF entries, d
  <2> QED
    BY <2>1, TabsStaySeq
<1> HIDE DEF entries
<1>5. SameTabs
  BY <1>3, <1>4 DEF SameTabs
<1> QED
  BY <1>1, <1>5 DEF SameObjects, SameDbs, Inv, MapInv, Pointed

LEMMA LookupDbMap ==
  ASSUME Inv, NEW t \in Threads, LookupDb(t)
  PROVE  MapInv'
<1> DEFINE db == call[t].db
           p == IF db \in DOMAIN db_map_ THEN db_map_[db] ELSE 0
<1>1. /\ pc[t] = "lookup" /\ db_map_' = With(db_map_, db, p)
      /\ UNCHANGED <<tabs, tms, whole, replaced>>
      /\ \/ Return(t)
         \/ p # 0 /\ dp' = [dp EXCEPT ![t] = p] /\ Goto(t, "latch_db") /\ UNCHANGED <<call, tp>>
  BY DEF LookupDb, history
<1>2. db \in DOMAIN db_map_' /\ db_map_'[db] = p
  BY <1>1 DEF With
<1>3. SameObjects
  BY LookupDbObjects
<1>4. CASE Return(t)
  BY <1>1, <1>3, <1>4, ReturnMap DEF Makers
<1>5. CASE p # 0 /\ dp' = [dp EXCEPT ![t] = p] /\ Goto(t, "latch_db") /\ UNCHANGED <<call, tp>>
  <2>1. p \in 1..Len(tabs)
    BY <1>5 DEF Inv, MapInv, Pointed, IsSeq
  <2>2. OnlyMoves(t) /\ pc'[t] = "latch_db" /\ dp'[t] = p
    BY <1>5 DEF OnlyMoves, Inv, LatchInv, ThreadTypes, Goto
  <2>3. AtDb(t)'
    BY <1>1, <1>2, <1>5, <2>1, <2>2 DEF AtDb
  <2>4. ArrivesWell(t) /\ LeavesWell(t)
    BY <1>1, <2>2, <2>3 DEF ArrivesWell, LeavesWell, Makers
  <2> QED
    BY <1>1, <1>3, <2>2, <2>4, SameMap DEF Inv
<1> QED
  BY <1>1, <1>4, <1>5

LEMMA FindTableMap ==
  ASSUME Inv, NEW t \in Threads, FindTable(t)
  PROVE  MapInv'
<1> DEFINE tab == call[t].tab
           d == dp[t]
           p == IF tab \in DOMAIN tabs[d] THEN tabs[d][tab] ELSE 0
<1>1. /\ pc[t] = "find_tab" /\ UNCHANGED <<db_map_, tms, whole, replaced>>
      /\ \/ Return(t)
         \/ p # 0 /\ tp' = [tp EXCEPT ![t] = p] /\ Goto(t, "latch_tab") /\ UNCHANGED <<call, dp>>
  BY DEF FindTable, history
<1>2. AtDb(t)
  BY <1>1 DEF Inv, MapInv, ThreadsPointed, InDb, Readers
<1>5. SameObjects
  BY FindTableObjects
<1>6. CASE Return(t)
  BY <1>1, <1>5, <1>6, ReturnMap DEF Makers
<1>7. CASE p # 0 /\ tp' = [tp EXCEPT ![t] = p] /\ Goto(t, "latch_tab") /\ UNCHANGED <<call, dp>>
  <2>1. OnlyMoves(t) /\ pc'[t] = "latch_tab" /\ tp'[t] = p /\ call'[t] = call[t] /\ dp'[t] = dp[t]
    BY <1>7 DEF OnlyMoves, Inv, LatchInv, ThreadTypes, Goto
  <2>2. tab \in DOMAIN tabs[d] /\ p = tabs[d][tab] /\ p \in 1..Len(tms)
    BY <1>2, <1>7 DEF Inv, MapInv, Pointed, AtDb, IsSeq
  <2>3. call[t].db \notin replaced => p \in whole
    BY <1>1, <1>7, <2>2, FoundIsWhole
  <2>4. AtDb(t)'
    BY <1>1, <1>2, <1>5, <2>1 DEF AtDb, SameObjects, SameTabs
  <2>5. ArrivesWell(t) /\ LeavesWell(t)
    <3> HIDE DEF p
    <3> QED
      BY <1>1, <2>1, <2>2, <2>3, <2>4 DEF ArrivesWell, LeavesWell, Makers
  <2> QED
    BY <1>1, <1>5, <2>1, <2>5, SameMap DEF Inv
<1> QED
  BY <1>1, <1>6, <1>7

\* Every step of a handler keeps the maps in order.
LEMMA HandlerMap ==
  ASSUME Inv, NEW t \in Threads, Handler(t)
  PROVE  MapInv'
<1>1. CASE LookupDb(t)
  BY <1>1, LookupDbMap
<1>2. CASE LookupLatchDb(t)
  BY <1>2, GotoMap DEF LookupLatchDb, catalogue, history, Pcs, InDb, Readers, Writers, Makers,
                       Inv, MapInv, Pointed
<1>3. CASE FindTable(t)
  BY <1>3, FindTableMap
<1>4. CASE LatchTable(t)
  BY <1>4, GotoMap DEF LatchTable, catalogue, history, Pcs, InDb, Readers, Writers, Makers,
                       Inv, MapInv, Pointed
<1>5. CASE Answer(t)
  BY <1>5, ReturnMap, UnchangedObjects DEF Answer, catalogue, history, Makers, Inv, MapInv, Pointed
<1>6. CASE CreateEnter(t)
  <2>1. CASE Stop
    BY <2>1, StopMap
  <2>2. CASE Return(t) /\ ~Stop
    BY <1>6, <2>2, ReturnMap, UnchangedObjects
       DEF CreateEnter, catalogue, history, Makers, Inv, MapInv, Pointed
  <2>3. CASE ~Return(t) /\ ~Stop
    <3> DEFINE p == db_map_[call[t].db]
    <3>1. /\ pc[t] = "create" /\ call[t].db \in DOMAIN db_map_ /\ p # 0
          /\ dp' = [dp EXCEPT ![t] = p] /\ Goto(t, "excl_db") /\ UNCHANGED <<call, tp>>
          /\ UNCHANGED <<db_map_, tabs, tms, whole, replaced>>
      BY <1>6, <2>3 DEF CreateEnter, catalogue, history
    <3>2. SameObjects /\ p \in 1..Len(tabs)
      BY <3>1, UnchangedObjects DEF Inv, MapInv, Pointed, IsSeq
    <3>3. OnlyMoves(t) /\ pc'[t] = "excl_db" /\ dp'[t] = p
      BY <3>1 DEF OnlyMoves, Inv, LatchInv, ThreadTypes, Goto
    <3>4. AtDb(t)'
      BY <3>1, <3>2, <3>3 DEF AtDb
    <3>5. ArrivesWell(t) /\ LeavesWell(t)
      BY <3>1, <3>3, <3>4 DEF ArrivesWell, LeavesWell, Makers
    <3> QED
      BY <3>1, <3>2, <3>3, <3>5, SameMap DEF Inv
  <2> QED
    BY <2>1, <2>2, <2>3
<1>7. CASE CreateLatchDb(t)
  BY <1>7, GotoMap DEF CreateLatchDb, catalogue, history, Pcs, InDb, Readers, Writers, Makers,
                       Inv, MapInv, Pointed
<1>8. CASE CheckTable(t)
  <2>1. CASE Return(t)
    BY <1>8, <2>1, ReturnMap, UnchangedObjects
       DEF CheckTable, catalogue, history, Makers, Inv, MapInv, Pointed
  <2>2. CASE ~Return(t)
    BY <1>8, <2>2, GotoMap DEF CheckTable, catalogue, history, Pcs, InDb, Readers, Writers, Makers,
                               Inv, MapInv, Pointed
  <2> QED
    BY <2>1, <2>2
<1>9. CASE NewTable(t)
  BY <1>9, NewTableMap
<1>10. CASE FinishPlain(t)
  BY <1>10, ReturnMap, UnchangedObjects DEF FinishPlain, Inv, MapInv, Pointed
<1>11. CASE DescribeTable(t)
  <2>1. CASE Stop
    BY <2>1, StopMap
  <2>2. CASE ~Stop
    <3>1. /\ pc[t] = "set_oid" /\ Goto(t, "place") /\ UNCHANGED <<call, dp, tp>>
          /\ UNCHANGED <<db_map_, tabs, whole, replaced>>
          /\ \E e : tms' = [tms EXCEPT ![tp[t]] = e]
      BY <1>11, <2>2 DEF DescribeTable, history
    <3>2. IsSeq(tms') /\ Len(tms') = Len(tms)
      BY <3>1, TmsStaySeq DEF Inv, MapInv, Pointed, ThreadsPointed, Makers
    <3> QED
      BY <3>1, <3>2, GotoMap DEF Pcs, InDb, Readers, Writers, Makers
  <2> QED
    BY <2>1, <2>2
<1>12. CASE PlaceReplica(t)
  <2>1. CASE Stop
    BY <2>1, StopMap
  <2>2. CASE ~Stop
    BY <1>12, <2>2, GotoMap
       DEF PlaceReplica, catalogue, Pcs, InDb, Readers, Writers, Makers, Inv, MapInv, Pointed
  <2> QED
    BY <2>1, <2>2
<1>13. CASE CountReplica(t)
  <2>1. /\ pc[t] = "count" /\ UNCHANGED <<db_map_, tabs, replaced>>
        /\ tms' = tms \/ \E e : tms' = [tms EXCEPT ![tp[t]] = e]
    BY <1>13 DEF CountReplica
  <2>2. IsSeq(tms') /\ Len(tms') = Len(tms)
    BY <2>1, TmsStaySeq DEF Inv, MapInv, Pointed, ThreadsPointed, Makers
  <2>3. CASE Return(t) /\ whole' = whole \cup {tp[t]}
    BY <2>1, <2>2, <2>3, ReturnMap, UnchangedObjects DEF Inv
  <2>4. CASE Goto(t, "place") /\ UNCHANGED <<held, call, dp, tp, whole>>
    BY <2>1, <2>2, <2>4, GotoMap DEF Pcs, InDb, Readers, Writers, Makers
  <2> QED
    BY <1>13, <2>3, <2>4 DEF CountReplica
<1>14. CASE CheckDb(t)
  <2>1. CASE Return(t)
    BY <1>14, <2>1, ReturnMap, UnchangedObjects
       DEF CheckDb, catalogue, history, Makers, Inv, MapInv, Pointed
  <2>2. CASE ~Return(t)
    BY <1>14, <2>2, GotoMap DEF CheckDb, catalogue, history, Pcs, InDb, Readers, Writers, Makers,
                                Inv, MapInv, Pointed
  <2> QED
    BY <2>1, <2>2
<1>15. CASE InsertDb(t)
  BY <1>15, InsertDbMap
<1>16. CASE CheckNode(t)
  <2>1. CASE Return(t)
    BY <1>16, <2>1, ReturnMap, UnchangedObjects
       DEF CheckNode, catalogue, history, Makers, Inv, MapInv, Pointed
  <2>2. CASE ~Return(t)
    BY <1>16, <2>2, GotoMap DEF CheckNode, catalogue, history, Pcs, InDb, Readers, Writers, Makers,
                                Inv, MapInv, Pointed
  <2> QED
    BY <2>1, <2>2
<1>17. CASE InsertNode(t)
  BY <1>17, ReturnMap, UnchangedObjects
     DEF InsertNode, catalogue, history, Makers, Inv, MapInv, Pointed
<1> QED
  BY <1>1, <1>2, <1>3, <1>4, <1>5, <1>6, <1>7, <1>8, <1>9, <1>10, <1>11, <1>12, <1>13,
     <1>14, <1>15, <1>16, <1>17 DEF Handler

\* A request that comes in touches neither.
LEMMA ReceiveKeeps ==
  ASSUME Inv, NEW t \in Threads, Receive(t)
  PROVE  Inv'
<1>1. PICK c : /\ call' = [call EXCEPT ![t] = c] /\ Goto(t, Entry(c.op))
               /\ c.op \in Lookups \cup Creates \cup {"CreateDataBase", "NodeRegister"}
  BY DEF Receive, LookupCalls, CreateCalls, Lookups, Creates
<1>2. Entry(c.op) \in {"lookup", "create", "check_db", "check_node"}
  BY <1>1 DEF Entry, Lookups, Creates
<1>3. /\ pc[t] = "idle" /\ UNCHANGED <<db_map_, tabs, tms, held, dp, tp, whole, replaced>>
  BY DEF Receive, catalogue, history
<1>4. /\ Entry(c.op) \in Pcs \ {"idle"} /\ Entry(c.op) \notin InDb
      /\ Entry(c.op) \notin {"latch_tab", "answer"}
  BY <1>2 DEF Pcs, InDb, Readers, Writers, Makers
<1>5. LatchInv'
  BY <1>1, <1>3, <1>4, QuietLatches DEF Inv, LatchInv, ThreadTypes, InDb
<1>6. OnlyMoves(t) /\ pc'[t] = Entry(c.op)
  BY <1>1, <1>3 DEF Inv, LatchInv, ThreadTypes, Goto, OnlyMoves
<1>7. ArrivesWell(t) /\ LeavesWell(t)
  BY <1>3, <1>4, <1>6 DEF ArrivesWell, LeavesWell, InDb, Writers, Makers
<1>8. SameObjects
  BY <1>3, UnchangedObjects DEF Inv, MapInv, Pointed
<1>9. MapInv'
  BY <1>3, <1>6, <1>7, <1>8, SameMap DEF Inv
<1> QED
  BY <1>5, <1>9 DEF Inv

\* The background thread reads the maps and holds the server's latch.
LEMMA SaverKeeps ==
  ASSUME Inv, SaveLock \/ SaveFails \/ SaveOpen \/ SaveWrite
  PROVE  Inv'
<1>1. CASE Stop
  BY <1>1, StopLatches, StopMap DEF Inv
<1>2. CASE ~Stop
  <2>1. UNCHANGED <<catalogue, thread, history>>
    BY <1>2 DEF SaveLock, SaveFails, SaveOpen, SaveWrite
  <2>2. MapInv'
    BY <2>1 DEF catalogue, thread, history, Inv, MapInv, Pointed, ThreadsPointed, AtDb, Unfinished,
                Making, ReadersSeeWholeTables
  <2>3. CASE SaveLock \/ SaveUnlock
    BY <2>1, <2>2, <2>3, SaverLatches DEF Inv
  <2>4. CASE held' = held
    BY <2>1, <2>2, <2>4 DEF Inv, LatchInv, ThreadTypes, LatchesSound, Latched, thread
  <2> QED
    BY <1>2, <2>3, <2>4 DEF SaveFails, SaveOpen, SaveWrite
<1> QED
  BY <1>1, <1>2

LEMMA InvInductive == Inv /\ [Next]_vars => Inv'
<1> SUFFICES ASSUME Inv, [Next]_vars PROVE Inv'
  OBVIOUS
<1>1. ASSUME NEW t \in Threads, Receive(t) PROVE Inv'
  BY <1>1, ReceiveKeeps
<1>2. ASSUME NEW t \in Threads, Handler(t) PROVE Inv'
  BY <1>2, HandlerLatches, HandlerMap DEF Inv
<1>3. CASE SaveLock \/ SaveFails \/ SaveOpen \/ SaveWrite
  BY <1>3, SaverKeeps
<1>4. CASE Stop
  BY <1>4, StopLatches, StopMap DEF Inv
<1>5. CASE UNCHANGED vars
  BY <1>5 DEF vars, catalogue, thread, history, Inv, LatchInv, ThreadTypes, LatchesSound, Latched,
              MapInv, Pointed, ThreadsPointed, AtDb, Unfinished, Making, ReadersSeeWholeTables
<1> QED
  BY <1>1, <1>2, <1>3, <1>4, <1>5 DEF Next

(***************************************************************************)
(* Oids.  A second invariant, inductive together with the first.           *)
(***************************************************************************)

OidTypes ==
  /\ IsSeq(next_oid) /\ Len(next_oid) = Len(tabs)
  /\ \A d \in 1..Len(tabs) : next_oid[d] \in Nat
  /\ \A i \in 1..Len(tms) : "oid" \in DOMAIN tms[i] /\ tms[i].oid \in Nat

\* A table is made by one thread, which has not finished it.
OwnTables ==
  /\ whole \subseteq 1..Len(tms)
  /\ \A t \in Threads : pc[t] \in Makers =>
       /\ tp[t] \notin whole
       /\ \A u \in Threads \ {t} : pc[u] \in Makers => tp[u] # tp[t]

\* Between taking an oid and counting it on, next_oid is that oid.
OidTaken ==
  \A t \in Threads : pc[t] = "set_oid" /\ call[t].db \notin replaced =>
    tms[tp[t]].oid = next_oid[dp[t]]
Naming(db, i) == \E t \in Threads : pc[t] = "set_oid" /\ tp[t] = i /\ call[t].db = db
BelowNext(db, i) ==
  \/ tms[i].oid < next_oid[db_map_[db]]
  \/ tms[i].oid = next_oid[db_map_[db]] /\ Naming(db, i)
OidsBelow ==
  \A db \in DOMAIN db_map_ : db \notin replaced /\ db_map_[db] # 0 =>
    \A x \in DOMAIN tabs[db_map_[db]] :
      tabs[db_map_[db]][x] # 0 => BelowNext(db, tabs[db_map_[db]][x])
OidsDistinct ==
  \A db \in DOMAIN db_map_ : db \notin replaced /\ db_map_[db] # 0 =>
    \A x, y \in DOMAIN tabs[db_map_[db]] :
      x # y /\ tabs[db_map_[db]][x] # 0 /\ tabs[db_map_[db]][y] # 0 =>
        tms[tabs[db_map_[db]][x]].oid # tms[tabs[db_map_[db]][y]].oid

OidInv == OidTypes /\ OwnTables /\ OidTaken /\ OidsBelow /\ OidsDistinct

\* The tables keep their oids.
SameOids ==
  /\ IsSeq(tms') /\ Len(tms') = Len(tms)
  /\ \A i \in 1..Len(tms) : "oid" \in DOMAIN tms'[i] /\ tms'[i].oid = tms[i].oid

\* What the invariant says of a name in a database after a step with the same objects.
LEMMA StillListed ==
  ASSUME MapInv, SameObjects, UNCHANGED replaced,
         NEW db \in DOMAIN db_map_', db \notin replaced', db_map_'[db] # 0,
         NEW x \in DOMAIN tabs'[db_map_'[db]], tabs'[db_map_'[db]][x] # 0
  PROVE  /\ db \in DOMAIN db_map_ /\ db \notin replaced /\ db_map_'[db] = db_map_[db]
         /\ db_map_[db] # 0 /\ db_map_[db] \in 1..Len(tabs)
         /\ x \in DOMAIN tabs[db_map_[db]]
         /\ tabs'[db_map_'[db]][x] = tabs[db_map_[db]][x]
         /\ tabs[db_map_[db]][x] \in 1..Len(tms)
<1>1. db \in DOMAIN db_map_ /\ db \notin replaced /\ db_map_'[db] = db_map_[db]
  BY DEF SameObjects, SameDbs
<1>2. db_map_[db] # 0 /\ db_map_[db] \in 1..Len(tabs)
  BY <1>1 DEF MapInv, Pointed, IsSeq
<1>3. x \in DOMAIN tabs[db_map_[db]] /\ tabs'[db_map_'[db]][x] = tabs[db_map_[db]][x]
  BY <1>1, <1>2 DEF SameObjects, SameTabs
<1> QED
  BY <1>1, <1>2, <1>3 DEF MapInv, Pointed, IsSeq

\* A step that neither takes nor counts an oid.
LEMMA SameOidInv ==
  ASSUME MapInv, OidInv, NEW t \in Threads, SameObjects, SameOids, OnlyMoves(t),
         UNCHANGED <<next_oid, replaced>>,
         pc[t] # "set_oid", pc'[t] # "set_oid",
         pc'[t] \in Makers => pc[t] \in Makers /\ tp'[t] = tp[t] /\ whole' = whole,
         whole' = whole \/ (pc[t] \in Makers /\ whole' = whole \cup {tp[t]})
  PROVE  OidInv'
<1>1. OidTypes'
  BY DEF OidInv, OidTypes, SameObjects, SameTabs, SameOids
<1>2. OwnTables'
  <2>1. whole' \subseteq 1..Len(tms')
    BY DEF OidInv, OwnTables, SameOids, MapInv, ThreadsPointed
  <2>2. ASSUME NEW u \in Threads, pc'[u] \in Makers
        PROVE  tp'[u] \notin whole' /\ tp'[u] = tp[u] /\ pc[u] \in Makers
    BY <2>2 DEF OidInv, OwnTables, OnlyMoves
  <2> QED
    BY <2>1, <2>2 DEF OidInv, OwnTables
<1>3. OidTaken'
  <2> SUFFICES ASSUME NEW u \in Threads, pc'[u] = "set_oid", call'[u].db \notin replaced'
               PROVE  tms'[tp'[u]].oid = next_oid'[dp'[u]]
    BY DEF OidTaken
  <2>1. u # t /\ pc[u] = "set_oid" /\ call'[u] = call[u] /\ dp'[u] = dp[u] /\ tp'[u] = tp[u]
    BY DEF OnlyMoves
  <2>2. tp[u] \in 1..Len(tms)
    BY <2>1 DEF MapInv, ThreadsPointed, Makers
  <2> QED
    BY <2>1, <2>2 DEF OidInv, OidTaken, SameOids
<1>4. OidsBelow'
  <2> SUFFICES ASSUME NEW db \in DOMAIN db_map_', db \notin replaced', db_map_'[db] # 0,
                      NEW x \in DOMAIN tabs'[db_map_'[db]], tabs'[db_map_'[db]][x] # 0
               PROVE  BelowNext(db, tabs[db_map_[db]][x])'
    BY DEF OidsBelow
  <2> DEFINE i == tabs[db_map_[db]][x]
  <2>1. /\ db \in DOMAIN db_map_ /\ db \notin replaced /\ db_map_'[db] = db_map_[db] /\ db_map_[db] # 0
        /\ x \in DOMAIN tabs[db_map_[db]] /\ tabs'[db_map_'[db]][x] = i /\ i \in 1..Len(tms) /\ i # 0
    BY StillListed
  <2>2. BelowNext(db, i)
    BY <2>1 DEF OidInv, OidsBelow
  <2>3. tms'[i].oid = tms[i].oid
    BY <2>1 DEF SameOids
  <2>4. Naming(db, i) => \E u \in Threads : pc'[u] = "set_oid" /\ tp'[u] = i /\ call'[u].db = db
    BY DEF Naming, OnlyMoves
  <2> HIDE DEF i
  <2> QED
    BY <2>1, <2>2, <2>3, <2>4 DEF BelowNext, Naming
<1>5. OidsDistinct'
  <2> SUFFICES ASSUME NEW db \in DOMAIN db_map_', db \notin replaced', db_map_'[db] # 0,
                      NEW x \in DOMAIN tabs'[db_map_'[db]], NEW y \in DOMAIN tabs'[db_map_'[db]],
                      x # y, tabs'[db_map_'[db]][x] # 0, tabs'[db_map_'[db]][y] # 0
               PROVE  tms'[tabs'[db_map_'[db]][x]].oid # tms'[tabs'[db_map_'[db]][y]].oid
    BY DEF OidsDistinct
  <2>1. /\ db \in DOMAIN db_map_ /\ db \notin replaced /\ db_map_'[db] = db_map_[db] /\ db_map_[db] # 0
        /\ x \in DOMAIN tabs[db_map_[db]] /\ tabs'[db_map_'[db]][x] = tabs[db_map_[db]][x]
        /\ tabs[db_map_[db]][x] \in 1..Len(tms)
    BY StillListed
  <2>2. /\ y \in DOMAIN tabs[db_map_[db]] /\ tabs'[db_map_'[db]][y] = tabs[db_map_[db]][y]
        /\ tabs[db_map_[db]][y] \in 1..Len(tms)
    BY StillListed
  <2> QED
    BY <2>1, <2>2 DEF OidInv, OidsDistinct, SameOids
<1> QED
  BY <1>1, <1>2, <1>3, <1>4, <1>5 DEF OidInv

\* A step that counts on the oid its thread took.
LEMMA CountedOidInv ==
  ASSUME Inv, OidInv, NEW t \in Threads, pc[t] = "set_oid", SetNextOid(t),
         SameOids, OnlyMoves(t), UNCHANGED <<db_map_, tabs, replaced>>, pc'[t] # "set_oid",
         pc'[t] \in Makers => tp'[t] = tp[t] /\ whole' = whole,
         whole' = whole \/ whole' = whole \cup {tp[t]}
  PROVE  OidInv'
<1> DEFINE db == call[t].db
           p == db_map_[db]
           oid == tms[tp[t]].oid
<1>1. /\ AtDb(t) /\ p \in 1..Len(tabs) /\ tp[t] \in 1..Len(tms)
      /\ oid \in Nat /\ IsSeq(next_oid) /\ Len(next_oid) = Len(tabs)
  BY DEF Inv, MapInv, ThreadsPointed, InDb, Writers, Makers, AtDb, Pointed, IsSeq, OidInv, OidTypes
<1>2. /\ IsSeq(next_oid') /\ Len(next_oid') = Len(tabs) /\ next_oid'[p] = oid + 1
      /\ \A d \in 1..Len(tabs) : d # p => next_oid'[d] = next_oid[d]
  <2>1. next_oid' = [next_oid EXCEPT ![p] = oid + 1] /\ p \in 1..Len(next_oid)
    BY <1>1 DEF SetNextOid
  <2> HIDE DEF p, oid
  <2> QED
    BY <1>1, <2>1, NextOidStaysSeq
<1>3. OidTypes'
  <2>1. \A d \in 1..Len(tabs) : next_oid'[d] \in Nat
    <3> HIDE DEF p, oid
    <3> QED
      BY <1>1, <1>2 DEF OidInv, OidTypes
  <2> QED
    BY <1>2, <2>1 DEF OidInv, OidTypes, SameOids
<1>4. OwnTables'
  <2>1. whole' \subseteq 1..Len(tms')
    BY <1>1 DEF OidInv, OwnTables, SameOids
  <2>2. ASSUME NEW u \in Threads, pc'[u] \in Makers
        PROVE  tp'[u] \notin whole' /\ tp'[u] = tp[u] /\ pc[u] \in Makers
    BY <2>2 DEF OidInv, OwnTables, OnlyMoves, Makers
  <2> QED
    BY <2>1, <2>2 DEF OidInv, OwnTables
<1>5. OidTaken'
  <2> SUFFICES ASSUME NEW u \in Threads, pc'[u] = "set_oid", call'[u].db \notin replaced'
               PROVE  tms'[tp'[u]].oid = next_oid'[dp'[u]]
    BY DEF OidTaken
  <2>1. u # t /\ pc[u] = "set_oid" /\ call'[u] = call[u] /\ dp'[u] = dp[u] /\ tp'[u] = tp[u]
    BY DEF OnlyMoves
  <2>2. tp[u] \in 1..Len(tms) /\ AtDb(u)
    BY <2>1 DEF Inv, MapInv, ThreadsPointed, Makers, Writers, InDb
  <2>3. call[u].db # db
    BY <2>1, AloneInDb DEF Makers, Writers
  <2>4. dp[u] # p
    BY <1>1, <2>1, <2>2, <2>3 DEF AtDb, Inv, MapInv, Pointed
  <2> QED
    BY <1>2, <2>1, <2>2, <2>4 DEF OidInv, OidTaken, SameOids, AtDb
<1>6. OidsBelow'
  <2> SUFFICES ASSUME NEW c \in DOMAIN db_map_, c \notin replaced, db_map_[c] # 0,
                      NEW x \in DOMAIN tabs[db_map_[c]], tabs[db_map_[c]][x] # 0
               PROVE  BelowNext(c, tabs[db_map_[c]][x])'
    BY DEF OidsBelow
  <2> DEFINE i == tabs[db_map_[c]][x]
  <2>0. tabs'[db_map_'[c]][x] = i
    OBVIOUS
  <2>1. i \in 1..Len(tms) /\ db_map_[c] \in 1..Len(tabs) /\ next_oid[db_map_[c]] \in Nat
    BY DEF Inv, MapInv, Pointed, IsSeq, OidInv, OidTypes
  <2>2. BelowNext(c, i)
    BY DEF OidInv, OidsBelow
  <2>3. tms'[i].oid = tms[i].oid /\ tms[i].oid \in Nat
    BY <2>1 DEF SameOids, OidInv, OidTypes
  <2>4. CASE c = db
    <3>1. oid = next_oid[p]
      BY <1>1, <2>4 DEF OidInv, OidTaken, AtDb
    <3>2. tms[i].oid <= next_oid[p]
      BY <2>1, <2>2, <2>3, <2>4 DEF BelowNext
    <3> HIDE DEF i, oid
    <3> QED
      BY <1>1, <1>2, <2>0, <2>1, <2>3, <2>4, <3>1, <3>2 DEF BelowNext
  <2>5. CASE c # db
    <3>1. db_map_[c] # p
      BY <1>1, <2>5 DEF AtDb, Inv, MapInv, Pointed
    <3>2. Naming(c, i) => \E u \in Threads : pc'[u] = "set_oid" /\ tp'[u] = i /\ call'[u].db = c
      BY <2>5 DEF Naming, OnlyMoves
    <3> HIDE DEF i
    <3> QED
      BY <1>2, <2>0, <2>1, <2>2, <2>3, <3>1, <3>2 DEF BelowNext, Naming
  <2> QED
    BY <2>4, <2>5
<1>7. OidsDistinct'
  <2> SUFFICES ASSUME NEW c \in DOMAIN db_map_, c \notin replaced, db_map_[c] # 0,
                      NEW x \in DOMAIN tabs[db_map_[c]], NEW y \in DOMAIN tabs[db_map_[c]],
                      x # y, tabs[db_map_[c]][x] # 0, tabs[db_map_[c]][y] # 0
               PROVE  tms'[tabs[db_map_[c]][x]].oid # tms'[tabs[db_map_[c]][y]].oid
    BY DEF OidsDistinct
  <2>1. tabs[db_map_[c]][x] \in 1..Len(tms) /\ tabs[db_map_[c]][y] \in 1..Len(tms)
    BY DEF Inv, MapInv, Pointed, IsSeq
  <2> QED
    BY <2>1 DEF OidInv, OidsDistinct, SameOids
<1> QED
  BY <1>3, <1>4, <1>5, <1>6, <1>7 DEF OidInv

\* A step that takes an oid: no other thread of the database has one it did
\* not count on, so all oids given before are below it.
LEMMA NewTableOidInv ==
  ASSUME Inv, OidInv, NEW t \in Threads, NewTable(t)
  PROVE  OidInv'
<1> DEFINE db == call[t].db
           p == db_map_[db]
           i == Len(tms) + 1
           entries == With(tabs[p], call[t].tab, i)
<1>1. /\ pc[t] = "new_tab" /\ Goto(t, "set_oid") /\ tp' = [tp EXCEPT ![t] = i]
      /\ tabs' = [tabs EXCEPT ![p] = entries]
      /\ UNCHANGED <<db_map_, next_oid, call, dp, whole, replaced>>
  BY DEF NewTable
<1>2. AtDb(t) /\ p \in 1..Len(tabs) /\ next_oid[p] \in Nat
  BY <1>1 DEF Inv, MapInv, ThreadsPointed, InDb, Writers, AtDb, Pointed, IsSeq, OidInv, OidTypes
<1>3. PICK e : tms' = Append(tms, e) /\ "oid" \in DOMAIN e /\ e.oid = next_oid[p]
  BY DEF NewTable
<1>4. /\ IsSeq(tms') /\ Len(tms') = i /\ Len(tms) \in Nat /\ tms'[i] = e
      /\ \A j \in 1..Len(tms) : tms'[j] = tms[j]
  BY <1>3, AppendIsSeq DEF Inv, MapInv, Pointed
<1>5. /\ IsSeq(tabs') /\ Len(tabs') = Len(tabs) /\ tabs'[p] = entries
      /\ \A d \in 1..Len(tabs) : d # p => tabs'[d] = tabs[d]
  <2>1. IsSeq(tabs) /\ tabs' = [tabs EXCEPT ![p] = entries] /\ p \in 1..Len(tabs)
    BY <1>1, <1>2 DEF Inv, MapInv, Pointed
  <2> HIDE DEF entries, p
  <2> QED
    BY <2>1, TabsStaySeq
<1>6. \A x \in DOMAIN tabs'[p] :
        \/ x = call[t].tab /\ tabs'[p][x] = i
        \/ x # call[t].tab /\ x \in DOMAIN tabs[p] /\ tabs'[p][x] = tabs[p][x]
  <2>1. \A x \in DOMAIN entries :
          \/ x = call[t].tab /\ entries[x] = i
          \/ x # call[t].tab /\ x \in DOMAIN tabs[p] /\ entries[x] = tabs[p][x]
    BY DEF With
  <2> HIDE DEF entries
  <2> QED
    BY <1>5, <2>1
<1>7. /\ \A u \in Threads \ {t} : pc'[u] = pc[u] /\ tp'[u] = tp[u]
      /\ pc'[t] = "set_oid" /\ tp'[t] = i
  BY <1>1 DEF Inv, LatchInv, ThreadTypes, Goto
<1> HIDE DEF i, entries
<1>8. \A j \in 1..Len(tms) : j # i /\ j \in 1..i
  BY <1>4 DEF i
\* A table that was in the map before.
<1>9. ASSUME NEW c \in DOMAIN db_map_, c \notin replaced, db_map_[c] # 0,
             NEW x \in DOMAIN tabs[db_map_[c]], tabs[db_map_[c]][x] # 0
      PROVE  /\ tabs[db_map_[c]][x] \in 1..Len(tms)
             /\ tms'[tabs[db_map_[c]][x]] = tms[tabs[db_map_[c]][x]]
             /\ tms[tabs[db_map_[c]][x]].oid \in Nat
             /\ BelowNext(c, tabs[db_map_[c]][x])
             /\ c = db => tms[tabs[db_map_[c]][x]].oid < next_oid[p]
  <2>1. tabs[db_map_[c]][x] \in 1..Len(tms)
    BY <1>9 DEF Inv, MapInv, Pointed, IsSeq
  <2>2. BelowNext(c, tabs[db_map_[c]][x])
    BY <1>9 DEF OidInv, OidsBelow
  <2>3. ASSUME c = db PROVE ~Naming(c, tabs[db_map_[c]][x])
    BY <1>1, <1>9, <2>3, AloneInDb DEF Naming, Writers, Makers
  <2> QED
    BY <1>4, <2>1, <2>2, <2>3 DEF BelowNext, OidInv, OidTypes
<1>10. OidTypes'
  <2>1. ASSUME NEW j \in 1..Len(tms') PROVE "oid" \in DOMAIN tms'[j] /\ tms'[j].oid \in Nat
    <3>1. j = i \/ j \in 1..Len(tms)
      BY <1>4 DEF i
    <3> QED
      BY <1>2, <1>3, <1>4, <3>1 DEF OidInv, OidTypes
  <2> QED
    BY <1>1, <1>5, <2>1 DEF OidInv, OidTypes
<1>11. OwnTables'
  <2>1. whole' \subseteq 1..Len(tms')
    BY <1>1, <1>4, <1>8 DEF OidInv, OwnTables
  <2>2. i \notin whole
    BY <1>8 DEF OidInv, OwnTables
  <2>3. \A u \in Threads : u # t /\ pc[u] \in Makers => tp[u] # i
    BY <1>8 DEF Inv, MapInv, ThreadsPointed
  <2> QED
    BY <1>1, <1>7, <2>1, <2>2, <2>3 DEF OidInv, OwnTables
<1>12. OidTaken'
  <2> SUFFICES ASSUME NEW u \in Threads, pc'[u] = "set_oid", call'[u].db \notin replaced'
               PROVE  tms'[tp'[u]].oid = next_oid'[dp'[u]]
    BY DEF OidTaken
  <2>1. CASE u = t
    BY <1>1, <1>2, <1>3, <1>4, <1>7, <2>1 DEF AtDb
  <2>2. CASE u # t
    <3>1. tp[u] \in 1..Len(tms)
      BY <1>7, <2>2 DEF Inv, MapInv, ThreadsPointed, Makers
    <3> QED
      BY <1>1, <1>4, <1>7, <2>2, <3>1 DEF OidInv, OidTaken
  <2> QED
    BY <2>1, <2>2
<1>13. OidsBelow'
  <2> SUFFICES ASSUME NEW c \in DOMAIN db_map_, c \notin replaced, db_map_[c] # 0,
                      NEW x \in DOMAIN tabs'[db_map_[c]], tabs'[db_map_[c]][x] # 0
               PROVE  BelowNext(c, tabs[db_map_[c]][x])'
    BY <1>1 DEF OidsBelow
  <2>0. db_map_[c] \in 1..Len(tabs) /\ db_map_' = db_map_
    BY <1>1 DEF Inv, MapInv, Pointed, IsSeq
  <2>1. CASE db_map_[c] = p /\ x = call[t].tab
    <3>1. c = db
      BY <1>2, <2>1 DEF Inv, MapInv, Pointed, AtDb
    <3>2. tabs'[p][x] = i
      BY <1>6, <2>1
    <3>3. pc'[t] = "set_oid" /\ tp'[t] = i /\ call'[t].db = db
      BY <1>1, <1>7
    <3> QED
      BY <1>1, <1>3, <1>4, <2>0, <2>1, <3>1, <3>2, <3>3 DEF BelowNext, Naming
  <2>2. CASE ~(db_map_[c] = p /\ x = call[t].tab)
    <3>1. x \in DOMAIN tabs[db_map_[c]] /\ tabs'[db_map_[c]][x] = tabs[db_map_[c]][x]
      BY <1>5, <1>6, <2>0, <2>2
    <3> DEFINE j == tabs[db_map_[c]][x]
    <3>2. tms'[j] = tms[j] /\ BelowNext(c, j)
      BY <1>9, <3>1
    <3>3. Naming(c, j) => \E u \in Threads : pc'[u] = "set_oid" /\ tp'[u] = j /\ call'[u].db = c
      BY <1>1, <1>7 DEF Naming
    <3>4. tabs'[db_map_'[c]][x] = j
      BY <2>0, <3>1
    <3> HIDE DEF j
    <3> QED
      BY <1>1, <2>0, <3>2, <3>3, <3>4 DEF BelowNext, Naming
  <2> QED
    BY <2>1, <2>2
<1>14. OidsDistinct'
  <2> SUFFICES ASSUME NEW c \in DOMAIN db_map_, c \notin replaced, db_map_[c] # 0,
                      NEW x \in DOMAIN tabs'[db_map_[c]], NEW y \in DOMAIN tabs'[db_map_[c]],
                      x # y, tabs'[db_map_[c]][x] # 0, tabs'[db_map_[c]][y] # 0
               PROVE  tms'[tabs'[db_map_[c]][x]].oid # tms'[tabs'[db_map_[c]][y]].oid
    BY <1>1 DEF OidsDistinct
  <2>0. db_map_[c] \in 1..Len(tabs)
    BY DEF Inv, MapInv, Pointed, IsSeq
  <2>1. ASSUME NEW z \in {x, y}
        PROVE  \/ c = db /\ z = call[t].tab /\ tms'[tabs'[db_map_[c]][z]].oid = next_oid[p]
               \/ /\ z \in DOMAIN tabs[db_map_[c]] /\ tabs'[db_map_[c]][z] = tabs[db_map_[c]][z]
                  /\ tms'[tabs'[db_map_[c]][z]].oid = tms[tabs[db_map_[c]][z]].oid
                  /\ tms[tabs[db_map_[c]][z]].oid \in Nat
                  /\ c = db => z # call[t].tab /\ tms[tabs[db_map_[c]][z]].oid < next_oid[p]
    <3>1. CASE db_map_[c] = p /\ z = call[t].tab
      BY <1>2, <1>3, <1>4, <1>6, <3>1 DEF Inv, MapInv, Pointed, AtDb
    <3>2. CASE ~(db_map_[c] = p /\ z = call[t].tab)
      <4>1. z \in DOMAIN tabs[db_map_[c]] /\ tabs'[db_map_[c]][z] = tabs[db_map_[c]][z]
        BY <1>5, <1>6, <2>0, <3>2
      <4>2. tabs[db_map_[c]][z] # 0
        BY <4>1
      <4> QED
        BY <1>9, <3>2, <4>1, <4>2
    <3> QED
      BY <3>1, <3>2
  <2>2. CASE c = db /\ (x = call[t].tab \/ y = call[t].tab)
    <3>1. CASE x = call[t].tab
      <4>1. y # call[t].tab
        BY <3>1
      <4>2. tms'[tabs'[db_map_[c]][x]].oid = next_oid[p]
        BY <2>1, <2>2, <3>1
      <4>3. tms'[tabs'[db_map_[c]][y]].oid < next_oid[p] /\ tms'[tabs'[db_map_[c]][y]].oid \in Nat
        BY <2>1, <2>2, <4>1
      <4> QED
        BY <1>2, <4>2, <4>3
    <3>2. CASE y = call[t].tab
      <4>1. x # call[t].tab
        BY <3>2
      <4>2. tms'[tabs'[db_map_[c]][y]].oid = next_oid[p]
        BY <2>1, <2>2, <3>2
      <4>3. tms'[tabs'[db_map_[c]][x]].oid < next_oid[p] /\ tms'[tabs'[db_map_[c]][x]].oid \in Nat
        BY <2>1, <2>2, <4>1
      <4> QED
        BY <1>2, <4>2, <4>3
    <3> QED
      BY <2>2, <3>1, <3>2
  <2>3. CASE ~(c = db /\ (x = call[t].tab \/ y = call[t].tab))
    <3>1. /\ x \in DOMAIN tabs[db_map_[c]] /\ tabs[db_map_[c]][x] # 0
          /\ y \in DOMAIN tabs[db_map_[c]] /\ tabs[db_map_[c]][y] # 0
          /\ tms'[tabs'[db_map_[c]][x]].oid = tms[tabs[db_map_[c]][x]].oid
          /\ tms'[tabs'[db_map_[c]][y]].oid = tms[tabs[db_map_[c]][y]].oid
      BY <2>1, <2>3
    <3> QED
      BY <3>1 DEF OidInv, OidsDistinct
  <2> QED
    BY <2>2, <2>3
<1> QED
  BY <1>10, <1>11, <1>12, <1>13, <1>14 DEF OidInv

\* A database begins without tables, in a place no thread points to.
LEMMA InsertDbOidInv ==
  ASSUME Inv, OidInv, NEW t \in Threads, InsertDb(t)
  PROVE  OidInv'
<1> DEFINE db == call[t].db
           n == Len(tabs) + 1
<1>1. /\ pc[t] = "insert_db" /\ Return(t)
      /\ tabs' = Append(tabs, <<>>) /\ next_oid' = Append(next_oid, 0)
      /\ db_map_' = With(db_map_, db, n)
      /\ replaced' = IF db \in DOMAIN db_map_ /\ db_map_[db] # 0
                     THEN replaced \cup {db} ELSE replaced
      /\ UNCHANGED <<tms, whole>>
  BY DEF InsertDb
<1>2. /\ IsSeq(tabs') /\ Len(tabs') = n /\ Len(tabs) \in Nat /\ tabs'[n] = <<>>
      /\ \A d \in 1..Len(tabs) : tabs'[d] = tabs[d]
  BY <1>1, AppendIsSeq DEF Inv, MapInv, Pointed
<1>3. /\ IsSeq(next_oid') /\ Len(next_oid') = n /\ next_oid'[n] = 0
      /\ \A d \in 1..Len(tabs) : next_oid'[d] = next_oid[d]
  BY <1>1, AppendIsSeq DEF OidInv, OidTypes
<1>4. OnlyMoves(t) /\ pc'[t] = "idle"
  BY <1>1, ReturnMoves DEF Inv
<1>5. /\ db_map_'[db] = n
      /\ \A c \in DOMAIN db_map_' : c # db => c \in DOMAIN db_map_ /\ db_map_'[c] = db_map_[c]
  BY <1>1 DEF With
<1> HIDE DEF n
<1>6. OidTypes'
  <2>1. \A d \in 1..Len(tabs') : d = n \/ d \in 1..Len(tabs)
    BY <1>2 DEF n
  <2> QED
    BY <1>1, <1>2, <1>3, <2>1 DEF OidInv, OidTypes
<1>7. OwnTables'
  BY <1>1, <1>4 DEF OidInv, OwnTables, OnlyMoves, Makers
<1>8. OidTaken'
  <2> SUFFICES ASSUME NEW u \in Threads, pc'[u] = "set_oid", call'[u].db \notin replaced'
               PROVE  tms'[tp'[u]].oid = next_oid'[dp'[u]]
    BY DEF OidTaken
  <2>1. /\ pc[u] = "set_oid" /\ call'[u] = call[u] /\ dp'[u] = dp[u] /\ tp'[u] = tp[u]
        /\ call[u].db \notin replaced
    BY <1>1, <1>4 DEF OnlyMoves
  <2>2. dp[u] \in 1..Len(tabs)
    BY <2>1 DEF Inv, MapInv, ThreadsPointed, AtDb, InDb, Writers, Makers
  <2> QED
    BY <1>1, <1>3, <2>1, <2>2 DEF OidInv, OidTaken
\* A database that has a table was there before.
<1>9. ASSUME NEW c \in DOMAIN db_map_', c \notin replaced', db_map_'[c] # 0,
             NEW x \in DOMAIN tabs'[db_map_'[c]]
      PROVE  /\ c \in DOMAIN db_map_ /\ c \notin replaced /\ db_map_[c] # 0
             /\ db_map_'[c] = db_map_[c] /\ db_map_[c] \in 1..Len(tabs)
             /\ tabs'[db_map_'[c]] = tabs[db_map_[c]]
  <2>1. c # db
    BY <1>2, <1>5, <1>9
  <2>2. c \in DOMAIN db_map_ /\ c \notin replaced /\ db_map_'[c] = db_map_[c]
    BY <1>1, <1>5, <1>9, <2>1
  <2>3. db_map_[c] \in 1..Len(tabs)
    BY <1>2, <1>9, <2>2 DEF Inv, MapInv, Pointed
  <2> QED
    BY <1>2, <1>9, <2>2, <2>3
<1>10. OidsBelow'
  <2> SUFFICES ASSUME NEW c \in DOMAIN db_map_', c \notin replaced', db_map_'[c] # 0,
                      NEW x \in DOMAIN tabs'[db_map_'[c]], tabs'[db_map_'[c]][x] # 0
               PROVE  BelowNext(c, tabs[db_map_[c]][x])'
    BY DEF OidsBelow
  <2> DEFINE i == tabs[db_map_[c]][x]
  <2>1. /\ c \in DOMAIN db_map_ /\ c \notin replaced /\ db_map_[c] # 0
        /\ db_map_'[c] = db_map_[c] /\ db_map_[c] \in 1..Len(tabs)
        /\ x \in DOMAIN tabs[db_map_[c]] /\ tabs'[db_map_'[c]][x] = i /\ i # 0
    BY <1>9
  <2>2. BelowNext(c, i)
    BY <2>1 DEF OidInv, OidsBelow
  <2>3. Naming(c, i) => \E u \in Threads : pc'[u] = "set_oid" /\ tp'[u] = i /\ call'[u].db = c
    BY <1>1, <1>4 DEF Naming, OnlyMoves
  <2> HIDE DEF i
  <2> QED
    BY <1>1, <1>3, <2>1, <2>2, <2>3 DEF BelowNext, Naming
<1>11. OidsDistinct'
  <2> SUFFICES ASSUME NEW c \in DOMAIN db_map_', c \notin replaced', db_map_'[c] # 0,
                      NEW x \in DOMAIN tabs'[db_map_'[c]], NEW y \in DOMAIN tabs'[db_map_'[c]],
                      x # y, tabs'[db_map_'[c]][x] # 0, tabs'[db_map_'[c]][y] # 0
               PROVE  tms'[tabs'[db_map_'[c]][x]].oid # tms'[tabs'[db_map_'[c]][y]].oid
    BY DEF OidsDistinct
  <2>1. /\ c \in DOMAIN db_map_ /\ c \notin replaced /\ db_map_[c] # 0
        /\ tabs'[db_map_'[c]] = tabs[db_map_[c]]
    BY <1>9
  <2>2. tms[tabs[db_map_[c]][x]].oid # tms[tabs[db_map_[c]][y]].oid
    BY <2>1 DEF OidInv, OidsDistinct
  <2> QED
    BY <1>1, <2>1, <2>2
<1> QED
  BY <1>6, <1>7, <1>8, <1>10, <1>11 DEF OidInv

LEMMA FreshOidInv ==
  ASSUME Init PROVE OidInv
<1> USE DEF Init, Fresh
<1>1. OidTypes
  BY EmptyIsSeq DEF OidTypes
<1>2. OwnTables /\ OidTaken
  BY DEF OwnTables, OidTaken, Makers
<1>3. OidsBelow /\ OidsDistinct
  BY DEF OidsBelow, OidsDistinct
<1> QED
  BY <1>1, <1>2, <1>3 DEF OidInv

LEMMA StopOidInv ==
  ASSUME Stop PROVE OidInv'
<1> USE DEF Stop, Fresh
<1>1. OidTypes'
  BY EmptyIsSeq DEF OidTypes
<1>2. OwnTables' /\ OidTaken'
  BY DEF OwnTables, OidTaken, Makers
<1>3. OidsBelow' /\ OidsDistinct'
  BY DEF OidsBelow, OidsDistinct
<1> QED
  BY <1>1, <1>2, <1>3 DEF OidInv

\* Steps that leave the tables alone: a call that ends, and one that goes on.
LEMMA ReturnOidInv ==
  ASSUME Inv, OidInv, NEW t \in Threads, Return(t), SameObjects, SameOids,
         UNCHANGED <<next_oid, replaced>>, pc[t] # "set_oid",
         whole' = whole \/ (pc[t] \in Makers /\ whole' = whole \cup {tp[t]})
  PROVE  OidInv'
BY ReturnMoves, SameOidInv DEF Inv, Makers

LEMMA GotoOidInv ==
  ASSUME Inv, OidInv, NEW t \in Threads, NEW p \in Pcs, Goto(t, p), SameObjects, SameOids,
         UNCHANGED <<next_oid, replaced, whole>>, pc[t] # "set_oid", p # "set_oid",
         OnlyMoves(t), p \in Makers => pc[t] \in Makers /\ tp' = tp
  PROVE  OidInv'
<1>1. pc'[t] = p
  BY DEF Inv, LatchInv, ThreadTypes, Goto
<1> QED
  BY <1>1, SameOidInv DEF Inv

LEMMA UnchangedOids ==
  ASSUME MapInv, OidInv, tms' = tms PROVE SameOids
BY DEF SameOids, MapInv, Pointed, OidInv, OidTypes

LEMMA ChangedKeepsOid ==
  ASSUME MapInv, OidInv, NEW i \in 1..Len(tms), NEW e, tms' = [tms EXCEPT ![i] = e],
         "oid" \in DOMAIN e, e.oid = tms[i].oid
  PROVE  SameOids
<1>1. /\ IsSeq(tms') /\ Len(tms') = Len(tms) /\ tms'[i] = e
      /\ \A j \in 1..Len(tms) : j # i => tms'[j] = tms[j]
  BY TmsStaySeq DEF MapInv, Pointed
<1> QED
  BY <1>1 DEF SameOids, OidInv, OidTypes

LEMMA HandlerOidInv ==
  ASSUME Inv, OidInv, NEW t \in Threads, Handler(t)
  PROVE  OidInv'
\* What most handlers leave alone.
<1> DEFINE Alone == UNCHANGED <<db_map_, tabs, next_oid, tms, whole, replaced>>
<1>a. ASSUME Alone PROVE SameObjects /\ SameOids
  BY <1>a, UnchangedObjects, UnchangedOids DEF Inv, MapInv, Pointed
<1>r. ASSUME Alone, Return(t), pc[t] # "set_oid" PROVE OidInv'
  BY <1>a, <1>r, ReturnOidInv
<1>g. ASSUME Alone, NEW p \in Pcs, Goto(t, p), p # "set_oid", pc[t] # "set_oid",
             call' = call, tp' = tp, p \in Makers => pc[t] \in Makers,
             \A u \in Threads \ {t} : dp'[u] = dp[u]
      PROVE  OidInv'
  <2>1. OnlyMoves(t)
    BY <1>g DEF Inv, LatchInv, ThreadTypes, Goto, OnlyMoves
  <2> QED
    BY <1>a, <1>g, <2>1, GotoOidInv
<1> HIDE DEF Alone
<1>1. CASE LookupDb(t)
  <2>1. /\ pc[t] = "lookup" /\ UNCHANGED <<next_oid, tms, whole, replaced>>
        /\ \/ Return(t)
           \/ (\E p : dp' = [dp EXCEPT ![t] = p]) /\ Goto(t, "latch_db") /\ UNCHANGED <<call, tp>>
    BY <1>1 DEF LookupDb, history
  <2>2. SameObjects /\ SameOids
    BY <1>1, <2>1, LookupDbObjects, UnchangedOids DEF Inv
  <2>3. CASE Return(t)
    BY <2>1, <2>2, <2>3, ReturnOidInv
  <2>4. CASE (\E p : dp' = [dp EXCEPT ![t] = p]) /\ Goto(t, "latch_db") /\ UNCHANGED <<call, tp>>
    <3>1. OnlyMoves(t)
      BY <2>4 DEF OnlyMoves, Inv, LatchInv, ThreadTypes, Goto
    <3> QED
      BY <2>1, <2>2, <2>4, <3>1, GotoOidInv DEF Pcs, Makers
  <2> QED
    BY <2>1, <2>3, <2>4
<1>2. CASE LookupLatchDb(t)
  BY <1>2, <1>g DEF Alone, LookupLatchDb, catalogue, history, Pcs, Makers
<1>3. CASE FindTable(t)
  <2>1. /\ pc[t] = "find_tab" /\ UNCHANGED <<next_oid, tms, whole, replaced>>
        /\ \/ Return(t)
           \/ (\E p : tp' = [tp EXCEPT ![t] = p]) /\ Goto(t, "latch_tab") /\ UNCHANGED <<call, dp>>
    BY <1>3 DEF FindTable, history
  <2>2. SameObjects /\ SameOids
    BY <1>3, <2>1, FindTableObjects, UnchangedOids DEF Inv
  <2>3. CASE Return(t)
    BY <2>1, <2>2, <2>3, ReturnOidInv
  <2>4. CASE (\E p : tp' = [tp EXCEPT ![t] = p]) /\ Goto(t, "latch_tab") /\ UNCHANGED <<call, dp>>
    <3>1. OnlyMoves(t)
      BY <2>4 DEF OnlyMoves, Inv, LatchInv, ThreadTypes, Goto
    <3> QED
      BY <2>1, <2>2, <2>4, <3>1, GotoOidInv DEF Pcs, Makers
  <2> QED
    BY <2>1, <2>3, <2>4
<1>4. CASE LatchTable(t)
  BY <1>4, <1>g DEF Alone, LatchTable, catalogue, history, Pcs, Makers
<1>5. CASE Answer(t)
  BY <1>5, <1>r DEF Alone, Answer, catalogue, history
<1>6. CASE CreateEnter(t)
  <2>1. CASE Stop
    BY <2>1, StopOidInv
  <2>2. CASE Return(t) /\ ~Stop
    BY <1>6, <2>2, <1>r DEF Alone, CreateEnter, catalogue, history
  <2>3. CASE ~Return(t) /\ ~Stop
    <3>1. /\ pc[t] = "create" /\ dp' = [dp EXCEPT ![t] = db_map_[call[t].db]] /\ Goto(t, "excl_db")
          /\ UNCHANGED <<call, tp>> /\ Alone
      BY <1>6, <2>3 DEF Alone, CreateEnter, catalogue, history
    <3>2. \A u \in Threads \ {t} : dp'[u] = dp[u]
      BY <3>1 DEF Inv, LatchInv, ThreadTypes
    <3> QED
      BY <3>1, <3>2, <1>g DEF Pcs, Makers
  <2> QED
    BY <2>1, <2>2, <2>3
<1>7. CASE CreateLatchDb(t)
  BY <1>7, <1>g DEF Alone, CreateLatchDb, catalogue, history, Pcs, Makers
<1>8. CASE CheckTable(t)
  BY <1>8, <1>r, <1>g DEF Alone, CheckTable, catalogue, history, Pcs, Makers
<1>9. CASE NewTable(t)
  BY <1>9, NewTableOidInv
<1>10. CASE FinishPlain(t)
  <2>1. /\ pc[t] = "set_oid" /\ SetNextOid(t) /\ Return(t) /\ whole' = whole \cup {tp[t]}
        /\ UNCHANGED <<db_map_, tabs, tms, replaced>>
    BY <1>10 DEF FinishPlain
  <2>2. SameOids /\ OnlyMoves(t) /\ pc'[t] = "idle"
    BY <2>1, UnchangedOids, ReturnMoves DEF Inv
  <2> QED
    BY <2>1, <2>2, CountedOidInv DEF Makers
<1>11. CASE DescribeTable(t)
  <2>1. CASE Stop
    BY <2>1, StopOidInv
  <2>2. CASE ~Stop
    <3> DEFINE old == tms[tp[t]]
    <3>0. pc[t] = "set_oid" /\ tp[t] \in 1..Len(tms) /\ "oid" \in DOMAIN old
      BY <1>11 DEF DescribeTable, Inv, MapInv, ThreadsPointed, Makers, OidInv, OidTypes
    <3>1. /\ SetNextOid(t) /\ Goto(t, "place") /\ UNCHANGED <<call, dp, tp>>
          /\ UNCHANGED <<db_map_, tabs, whole, replaced>>
      BY <1>11, <2>2 DEF DescribeTable, history
    <3>2. \E e : tms' = [tms EXCEPT ![tp[t]] = e] /\ "oid" \in DOMAIN e /\ e.oid = old.oid
      BY <1>11, <2>2, <3>0 DEF DescribeTable
    <3>3. SameOids
      BY <3>0, <3>2, ChangedKeepsOid DEF Inv
    <3>4. OnlyMoves(t) /\ pc'[t] = "place" /\ tp'[t] = tp[t]
      BY <3>1 DEF OnlyMoves, Inv, LatchInv, ThreadTypes, Goto
    <3> QED
      BY <3>0, <3>1, <3>3, <3>4, CountedOidInv
  <2> QED
    BY <2>1, <2>2
<1>12. CASE PlaceReplica(t)
  <2>1. CASE Stop
    BY <2>1, StopOidInv
  <2>2. CASE ~Stop
    BY <1>12, <2>2, <1>g DEF Alone, PlaceReplica, catalogue, Pcs, Makers
  <2> QED
    BY <2>1, <2>2
<1>13. CASE CountReplica(t)
  <2> DEFINE old == tms[tp[t]]
             new == [old EXCEPT !.table_location =
                       Append(old.table_location, [p_id |-> work[t].i - 1, replicas |-> work[t].replicas])]
  <2>1. /\ pc[t] = "count" /\ UNCHANGED <<db_map_, tabs, next_oid, replaced>>
        /\ tp[t] \in 1..Len(tms) /\ "oid" \in DOMAIN old
    BY <1>13 DEF CountReplica, Inv, MapInv, ThreadsPointed, Makers, OidInv, OidTypes
  <2>2. tms' = tms \/ tms' = [tms EXCEPT ![tp[t]] = new]
    BY <1>13 DEF CountReplica
  <2>3. SameOids
    <3>1. "oid" \in DOMAIN new /\ new.oid = old.oid
      BY <2>1
    <3>2. CASE tms' = tms
      BY <3>2, UnchangedOids DEF Inv
    <3>3. CASE tms' = [tms EXCEPT ![tp[t]] = new]
      <4> HIDE DEF new
      <4> QED
        BY <2>1, <3>1, <3>3, ChangedKeepsOid DEF Inv
    <3> QED
      BY <2>2, <3>2, <3>3
  <2>4. SameObjects
    BY <2>1, <2>3, UnchangedObjects DEF SameOids, Inv
  <2>5. CASE Return(t) /\ whole' = whole \cup {tp[t]}
    BY <2>1, <2>3, <2>4, <2>5, ReturnOidInv DEF Makers
  <2>6. CASE Goto(t, "place") /\ UNCHANGED <<held, call, dp, tp, whole>>
    <3>1. OnlyMoves(t)
      BY <2>6 DEF OnlyMoves, Inv, LatchInv, ThreadTypes, Goto
    <3> QED
      BY <2>1, <2>3, <2>4, <2>6, <3>1, GotoOidInv DEF Pcs, Makers
  <2> QED
    BY <1>13, <2>5, <2>6 DEF CountReplica
<1>14. CASE CheckDb(t)
  BY <1>14, <1>r, <1>g DEF Alone, CheckDb, catalogue, history, Pcs, Makers
<1>15. CASE InsertDb(t)
  BY <1>15, InsertDbOidInv
<1>16. CASE CheckNode(t)
  BY <1>16, <1>r, <1>g DEF Alone, CheckNode, catalogue, history, Pcs, Makers
<1>17. CASE InsertNode(t)
  BY <1>17, <1>r DEF Alone, InsertNode, catalogue, history
<1> QED
  BY <1>1, <1>2, <1>3, <1>4, <1>5, <1>6, <1>7, <1>8, <1>9, <1>10, <1>11, <1>12, <1>13,
     <1>14, <1>15, <1>16, <1>17 DEF Handler

LEMMA OidInvInductive == Inv /\ OidInv /\ [Next]_vars => OidInv'
<1> SUFFICES ASSUME Inv, OidInv, [Next]_vars PROVE OidInv'
  OBVIOUS
<1>1. ASSUME NEW t \in Threads, Receive(t) PROVE OidInv'
  <2>1. /\ pc[t] = "idle" /\ UNCHANGED <<db_map_, tabs, next_oid, tms, dp, tp, whole, replaced>>
        /\ \E c : call' = [call EXCEPT ![t] = c]
    BY <1>1 DEF Receive, catalogue, history
  <2>2. \E p \in {"lookup", "create", "check_db", "check_node"} : Goto(t, p)
    BY <1>1 DEF Receive, LookupCalls, CreateCalls, Lookups, Creates, Entry
  <2>3. OnlyMoves(t) /\ SameObjects /\ SameOids
    BY <2>1, <2>2, UnchangedObjects, UnchangedOids
       DEF OnlyMoves, Inv, MapInv, Pointed, LatchInv, ThreadTypes, Goto
  <2> QED
    BY <2>1, <2>2, <2>3, GotoOidInv DEF Pcs, Makers
<1>2. ASSUME NEW t \in Threads, Handler(t) PROVE OidInv'
  BY <1>2, HandlerOidInv
<1>3. CASE Stop
  BY <1>3, StopOidInv
<1>4. CASE UNCHANGED <<catalogue, thread, history>>
  BY <1>4 DEF catalogue, thread, history, OidInv, OidTypes, OwnTables, OidTaken, OidsBelow,
              OidsDistinct, BelowNext, Naming
<1> QED
  BY <1>1, <1>2, <1>3, <1>4 DEF Next, vars, SaveLock, SaveFails, SaveOpen, SaveWrite

(***************************************************************************)
(* Requests, nodes and placement.  A third invariant, inductive together   *)
(* with the first two.                                                     *)
(***************************************************************************)

Lookers  == {"lookup", "latch_db", "find_tab", "latch_tab", "answer"}
Creators == {"create", "excl_db"} \cup Writers
Placers  == {"place", "count"}

\* A thread has a request of the kind its handler serves.
CallOK(t) ==
  /\ pc[t] \in Lookers => call[t] \in LookupCalls
  /\ pc[t] \in Creators => call[t] \in CreateCalls
  /\ pc[t] \in Placers => call[t].op = "CreatePartitionTable" /\ call[t].arg.range # <<>>
  /\ pc[t] \in {"check_db", "insert_db"} => call[t] \in [op : {"CreateDataBase"}, db : Dbs]
  /\ pc[t] \in {"check_node", "insert_node"} => call[t] \in [op : {"NodeRegister"}, arg : Servers]
CallsOK == \A t \in Threads : CallOK(t)

\* The nodes that names are mapped to are there, with the address of the name.
NodeOK(n) ==
  n \in [ip_addr : {Ip[s] : s \in Servers}, activate : BOOLEAN,
         leader_par_cnt : Nat, follower_par_cnt : Nat]
NodesOK ==
  /\ IsSeq(nodes) /\ \A n \in 1..Len(nodes) : NodeOK(nodes[n])
  /\ \A s \in DOMAIN ip_node_map_ :
       /\ s \in Servers /\ ip_node_map_[s] \in 1..Len(nodes)
       /\ nodes[ip_node_map_[s]].ip_addr = Ip[s]

\* Replicas: a leader and then followers, and all at different addresses.
Ranked(r) ==
  /\ IsSeq(r)
  /\ \A j \in 1..Len(r) : /\ r[j].role = IF j = 1 THEN Leader ELSE Follower
                          /\ r[j].ip_addr \in {Ip[s] : s \in Servers}
Spread(r) == \A j, k \in 1..Len(r) : j # k => r[j].ip_addr # r[k].ip_addr

\* The partitions of a table come from its request, and have locations in
\* their order.
Described(tab, type) ==
  \E req \in PartitionRequests :
    /\ req.range # <<>> /\ type = req.partition_type
    /\ tab.partition_type = TypeStored(req)
    /\ tab.partitions = [i \in 1..req.partition_cnt |->
         [p_id |-> i - 1, min_range |-> req.range[i].min_range,
          max_range |-> req.range[i].max_range]]
Located(tab, spread) ==
  /\ IsSeq(tab.table_location)
  /\ \A l \in 1..Len(tab.table_location) :
       LET loc == tab.table_location[l]
       IN  /\ loc.p_id = l - 1
           /\ loc.replicas # <<>> /\ Ranked(loc.replicas)
           /\ spread => Spread(loc.replicas)
Fields == {"oid", "name", "columns", "partition_type", "partition_key_name", "partition_key_type",
           "partition_cnt", "partitions", "duplicate_type", "table_location"}
TableOK(i) ==
  /\ DOMAIN tms[i] = Fields
  /\ tms[i].partitions = <<>> \/ Described(tms[i], asked[i])
  /\ Located(tms[i], i \notin guessed)
  /\ i \in whole => Len(tms[i].table_location) = Len(tms[i].partitions)
TablesOK ==
  /\ IsSeq(asked) /\ Len(asked) = Len(tms)
  /\ \A i \in 1..Len(tms) : TableOK(i)

\* A thread that places replicas is at the partition behind those placed.
WorkOK(t) ==
  /\ pc[t] \notin Placers => work[t] = NoWork
  /\ pc[t] = "set_oid" =>
       /\ tms[tp[t]].partitions = <<>> /\ tms[tp[t]].table_location = <<>>
       /\ call[t].op = "CreatePartitionTable" => asked[tp[t]] = call[t].arg.partition_type
  /\ pc[t] \in Placers =>
       /\ DOMAIN work[t] = {"i", "replicas", "node", "seen"}
       /\ work[t].i = Len(tms[tp[t]].table_location) + 1
       /\ work[t].i <= Len(tms[tp[t]].partitions)
       /\ Ranked(work[t].replicas)
       /\ tp[t] \notin guessed => Spread(work[t].replicas)
  /\ pc[t] = "count" => /\ work[t].replicas # <<>>
                        /\ work[t].node \in 1..Len(nodes) /\ work[t].seen \in Nat
WorksOK == DOMAIN work = Threads /\ \A t \in Threads : WorkOK(t)

PlaceInv == CallsOK /\ NodesOK /\ TablesOK /\ WorksOK

\* The other threads keep their request, their pointers and their work.
Others(t) ==
  /\ OnlyMoves(t) /\ DOMAIN work' = Threads
  /\ \A u \in Threads \ {t} : work'[u] = work[u]

LEMMA ReturnOthers ==
  ASSUME Inv, PlaceInv, NEW t \in Threads, Return(t)
  PROVE  /\ Others(t) /\ pc'[t] = "idle" /\ work'[t] = NoWork
         /\ CallsOK' /\ WorkOK(t)'
<1>1. Others(t) /\ pc'[t] = "idle" /\ work'[t] = NoWork
  BY ReturnMoves DEF Inv, PlaceInv, WorksOK, Others, Return
<1>2. ASSUME NEW u \in Threads PROVE CallOK(u)'
  <2>1. CASE u = t
    BY <1>1, <2>1 DEF CallOK, Lookers, Creators, Placers, Writers, Makers
  <2>2. CASE u # t
    BY <1>1, <2>2 DEF CallOK, PlaceInv, CallsOK, Others, OnlyMoves, LookupCalls, CreateCalls
  <2> QED
    BY <2>1, <2>2
<1>3. WorkOK(t)'
  BY <1>1 DEF WorkOK, Placers
<1> QED
  BY <1>1, <1>2, <1>3 DEF CallsOK

\* A step to a place that serves the same kind of request.
SameKind(p, q) ==
  /\ q \in Lookers => p \in Lookers
  /\ q \in Creators => p \in Creators
  /\ q \in Placers => p \in Placers
  /\ q \in {"check_db", "insert_db"} => p \in {"check_db", "insert_db"}
  /\ q \in {"check_node", "insert_node"} => p \in {"check_node", "insert_node"}

LEMMA GotoCalls ==
  ASSUME Inv, PlaceInv, NEW t \in Threads, NEW p \in Pcs, Goto(t, p), call' = call,
         SameKind(pc[t], p)
  PROVE  CallsOK' /\ pc'[t] = p
<1>1. pc'[t] = p /\ \A u \in Threads \ {t} : pc'[u] = pc[u]
  BY DEF Goto, Inv, LatchInv, ThreadTypes
<1>2. ASSUME NEW u \in Threads PROVE CallOK(u)'
  <2>1. CallOK(u)
    BY DEF PlaceInv, CallsOK
  <2>2. SameKind(pc[u], pc'[u])
    BY <1>1 DEF SameKind
  <2> QED
    BY <2>1, <2>2 DEF CallOK, SameKind, LookupCalls, CreateCalls
<1> QED
  BY <1>1, <1>2 DEF CallsOK

\* What the work of another thread depends on.
LEMMA OthersWork ==
  ASSUME Inv, OidInv, PlaceInv, NEW t \in Threads, Others(t), WorkOK(t)',
         Len(nodes) \in Nat, Len(nodes') \in Nat, Len(nodes) <= Len(nodes'),
         \A i \in 1..Len(tms) : asked'[i] = asked[i],
         \A i \in 1..Len(tms) : tms'[i] = tms[i] \/ (pc[t] \in Makers /\ i = tp[t]),
         \A i \in 1..Len(tms) : (i \in guessed' <=> i \in guessed) \/ (pc[t] \in Makers /\ i = tp[t])
  PROVE  WorksOK'
<1> SUFFICES ASSUME NEW u \in Threads PROVE WorkOK(u)'
  BY DEF WorksOK, Others
<1>1. CASE u = t
  BY <1>1
<1>2. CASE u # t
  <2>1. WorkOK(u)
    BY DEF PlaceInv, WorksOK
  <2>2. pc'[u] = pc[u] /\ tp'[u] = tp[u] /\ call'[u] = call[u] /\ work'[u] = work[u]
    BY <1>2 DEF Others, OnlyMoves
  <2>3. ASSUME pc[u] \in Makers
        PROVE  /\ tms'[tp[u]] = tms[tp[u]] /\ asked'[tp[u]] = asked[tp[u]]
               /\ tp[u] \in guessed' <=> tp[u] \in guessed
    <3>1. tp[u] \in 1..Len(tms)
      BY <2>3 DEF Inv, MapInv, ThreadsPointed
    <3>2. pc[t] \in Makers => tp[u] # tp[t]
      BY <1>2, <2>3 DEF OidInv, OwnTables
    <3> QED
      BY <3>1, <3>2
  <2>4. CASE pc[u] \in Makers
    <3>1. tms'[tp'[u]] = tms[tp[u]] /\ asked'[tp'[u]] = asked[tp[u]]
      BY <2>2, <2>3, <2>4
    <3>2. /\ pc'[u] \notin Placers => work'[u] = NoWork
          /\ pc'[u] = "set_oid" =>
               /\ tms'[tp'[u]].partitions = <<>> /\ tms'[tp'[u]].table_location = <<>>
               /\ call'[u].op = "CreatePartitionTable" => asked'[tp'[u]] = call'[u].arg.partition_type
      BY <2>1, <2>2, <3>1 DEF WorkOK
    <3>3. ASSUME pc'[u] \in Placers
          PROVE  /\ DOMAIN work'[u] = {"i", "replicas", "node", "seen"}
                 /\ work'[u].i = Len(tms'[tp'[u]].table_location) + 1
                 /\ work'[u].i <= Len(tms'[tp'[u]].partitions)
                 /\ Ranked(work'[u].replicas)
                 /\ tp'[u] \notin guessed' => Spread(work'[u].replicas)
      BY <2>1, <2>2, <2>3, <2>4, <3>1, <3>3 DEF WorkOK
    <3>4. ASSUME pc'[u] = "count"
          PROVE  /\ work'[u].replicas # <<>>
                 /\ work'[u].node \in 1..Len(nodes') /\ work'[u].seen \in Nat
      BY <2>1, <2>2, <3>4 DEF WorkOK
    <3> QED
      BY <3>2, <3>3, <3>4 DEF WorkOK, Ranked, Spread, IsSeq
  <2>5. CASE pc[u] \notin Makers
    BY <2>1, <2>2, <2>5 DEF WorkOK, Makers, Placers
  <2> QED
    BY <2>4, <2>5
<1> QED
  BY <1>1, <1>2

\* A step of a thread that makes no table, or a stutter of the tables.
SamePlacement == UNCHANGED <<tms, asked, whole, guessed, ip_node_map_, nodes>>

LEMMA SameTables ==
  ASSUME TablesOK, UNCHANGED <<tms, asked, whole, guessed>>
  PROVE  TablesOK'
BY DEF TablesOK, TableOK, Described, Located

LEMMA SameNodes ==
  ASSUME NodesOK, UNCHANGED <<ip_node_map_, nodes>>
  PROVE  NodesOK' /\ Len(nodes) \in Nat /\ Len(nodes') = Len(nodes)
BY DEF NodesOK, NodeOK, IsSeq

LEMMA QuietReturn ==
  ASSUME Inv, OidInv, PlaceInv, NEW t \in Threads, Return(t), SamePlacement
  PROVE  PlaceInv'
<1>1. Others(t) /\ CallsOK' /\ WorkOK(t)'
  BY ReturnOthers
<1>2. TablesOK' /\ NodesOK' /\ Len(nodes) \in Nat /\ Len(nodes') = Len(nodes)
  BY SameTables, SameNodes DEF SamePlacement, PlaceInv
<1>3. WorksOK'
  BY <1>1, <1>2, OthersWork DEF SamePlacement
<1> QED
  BY <1>1, <1>2, <1>3 DEF PlaceInv

LEMMA QuietGoto ==
  ASSUME Inv, OidInv, PlaceInv, NEW t \in Threads, NEW p \in Pcs \ Makers, Goto(t, p),
         SamePlacement, SameKind(pc[t], p), UNCHANGED <<call, work>>, pc[t] \notin Makers,
         \A u \in Threads \ {t} : dp'[u] = dp[u] /\ tp'[u] = tp[u]
  PROVE  PlaceInv'
<1>1. CallsOK' /\ pc'[t] = p
  BY GotoCalls
<1>2. TablesOK' /\ NodesOK' /\ Len(nodes) \in Nat /\ Len(nodes') = Len(nodes)
  BY SameTables, SameNodes DEF SamePlacement, PlaceInv
<1>3. Others(t)
  BY DEF Others, OnlyMoves, Goto, Inv, LatchInv, ThreadTypes, PlaceInv, WorksOK
<1>4. WorkOK(t)'
  <2>1. WorkOK(t) /\ p \notin Placers /\ p # "set_oid" /\ pc[t] \notin Placers
    BY DEF PlaceInv, WorksOK, Makers, Placers
  <2> QED
    BY <1>1, <2>1 DEF WorkOK, Placers
<1>5. WorksOK'
  BY <1>2, <1>3, <1>4, OthersWork DEF SamePlacement
<1> QED
  BY <1>1, <1>2, <1>5 DEF PlaceInv

\* A table that comes into being has no partitions and no locations.
LEMMA NewTablePlaces ==
  ASSUME Inv, OidInv, PlaceInv, NEW t \in Threads, NewTable(t)
  PROVE  PlaceInv'
<1> DEFINE i == Len(tms) + 1
<1>1. /\ pc[t] = "new_tab" /\ Goto(t, "set_oid") /\ tp' = [tp EXCEPT ![t] = i]
      /\ UNCHANGED <<call, dp, work, whole, guessed, ip_node_map_, nodes>>
  BY DEF NewTable, placement
<1>2. PICK e : /\ tms' = Append(tms, e) /\ DOMAIN e = Fields
               /\ e.partitions = <<>> /\ e.table_location = <<>>
  BY DEF NewTable, Fields
<1>3. PICK y : /\ asked' = Append(asked, y)
               /\ call[t].op = "CreatePartitionTable" => y = call[t].arg.partition_type
  BY DEF NewTable
<1>4. CallsOK' /\ pc'[t] = "set_oid"
  BY <1>1, GotoCalls DEF SameKind, Lookers, Creators, Placers, Writers, Makers, Pcs
<1>5. /\ IsSeq(tms') /\ Len(tms') = i /\ Len(tms) \in Nat /\ tms'[i] = e
      /\ \A j \in 1..Len(tms) : tms'[j] = tms[j]
  BY <1>2, AppendIsSeq DEF Inv, MapInv, Pointed
<1>6. /\ IsSeq(asked') /\ Len(asked') = i /\ asked'[i] = y
      /\ \A j \in 1..Len(tms) : asked'[j] = asked[j]
  BY <1>3, AppendIsSeq DEF PlaceInv, TablesOK
<1>7. NodesOK' /\ Len(nodes) \in Nat /\ Len(nodes') = Len(nodes)
  BY <1>1, SameNodes DEF PlaceInv
<1>8. i \notin whole
  BY <1>5 DEF OidInv, OwnTables
<1> HIDE DEF i
<1>9. TablesOK'
  <2> SUFFICES ASSUME NEW j \in 1..Len(tms') PROVE TableOK(j)'
    BY <1>5, <1>6 DEF TablesOK
  <2>1. CASE j = i
    <3>1. Located(tms'[j], j \notin guessed')
      BY <1>2, <1>5, <2>1, EmptyIsSeq DEF Located
    <3> QED
      BY <1>1, <1>2, <1>5, <1>8, <2>1, <3>1 DEF TableOK, Described, Located
  <2>2. CASE j # i
    <3>1. j \in 1..Len(tms) /\ tms'[j] = tms[j] /\ asked'[j] = asked[j]
      BY <1>5, <1>6, <2>2 DEF i
    <3>2. TableOK(j)
      BY <3>1 DEF PlaceInv, TablesOK
    <3> QED
      BY <1>1, <3>1, <3>2 DEF TableOK, Described, Located
  <2> QED
    BY <2>1, <2>2
<1>10. Others(t) /\ tp'[t] = i /\ work'[t] = work[t]
  BY <1>1 DEF Others, OnlyMoves, Goto, Inv, LatchInv, ThreadTypes, PlaceInv, WorksOK
<1>11. WorkOK(t)'
  <2>1. work[t] = NoWork
    BY <1>1 DEF PlaceInv, WorksOK, WorkOK, Placers
  <2> QED
    BY <1>1, <1>2, <1>3, <1>4, <1>5, <1>6, <1>10, <2>1 DEF WorkOK, Placers
<1>12. WorksOK'
  BY <1>1, <1>5, <1>6, <1>7, <1>10, <1>11, OthersWork
<1> QED
  BY <1>4, <1>7, <1>9, <1>12 DEF PlaceInv

\* A plain table is finished without either.
LEMMA FinishPlainPlaces ==
  ASSUME Inv, OidInv, PlaceInv, NEW t \in Threads, FinishPlain(t)
  PROVE  PlaceInv'
<1>1. /\ pc[t] = "set_oid" /\ Return(t) /\ whole' = whole \cup {tp[t]}
      /\ UNCHANGED <<tms, asked, guessed, ip_node_map_, nodes>>
  BY DEF FinishPlain, placement
<1>2. Others(t) /\ CallsOK' /\ WorkOK(t)'
  BY <1>1, ReturnOthers
<1>3. NodesOK' /\ Len(nodes) \in Nat /\ Len(nodes') = Len(nodes)
  BY <1>1, SameNodes DEF PlaceInv
<1>4. WorksOK'
  BY <1>1, <1>2, <1>3, OthersWork
<1>5. tms[tp[t]].partitions = <<>> /\ tms[tp[t]].table_location = <<>>
  BY <1>1 DEF PlaceInv, WorksOK, WorkOK
<1>6. TablesOK'
  <2> SUFFICES ASSUME NEW j \in 1..Len(tms) PROVE TableOK(j)'
    BY <1>1 DEF PlaceInv, TablesOK
  <2>1. TableOK(j)
    BY DEF PlaceInv, TablesOK
  <2> QED
    BY <1>1, <1>5, <2>1 DEF TableOK, Described, Located
<1> QED
  BY <1>2, <1>3, <1>4, <1>6 DEF PlaceInv

\* The partitions a thread is going to place, none of them yet.
LEMMA DescribeTablePlaces ==
  ASSUME Inv, OidInv, PlaceInv, NEW t \in Threads, DescribeTable(t), ~Stop
  PROVE  PlaceInv'
<1> DEFINE old == tms[tp[t]]
           req == call[t].arg
           new == [old EXCEPT
                  !.partition_key_name = "key",
                  !.partition_cnt = req.partition_cnt,
                  !.partition_type = TypeStored(req),
                  !.partition_key_type = req.partition_key_type,
                  !.partitions = [i \in 1..req.partition_cnt |->
                     [p_id |-> i - 1, min_range |-> req.range[i].min_range,
                      max_range |-> req.range[i].max_range]],
                  !.duplicate_type = IF req.has_replica THEN DUPLICATE ELSE NOT_DUPLICATE]
<1>1. /\ pc[t] = "set_oid" /\ call[t].op = "CreatePartitionTable" /\ req.range # <<>>
      /\ tms' = [tms EXCEPT ![tp[t]] = new] /\ Goto(t, "place")
      /\ UNCHANGED <<call, dp, tp, work, asked, whole, guessed, ip_node_map_, nodes>>
  BY DEF DescribeTable, placement, history
<1>2. /\ tp[t] \in 1..Len(tms) /\ TableOK(tp[t]) /\ tp[t] \notin whole
      /\ old.partitions = <<>> /\ old.table_location = <<>> /\ work[t] = NoWork
  BY <1>1 DEF Inv, MapInv, ThreadsPointed, Makers, PlaceInv, TablesOK, WorksOK, WorkOK, Placers,
              OidInv, OwnTables
<1>3. req \in PartitionRequests /\ req.partition_cnt \in Nat \ {0}
  <2>1. call[t] \in CreateCalls
    BY <1>1 DEF PlaceInv, CallsOK, CallOK, Creators, Writers, Makers
  <2> QED
    BY <1>1, <2>1, MetaAssumption DEF CreateCalls
<1>4. /\ DOMAIN new = Fields /\ new.table_location = <<>> /\ new.partition_type = TypeStored(req)
      /\ new.partitions = [i \in 1..req.partition_cnt |->
                     [p_id |-> i - 1, min_range |-> req.range[i].min_range,
                      max_range |-> req.range[i].max_range]]
  BY <1>2 DEF TableOK, Fields
<1> HIDE DEF new
<1>5. /\ IsSeq(tms') /\ Len(tms') = Len(tms) /\ tms'[tp[t]] = new
      /\ \A j \in 1..Len(tms) : j # tp[t] => tms'[j] = tms[j]
  BY <1>1, <1>2, TmsStaySeq DEF Inv, MapInv, Pointed
<1>6. asked[tp[t]] = req.partition_type
  BY <1>1 DEF PlaceInv, WorksOK, WorkOK
<1>7. TablesOK'
  <2> SUFFICES ASSUME NEW j \in 1..Len(tms) PROVE TableOK(j)'
    BY <1>1, <1>5 DEF PlaceInv, TablesOK
  <2>1. CASE j = tp[t]
    <3>1. Described(tms'[j], asked'[j])
      <4>1. tms'[j] = new /\ asked'[j] = req.partition_type
        BY <1>1, <1>5, <1>6, <2>1
      <4> HIDE DEF req
      <4>2. Described(new, req.partition_type)
        BY <1>1, <1>3, <1>4, Zenon DEF Described
      <4> QED
        BY <4>1, <4>2
    <3>2. Located(tms'[j], j \notin guessed')
      BY <1>4, <1>5, <2>1, EmptyIsSeq DEF Located
    <3> QED
      BY <1>1, <1>2, <1>4, <1>5, <2>1, <3>1, <3>2 DEF TableOK, Described, Located
  <2>2. CASE j # tp[t]
    <3>1. TableOK(j) /\ tms'[j] = tms[j]
      BY <1>5, <2>2 DEF PlaceInv, TablesOK
    <3> QED
      BY <1>1, <3>1 DEF TableOK, Described, Located
  <2> QED
    BY <2>1, <2>2
<1>8. CallsOK'
  <2>1. ASSUME NEW u \in Threads PROVE CallOK(u)'
    <3>1. CallOK(u)
      BY DEF PlaceInv, CallsOK
    <3>2. CASE u = t
      BY <1>1, <3>1, <3>2 DEF CallOK, Goto, Inv, LatchInv, ThreadTypes, Lookers, Creators, Writers,
                              Makers, Placers, CreateCalls
    <3>3. CASE u # t
      BY <1>1, <3>1, <3>3 DEF CallOK, Goto, Inv, LatchInv, ThreadTypes, LookupCalls, CreateCalls
    <3> QED
      BY <3>2, <3>3
  <2> QED
    BY <2>1 DEF CallsOK
<1>9. NodesOK' /\ Len(nodes) \in Nat /\ Len(nodes') = Len(nodes)
  BY <1>1, SameNodes DEF PlaceInv
<1>10. Others(t) /\ pc'[t] = "place"
  BY <1>1 DEF Others, OnlyMoves, Goto, Inv, LatchInv, ThreadTypes, PlaceInv, WorksOK
<1>11. WorkOK(t)'
  <2>1. Len(new.partitions) = req.partition_cnt /\ Len(new.table_location) = 0
    BY <1>3, <1>4
  <2>2. Ranked(<<>>) /\ Spread(<<>>)
    BY EmptyIsSeq DEF Ranked, Spread
  <2> QED
    BY <1>1, <1>2, <1>3, <1>5, <1>10, <2>1, <2>2 DEF WorkOK, NoWork, Placers
<1>12. WorksOK'
  BY <1>1, <1>5, <1>9, <1>10, <1>11, OthersWork DEF Makers
<1> QED
  BY <1>7, <1>8, <1>9, <1>12 DEF PlaceInv

\* One more replica, at an address not used yet.
LEMMA AppendRanked ==
  ASSUME NEW r, Ranked(r), NEW a \in {Ip[s] : s \in Servers}
  PROVE  LET more == Append(r, [ip_addr |-> a, role |-> RoleOf(r)])
         IN  /\ Ranked(more) /\ more # <<>>
             /\ Spread(r) /\ (\A j \in 1..Len(r) : r[j].ip_addr # a) => Spread(more)
<1> DEFINE e == [ip_addr |-> a, role |-> RoleOf(r)]
           more == Append(r, e)
<1>1. /\ IsSeq(more) /\ Len(r) \in Nat /\ Len(more) = Len(r) + 1
      /\ \A i \in 1..Len(r) : more[i] = r[i]
      /\ more[Len(r) + 1] = e
  BY AppendIsSeq DEF Ranked
<1>2. e.ip_addr = a /\ e.role = IF Len(r) = 0 THEN Leader ELSE Follower
  <2>1. r = <<>> <=> Len(r) = 0
    BY DEF Ranked, IsSeq
  <2> QED
    BY <2>1 DEF RoleOf
<1> HIDE DEF more, e
<1>3. \A j \in 1..Len(more) : j \in 1..Len(r) \/ j = Len(r) + 1
  BY <1>1
<1>4. Ranked(more)
  BY <1>1, <1>2, <1>3 DEF Ranked
<1>5. more # <<>>
  BY <1>1
<1>6. ASSUME Spread(r), \A j \in 1..Len(r) : r[j].ip_addr # a PROVE Spread(more)
  BY <1>1, <1>2, <1>3, <1>6 DEF Spread
<1> QED
  BY <1>4, <1>5, <1>6 DEF more, e

\* A node to place a replica on.
LEMMA CandidatesAreNodes ==
  ASSUME NodesOK, NEW r, IsSeq(r)
  PROVE  /\ Candidates(r) \subseteq 1..Len(nodes)
         /\ \A n \in Candidates(r) : \A j \in 1..Len(r) : r[j].ip_addr # nodes[n].ip_addr
         /\ \A n \in 1..Len(nodes) : /\ nodes[n].ip_addr \in {Ip[s] : s \in Servers}
                                     /\ Load(n, RoleOf(r)) \in Nat
         /\ DOMAIN nodes = 1..Len(nodes) /\ Len(nodes) \in Nat
<1>1. DOMAIN r = 1..Len(r) /\ DOMAIN nodes = 1..Len(nodes) /\ Len(nodes) \in Nat
  BY DEF IsSeq, NodesOK
<1>2. \A n \in Candidates(r) : /\ n \in {ip_node_map_[s] : s \in DOMAIN ip_node_map_}
                               /\ \A j \in DOMAIN r : r[j].ip_addr # nodes[n].ip_addr
  BY DEF Candidates
<1>3. \A n \in 1..Len(nodes) : /\ nodes[n].ip_addr \in {Ip[s] : s \in Servers}
                               /\ Load(n, RoleOf(r)) \in Nat
  BY DEF NodesOK, NodeOK, Load
<1> QED
  BY <1>1, <1>2, <1>3 DEF NodesOK

LEMMA PlaceReplicaPlaces ==
  ASSUME Inv, OidInv, PlaceInv, NEW t \in Threads, PlaceReplica(t), ~Stop
  PROVE  PlaceInv'
<1> DEFINE r == work[t].replicas
           c == Candidates(r)
<1>1. /\ pc[t] = "place" /\ Goto(t, "count")
      /\ guessed' = IF c = {} THEN guessed \cup {tp[t]} ELSE guessed
      /\ UNCHANGED <<tms, asked, whole, call, dp, tp, ip_node_map_, nodes>>
  BY DEF PlaceReplica, catalogue, placement
<1>2. PICK n \in (IF c = {} THEN DOMAIN nodes ELSE c) :
        work' = [work EXCEPT ![t] = [@ EXCEPT !.node = n, !.seen = Load(n, RoleOf(r)),
                   !.replicas = Append(r, [ip_addr |-> nodes[n].ip_addr, role |-> RoleOf(r)])]]
  BY DEF PlaceReplica
<1>3. WorkOK(t) /\ tp[t] \in 1..Len(tms) /\ DOMAIN work = Threads /\ tp[t] \notin whole
  BY <1>1 DEF PlaceInv, WorksOK, Inv, MapInv, ThreadsPointed, Makers, OidInv, OwnTables
<1>4. /\ Ranked(r) /\ IsSeq(r) /\ DOMAIN work[t] = {"i", "replicas", "node", "seen"}
      /\ tp[t] \notin guessed => Spread(r)
  BY <1>1, <1>3 DEF WorkOK, Placers, Ranked
<1>5. /\ n \in 1..Len(nodes) /\ nodes[n].ip_addr \in {Ip[s] : s \in Servers}
      /\ Load(n, RoleOf(r)) \in Nat
      /\ c # {} => \A j \in 1..Len(r) : r[j].ip_addr # nodes[n].ip_addr
  <2> HIDE DEF r
  <2> QED
    BY <1>2, <1>4, CandidatesAreNodes DEF PlaceInv
<1> DEFINE more == Append(r, [ip_addr |-> nodes[n].ip_addr, role |-> RoleOf(r)])
<1>6. /\ Ranked(more) /\ more # <<>>
      /\ c # {} /\ tp[t] \notin guessed => Spread(more)
  <2> HIDE DEF r, c
  <2> QED
    BY <1>4, <1>5, AppendRanked
<1>7. /\ work'[t].replicas = more /\ work'[t].i = work[t].i /\ work'[t].node = n
      /\ work'[t].seen = Load(n, RoleOf(r)) /\ DOMAIN work'[t] = {"i", "replicas", "node", "seen"}
      /\ DOMAIN work' = Threads /\ \A u \in Threads \ {t} : work'[u] = work[u]
  <2> HIDE DEF more, r
  <2> QED
    BY <1>2, <1>3, <1>4 DEF more, r
<1> HIDE DEF more, r
<1>8. Others(t) /\ pc'[t] = "count"
  BY <1>1, <1>7 DEF Others, OnlyMoves, Goto, Inv, LatchInv, ThreadTypes
<1>9. CallsOK'
  BY <1>1, GotoCalls DEF SameKind, Lookers, Creators, Placers, Writers, Makers, Pcs
<1>10. NodesOK' /\ Len(nodes) \in Nat /\ Len(nodes') = Len(nodes)
  BY <1>1, SameNodes DEF PlaceInv
<1>11. WorkOK(t)'
  <2>1. tp'[t] \notin guessed' => Spread(more)
    BY <1>1, <1>6
  <2> QED
    BY <1>1, <1>3, <1>5, <1>6, <1>7, <1>8, <1>10, <2>1 DEF WorkOK, Placers
<1>12. WorksOK'
  <2>1. \A i \in 1..Len(tms) : (i \in guessed' <=> i \in guessed) \/ (pc[t] \in Makers /\ i = tp[t])
    BY <1>1 DEF Makers
  <2> QED
    BY <1>1, <1>8, <1>10, <1>11, <2>1, OthersWork
<1>13. TablesOK'
  <2> SUFFICES ASSUME NEW j \in 1..Len(tms) PROVE TableOK(j)'
    BY <1>1 DEF PlaceInv, TablesOK
  <2>1. TableOK(j)
    BY DEF PlaceInv, TablesOK
  <2>2. j \notin guessed' => j \notin guessed
    BY <1>1
  <2>3. Located(tms'[j], j \notin guessed')
    BY <1>1, <2>1, <2>2 DEF TableOK, Located
  <2> QED
    BY <1>1, <2>1, <2>3 DEF TableOK, Described, Located
<1> QED
  BY <1>9, <1>10, <1>12, <1>13 DEF PlaceInv

\* Nodes that change in their counts or become active.
LEMMA ChangedNodes ==
  ASSUME NodesOK, NEW n \in 1..Len(nodes), NEW e, NodeOK(e), e.ip_addr = nodes[n].ip_addr,
         nodes' = [nodes EXCEPT ![n] = e], UNCHANGED ip_node_map_
  PROVE  NodesOK' /\ Len(nodes) \in Nat /\ Len(nodes') = Len(nodes)
<1>0. Len(nodes) \in Nat
  BY DEF NodesOK, IsSeq
<1>1. /\ IsSeq(nodes') /\ Len(nodes') = Len(nodes) /\ nodes'[n] = e
      /\ \A j \in 1..Len(nodes) : j # n => nodes'[j] = nodes[j]
  BY NodesStaySeq DEF NodesOK
<1>2. \A j \in 1..Len(nodes) : NodeOK(nodes'[j]) /\ nodes'[j].ip_addr = nodes[j].ip_addr
  BY <1>1 DEF NodesOK
<1> QED
  BY <1>0, <1>1, <1>2 DEF NodesOK, NodeOK

\* A replica counted.
LEMMA AddLoadNodes ==
  ASSUME NodesOK, NEW t \in Threads, NEW n \in 1..Len(nodes), AddLoad(t, n), work[t].seen \in Nat,
         UNCHANGED ip_node_map_
  PROVE  NodesOK' /\ Len(nodes) \in Nat /\ Len(nodes') = Len(nodes)
<1>1. PICK old \in {work[t].seen, Load(n, work[t].replicas[Len(work[t].replicas)].role)} :
        nodes' = [nodes EXCEPT ![n] =
                IF Len(work[t].replicas) = 1 THEN [@ EXCEPT !.leader_par_cnt = old + 1]
                ELSE [@ EXCEPT !.follower_par_cnt = old + 1]]
  BY DEF AddLoad
<1>2. NodeOK(nodes[n])
  BY DEF NodesOK
<1>3. old \in Nat
  BY <1>2 DEF NodeOK, Load
<1> DEFINE e == IF Len(work[t].replicas) = 1 THEN [nodes[n] EXCEPT !.leader_par_cnt = old + 1]
                ELSE [nodes[n] EXCEPT !.follower_par_cnt = old + 1]
<1>4. NodeOK(e) /\ e.ip_addr = nodes[n].ip_addr
  BY <1>2, <1>3 DEF NodeOK
<1>5. nodes' = [nodes EXCEPT ![n] = e]
  BY <1>1
<1> HIDE DEF e
<1> QED
  BY <1>4, <1>5, ChangedNodes

\* A replica counted, and with the last one of a partition its location.
LEMMA CountReplicaPlaces ==
  ASSUME Inv, OidInv, PlaceInv, NEW t \in Threads, CountReplica(t)
  PROVE  PlaceInv'
<1> DEFINE w == work[t]
           old == tms[tp[t]]
           loc == [p_id |-> w.i - 1, replicas |-> w.replicas]
           new == [old EXCEPT !.table_location = Append(old.table_location, loc)]
           last == Len(w.replicas) >= call[t].arg.replica_cnt
           done == last /\ w.i = Len(old.partitions)
<1>1. /\ pc[t] = "count" /\ AddLoad(t, w.node)
      /\ tms' = IF last THEN [tms EXCEPT ![tp[t]] = new] ELSE tms
      /\ UNCHANGED <<asked, guessed, ip_node_map_>>
  BY DEF CountReplica
<1>2. \/ done /\ Return(t) /\ whole' = whole \cup {tp[t]}
      \/ /\ ~done /\ Goto(t, "place")
         /\ work' = [work EXCEPT ![t] = IF last THEN [NoWork EXCEPT !.i = w.i + 1] ELSE w]
         /\ UNCHANGED <<held, call, dp, tp, whole>>
  BY DEF CountReplica
<1>3. /\ WorkOK(t) /\ tp[t] \in 1..Len(tms) /\ TableOK(tp[t]) /\ tp[t] \notin whole
      /\ DOMAIN work = Threads
  BY <1>1 DEF PlaceInv, WorksOK, Inv, MapInv, ThreadsPointed, Makers, TablesOK, OidInv, OwnTables
<1>4. /\ DOMAIN w = {"i", "replicas", "node", "seen"} /\ Ranked(w.replicas)
      /\ w.i = Len(old.table_location) + 1 /\ w.i <= Len(old.partitions)
      /\ w.replicas # <<>> /\ w.node \in 1..Len(nodes) /\ w.seen \in Nat
      /\ tp[t] \notin guessed => Spread(w.replicas)
  BY <1>1, <1>3 DEF WorkOK, Placers
<1>5. DOMAIN old = Fields /\ IsSeq(old.table_location) /\ Located(old, tp[t] \notin guessed)
  BY <1>3 DEF TableOK, Located
<1>6. NodesOK' /\ Len(nodes) \in Nat /\ Len(nodes') = Len(nodes)
  BY <1>1, <1>4, AddLoadNodes DEF PlaceInv
<1>7. /\ DOMAIN new = Fields /\ new.table_location = Append(old.table_location, loc)
      /\ new.partitions = old.partitions /\ new.partition_type = old.partition_type
  BY <1>5 DEF Fields
<1>8. /\ IsSeq(new.table_location) /\ Len(old.table_location) \in Nat
      /\ Len(new.table_location) = Len(old.table_location) + 1
      /\ \A l \in 1..Len(old.table_location) : new.table_location[l] = old.table_location[l]
      /\ new.table_location[Len(old.table_location) + 1] = loc
  BY <1>5, <1>7, AppendIsSeq
<1>9. Located(new, tp[t] \notin guessed)
  <2>1. loc.p_id = w.i - 1 /\ loc.replicas = w.replicas
    OBVIOUS
  <2> HIDE DEF new, loc, w
  <2>2. \A l \in 1..Len(new.table_location) : l \in 1..Len(old.table_location) \/ l = Len(old.table_location) + 1
    BY <1>8
  <2>3. \A l \in 1..Len(old.table_location) :
           LET x == old.table_location[l]
           IN  /\ x.p_id = l - 1
               /\ x.replicas # <<>> /\ Ranked(x.replicas)
               /\ tp[t] \notin guessed => Spread(x.replicas)
    BY <1>5 DEF Located
  <2>4. ASSUME NEW l \in 1..Len(new.table_location)
        PROVE  LET x == new.table_location[l]
               IN  /\ x.p_id = l - 1
                   /\ x.replicas # <<>> /\ Ranked(x.replicas)
                   /\ tp[t] \notin guessed => Spread(x.replicas)
    <3>1. CASE l \in 1..Len(old.table_location)
      BY <1>8, <2>3, <3>1
    <3>2. CASE l = Len(old.table_location) + 1
      BY <1>4, <1>8, <2>1, <3>2
    <3> QED
      BY <2>2, <3>1, <3>2
  <2> QED
    BY <1>8, <2>4 DEF Located
<1> HIDE DEF new, loc
<1>10. /\ IsSeq(tms') /\ Len(tms') = Len(tms)
       /\ tms'[tp[t]] = IF last THEN new ELSE old
       /\ \A j \in 1..Len(tms) : j # tp[t] => tms'[j] = tms[j]
  <2>1. IsSeq(tms)
    BY DEF Inv, MapInv, Pointed
  <2>2. CASE last
    <3>1. tms' = [tms EXCEPT ![tp[t]] = new]
      BY <1>1, <2>2
    <3> HIDE DEF last
    <3> QED
      BY <1>3, <2>1, <2>2, <3>1, TmsStaySeq
  <2>3. CASE ~last
    BY <1>1, <1>3, <2>1, <2>3
  <2> QED
    BY <2>2, <2>3
<1>11. whole' = IF done THEN whole \cup {tp[t]} ELSE whole
  BY <1>2
<1>12. TablesOK'
  <2> SUFFICES ASSUME NEW j \in 1..Len(tms) PROVE TableOK(j)'
    BY <1>1, <1>10 DEF PlaceInv, TablesOK
  <2>0. TableOK(j)
    BY DEF PlaceInv, TablesOK
  <2>1. CASE j = tp[t]
    <3> DEFINE e == IF last THEN new ELSE old
    <3>1. /\ DOMAIN e = Fields /\ e.partitions = old.partitions
          /\ e.partition_type = old.partition_type
          /\ Located(e, tp[t] \notin guessed)
      BY <1>5, <1>7, <1>9
    <3>2. done => Len(e.table_location) = Len(e.partitions)
      BY <1>4, <1>7, <1>8
    <3>3. tms'[j] = e /\ asked'[j] = asked[j]
      BY <1>1, <1>10, <2>1
    <3>4. j \in whole' => done
      BY <1>3, <1>11, <2>1
    <3> HIDE DEF e, done, last, old
    <3>5. e.partitions = <<>> \/ Described(e, asked[j])
      <4>1. old.partitions = <<>> \/ Described(old, asked[j])
        BY <2>0, <2>1 DEF TableOK, old
      <4>2. Described(old, asked[j]) => Described(e, asked[j])
        BY <3>1, Zenon DEF Described
      <4> QED
        BY <3>1, <4>1, <4>2
    <3> QED
      BY <1>1, <2>1, <3>1, <3>2, <3>3, <3>4, <3>5 DEF TableOK, Described, Located
  <2>2. CASE j # tp[t]
    <3>1. tms'[j] = tms[j] /\ (j \in whole' => j \in whole)
      BY <1>10, <1>11, <2>2
    <3> QED
      BY <1>1, <2>0, <3>1 DEF TableOK, Described, Located
  <2> QED
    BY <2>1, <2>2
\* The other threads, and what is left to do for this one.
<1>13. \A i \in 1..Len(tms) : tms'[i] = tms[i] \/ (pc[t] \in Makers /\ i = tp[t])
  BY <1>1, <1>10 DEF Makers
<1>14. CASE done /\ Return(t)
  <2>1. Others(t) /\ CallsOK' /\ WorkOK(t)'
    BY <1>14, ReturnOthers
  <2>2. WorksOK'
    BY <1>1, <1>6, <1>13, <2>1, OthersWork
  <2> QED
    BY <1>6, <1>12, <2>1, <2>2 DEF PlaceInv
<1>15. CASE ~(done /\ Return(t))
  <2>1. /\ ~done /\ Goto(t, "place") /\ UNCHANGED <<call, dp, tp>>
        /\ work' = [work EXCEPT ![t] = IF last THEN [NoWork EXCEPT !.i = w.i + 1] ELSE w]
    BY <1>2, <1>15
  <2>2. CallsOK' /\ pc'[t] = "place"
    BY <1>1, <2>1, GotoCalls DEF SameKind, Lookers, Creators, Placers, Writers, Makers, Pcs
  <2>3. Others(t) /\ work'[t] = IF last THEN [NoWork EXCEPT !.i = w.i + 1] ELSE w
    BY <1>3, <2>1 DEF Others, OnlyMoves, Goto, Inv, LatchInv, ThreadTypes
  <2>4. WorkOK(t)'
    <3>1. CASE last
      <4>1. Ranked(<<>>) /\ Spread(<<>>)
        BY EmptyIsSeq DEF Ranked, Spread
      <4>2. tms'[tp'[t]] = new
        BY <1>10, <2>1, <3>1
      <4>3. /\ DOMAIN work'[t] = {"i", "replicas", "node", "seen"} /\ work'[t].i = w.i + 1
            /\ work'[t].replicas = <<>>
        BY <2>3, <3>1 DEF NoWork
      <4>4. Len(old.partitions) \in Nat
        <5>1. old.partitions = <<>> \/ Described(old, asked[tp[t]])
          BY <1>3 DEF TableOK
        <5>2. CASE old.partitions = <<>>
          BY <5>2
        <5>3. CASE Described(old, asked[tp[t]])
          <6>1. PICK req \in PartitionRequests :
                  old.partitions = [i \in 1..req.partition_cnt |->
                     [p_id |-> i - 1, min_range |-> req.range[i].min_range,
                      max_range |-> req.range[i].max_range]]
            BY <5>3 DEF Described
          <6>2. req.partition_cnt \in Nat
            BY MetaAssumption
          <6> QED
            BY <6>1, <6>2
        <5> QED
          BY <5>1, <5>2, <5>3
      <4>5. w.i # Len(old.partitions)
        BY <2>1, <3>1
      <4>6. work'[t].i = Len(tms'[tp'[t]].table_location) + 1
        BY <1>4, <1>8, <4>2, <4>3
      <4>7. work'[t].i <= Len(tms'[tp'[t]].partitions)
        <5>1. tms'[tp'[t]].partitions = old.partitions
          BY <1>7, <4>2
        <5>2. w.i \in Nat /\ w.i <= Len(old.partitions)
          BY <1>4, <1>8
        <5> HIDE DEF w, old
        <5> QED
          BY <4>3, <4>4, <4>5, <5>1, <5>2
      <4> QED
        BY <2>2, <4>1, <4>3, <4>6, <4>7 DEF WorkOK, Placers
    <3>2. CASE ~last
      <4>1. tms'[tp'[t]] = old /\ work'[t] = w /\ tp' = tp
        BY <1>10, <2>1, <2>3, <3>2
      <4> QED
        BY <1>1, <1>4, <2>2, <4>1 DEF WorkOK, Placers
    <3> QED
      BY <3>1, <3>2
  <2>5. WorksOK'
    BY <1>1, <1>6, <1>13, <2>3, <2>4, OthersWork
  <2> QED
    BY <1>6, <1>12, <2>2, <2>5 DEF PlaceInv
<1> QED
  BY <1>2, <1>14, <1>15

\* Nodes that register.
LEMMA CheckNodePlaces ==
  ASSUME Inv, OidInv, PlaceInv, NEW t \in Threads, CheckNode(t)
  PROVE  PlaceInv'
<1>1. pc[t] = "check_node" /\ UNCHANGED <<tms, asked, whole, guessed, ip_node_map_>>
  BY DEF CheckNode, catalogue, history
<1>2. CASE Goto(t, "insert_node") /\ UNCHANGED <<nodes, held, call, dp, tp, work>>
  BY <1>1, <1>2, QuietGoto
     DEF SamePlacement, SameKind, Lookers, Creators, Placers, Writers, Makers, Pcs
<1>3. CASE ~(Goto(t, "insert_node") /\ UNCHANGED <<nodes, held, call, dp, tp, work>>)
  <2> DEFINE n == ip_node_map_[call[t].arg]
             e == [nodes[n] EXCEPT !.activate = TRUE]
  <2>1. /\ call[t].arg \in DOMAIN ip_node_map_ /\ Return(t)
        /\ nodes' = [nodes EXCEPT ![n] = e]
    BY <1>3 DEF CheckNode
  <2>2. n \in 1..Len(nodes) /\ NodeOK(nodes[n])
    BY <2>1 DEF PlaceInv, NodesOK
  <2>3. NodeOK(e) /\ e.ip_addr = nodes[n].ip_addr
    BY <2>2 DEF NodeOK
  <2>4. NodesOK' /\ Len(nodes) \in Nat /\ Len(nodes') = Len(nodes)
    <3> HIDE DEF e
    <3> QED
      BY <1>1, <2>1, <2>2, <2>3, ChangedNodes DEF PlaceInv
  <2>5. Others(t) /\ CallsOK' /\ WorkOK(t)'
    BY <2>1, ReturnOthers
  <2>6. WorksOK'
    BY <1>1, <2>4, <2>5, OthersWork
  <2> QED
    BY <1>1, <2>4, <2>5, <2>6, SameTables DEF PlaceInv
<1> QED
  BY <1>2, <1>3

LEMMA InsertNodePlaces ==
  ASSUME Inv, OidInv, PlaceInv, NEW t \in Threads, InsertNode(t)
  PROVE  PlaceInv'
<1> DEFINE s == call[t].arg
           n == Len(nodes) + 1
<1>1. /\ pc[t] = "insert_node" /\ Return(t) /\ UNCHANGED <<tms, asked, whole, guessed>>
      /\ nodes' = Append(nodes, NewNode(s))
      /\ ip_node_map_' = With(ip_node_map_, s, n)
  BY DEF InsertNode, catalogue, history
<1>2. s \in Servers
  BY <1>1 DEF PlaceInv, CallsOK, CallOK
<1>3. NodeOK(NewNode(s)) /\ NewNode(s).ip_addr = Ip[s]
  BY <1>2 DEF NodeOK, NewNode
<1>4. /\ IsSeq(nodes') /\ Len(nodes') = n /\ Len(nodes) \in Nat /\ nodes'[n] = NewNode(s)
      /\ \A j \in 1..Len(nodes) : nodes'[j] = nodes[j]
  BY <1>1, AppendIsSeq DEF PlaceInv, NodesOK
<1>5. /\ ip_node_map_'[s] = n
      /\ \A x \in DOMAIN ip_node_map_' : x # s => x \in DOMAIN ip_node_map_ /\ ip_node_map_'[x] = ip_node_map_[x]
  BY <1>1 DEF With
<1>6. \A j \in 1..Len(nodes') : j = n \/ j \in 1..Len(nodes)
  BY <1>4
<1> HIDE DEF n
<1>7. NodesOK'
  <2>1. \A j \in 1..Len(nodes') : NodeOK(nodes'[j])
    BY <1>3, <1>4, <1>6 DEF PlaceInv, NodesOK
  <2>2. ASSUME NEW x \in DOMAIN ip_node_map_'
        PROVE  /\ x \in Servers /\ ip_node_map_'[x] \in 1..Len(nodes')
               /\ nodes'[ip_node_map_'[x]].ip_addr = Ip[x]
    <3>1. CASE x = s
      BY <1>2, <1>3, <1>4, <1>5, <3>1 DEF n
    <3>2. CASE x # s
      BY <1>4, <1>5, <3>2 DEF PlaceInv, NodesOK, n
    <3> QED
      BY <3>1, <3>2
  <2> QED
    BY <1>4, <2>1, <2>2 DEF NodesOK, NodeOK
<1>8. Others(t) /\ CallsOK' /\ WorkOK(t)'
  BY <1>1, ReturnOthers
<1>9. Len(nodes') \in Nat /\ Len(nodes) <= Len(nodes')
  BY <1>4 DEF n
<1>10. WorksOK'
  BY <1>1, <1>4, <1>8, <1>9, OthersWork
<1> QED
  BY <1>1, <1>7, <1>8, <1>10, SameTables DEF PlaceInv

LEMMA FreshPlaces ==
  ASSUME Init PROVE PlaceInv
<1> USE DEF Init, Fresh
<1>1. CallsOK
  BY DEF CallsOK, CallOK, Lookers, Creators, Placers, Writers, Makers
<1>2. NodesOK /\ TablesOK
  BY EmptyIsSeq DEF NodesOK, TablesOK
<1>3. WorksOK
  BY DEF WorksOK, WorkOK, Placers
<1> QED
  BY <1>1, <1>2, <1>3 DEF PlaceInv

LEMMA StopPlaces ==
  ASSUME Stop PROVE PlaceInv'
<1> USE DEF Stop, Fresh
<1>1. CallsOK'
  BY DEF CallsOK, CallOK, Lookers, Creators, Placers, Writers, Makers
<1>2. NodesOK' /\ TablesOK'
  BY EmptyIsSeq DEF NodesOK, TablesOK
<1>3. WorksOK'
  BY DEF WorksOK, WorkOK, Placers
<1> QED
  BY <1>1, <1>2, <1>3 DEF PlaceInv

LEMMA HandlerPlaces ==
  ASSUME Inv, OidInv, PlaceInv, NEW t \in Threads, Handler(t)
  PROVE  PlaceInv'
<1> USE DEF SamePlacement
<1>k. /\ SameKind("lookup", "latch_db") /\ SameKind("latch_db", "find_tab")
      /\ SameKind("find_tab", "latch_tab") /\ SameKind("latch_tab", "answer")
      /\ SameKind("create", "excl_db") /\ SameKind("excl_db", "check_tab")
      /\ SameKind("check_tab", "new_tab") /\ SameKind("check_db", "insert_db")
      /\ {"lookup", "latch_db", "find_tab", "latch_tab", "answer", "create", "excl_db", "check_tab",
          "new_tab", "check_db", "insert_db"} \subseteq Pcs \ Makers
  BY DEF SameKind, Lookers, Creators, Placers, Writers, Makers, Pcs
<1>1. CASE LookupDb(t)
  <2>1. pc[t] = "lookup" /\ SamePlacement
    BY <1>1 DEF LookupDb, placement, history
  <2>2. CASE Return(t)
    BY <2>1, <2>2, QuietReturn
  <2>3. CASE ~Return(t)
    <3>1. Goto(t, "latch_db") /\ UNCHANGED <<call, tp, work>> /\ \E p : dp' = [dp EXCEPT ![t] = p]
      BY <1>1, <2>3 DEF LookupDb
    <3>2. \A u \in Threads \ {t} : dp'[u] = dp[u] /\ tp'[u] = tp[u]
      BY <3>1 DEF Inv, LatchInv, ThreadTypes
    <3> QED
      BY <1>k, <2>1, <3>1, <3>2, QuietGoto
  <2> QED
    BY <2>2, <2>3
<1>2. CASE LookupLatchDb(t)
  BY <1>2, <1>k, QuietGoto DEF LookupLatchDb, catalogue, placement, history
<1>3. CASE FindTable(t)
  <2>1. pc[t] = "find_tab" /\ SamePlacement
    BY <1>3 DEF FindTable, placement, history
  <2>2. CASE Return(t)
    BY <2>1, <2>2, QuietReturn
  <2>3. CASE ~Return(t)
    <3>1. Goto(t, "latch_tab") /\ UNCHANGED <<call, dp, work>> /\ \E p : tp' = [tp EXCEPT ![t] = p]
      BY <1>3, <2>3 DEF FindTable
    <3>2. \A u \in Threads \ {t} : dp'[u] = dp[u] /\ tp'[u] = tp[u]
      BY <3>1 DEF Inv, LatchInv, ThreadTypes
    <3> QED
      BY <1>k, <2>1, <3>1, <3>2, QuietGoto
  <2> QED
    BY <2>2, <2>3
<1>4. CASE LatchTable(t)
  BY <1>4, <1>k, QuietGoto DEF LatchTable, catalogue, placement, history
<1>5. CASE Answer(t)
  BY <1>5, QuietReturn DEF Answer, catalogue, placement, history
<1>6. CASE CreateEnter(t)
  <2>1. CASE Stop
    BY <2>1, StopPlaces
  <2>2. CASE ~Stop
    <3>1. pc[t] = "create" /\ SamePlacement
      BY <1>6, <2>2 DEF CreateEnter, catalogue, placement, history
    <3>2. CASE Return(t)
      BY <3>1, <3>2, QuietReturn
    <3>3. CASE ~Return(t)
      <4>1. Goto(t, "excl_db") /\ UNCHANGED <<call, tp, work>> /\ \E p : dp' = [dp EXCEPT ![t] = p]
        BY <1>6, <2>2, <3>3 DEF CreateEnter
      <4>2. \A u \in Threads \ {t} : dp'[u] = dp[u] /\ tp'[u] = tp[u]
        BY <4>1 DEF Inv, LatchInv, ThreadTypes
      <4> QED
        BY <1>k, <3>1, <4>1, <4>2, QuietGoto
    <3> QED
      BY <3>2, <3>3
  <2> QED
    BY <2>1, <2>2
<1>7. CASE CreateLatchDb(t)
  BY <1>7, <1>k, QuietGoto DEF CreateLatchDb, catalogue, placement, history
<1>8. CASE CheckTable(t)
  BY <1>8, <1>k, QuietReturn, QuietGoto DEF CheckTable, catalogue, placement, history
<1>9. CASE NewTable(t)
  BY <1>9, NewTablePlaces
<1>10. CASE FinishPlain(t)
  BY <1>10, FinishPlainPlaces
<1>11. CASE DescribeTable(t)
  BY <1>11, DescribeTablePlaces, StopPlaces
<1>12. CASE PlaceReplica(t)
  BY <1>12, PlaceReplicaPlaces, StopPlaces
<1>13. CASE CountReplica(t)
  BY <1>13, CountReplicaPlaces
<1>14. CASE CheckDb(t)
  BY <1>14, <1>k, QuietReturn, QuietGoto DEF CheckDb, catalogue, placement, history
<1>15. CASE InsertDb(t)
  BY <1>15, QuietReturn DEF InsertDb, placement
<1>16. CASE CheckNode(t)
  BY <1>16, CheckNodePlaces
<1>17. CASE InsertNode(t)
  BY <1>17, InsertNodePlaces
<1> QED
  BY <1>1, <1>2, <1>3, <1>4, <1>5, <1>6, <1>7, <1>8, <1>9, <1>10, <1>11, <1>12, <1>13,
     <1>14, <1>15, <1>16, <1>17 DEF Handler

LEMMA ReceivePlaces ==
  ASSUME Inv, OidInv, PlaceInv, NEW t \in Threads, Receive(t)
  PROVE  PlaceInv'
<1>1. PICK c : /\ call' = [call EXCEPT ![t] = c] /\ Goto(t, Entry(c.op))
               /\ \/ c \in LookupCalls \/ c \in CreateCalls
                  \/ c \in [op : {"CreateDataBase"}, db : Dbs]
                  \/ c \in [op : {"NodeRegister"}, arg : Servers]
  BY DEF Receive
<1>2. /\ pc[t] = "idle" /\ SamePlacement /\ UNCHANGED <<dp, tp, work>>
  BY DEF Receive, SamePlacement, catalogue, placement, history
<1>3. /\ c \in LookupCalls => Entry(c.op) = "lookup"
      /\ c \in CreateCalls => Entry(c.op) = "create"
      /\ c \in [op : {"CreateDataBase"}, db : Dbs] => Entry(c.op) = "check_db"
      /\ c \in [op : {"NodeRegister"}, arg : Servers] => Entry(c.op) = "check_node"
  BY DEF Entry, LookupCalls, CreateCalls, Lookups, Creates
<1>4. /\ pc'[t] = Entry(c.op) /\ call'[t] = c
      /\ \A u \in Threads \ {t} : pc'[u] = pc[u] /\ call'[u] = call[u]
  BY <1>1 DEF Goto, Inv, LatchInv, ThreadTypes
<1>5. CallsOK'
  <2>1. ASSUME NEW u \in Threads PROVE CallOK(u)'
    <3>1. CASE u = t
      BY <1>1, <1>3, <1>4, <3>1
         DEF CallOK, Lookers, Creators, Placers, Writers, Makers, LookupCalls, CreateCalls
    <3>2. CASE u # t
      BY <1>4, <3>2 DEF CallOK, PlaceInv, CallsOK, LookupCalls, CreateCalls
    <3> QED
      BY <3>1, <3>2
  <2> QED
    BY <2>1 DEF CallsOK
<1>6. TablesOK' /\ NodesOK' /\ Len(nodes) \in Nat /\ Len(nodes') = Len(nodes)
  BY <1>2, SameTables, SameNodes DEF SamePlacement, PlaceInv
<1>7. Others(t)
  BY <1>2, <1>4 DEF Others, OnlyMoves, PlaceInv, WorksOK
<1>8. WorkOK(t)'
  <2>1. work'[t] = NoWork
    BY <1>2 DEF PlaceInv, WorksOK, WorkOK, Placers
  <2>2. pc'[t] \in {"lookup", "create", "check_db", "check_node"}
    BY <1>1, <1>3, <1>4
  <2> QED
    BY <2>1, <2>2 DEF WorkOK, Placers
<1>9. WorksOK'
  BY <1>2, <1>6, <1>7, <1>8, OthersWork DEF SamePlacement
<1> QED
  BY <1>5, <1>6, <1>9 DEF PlaceInv

LEMMA PlaceInvInductive == Inv /\ OidInv /\ PlaceInv /\ [Next]_vars => PlaceInv'
<1> SUFFICES ASSUME Inv, OidInv, PlaceInv, [Next]_vars PROVE PlaceInv'
  OBVIOUS
<1>1. ASSUME NEW t \in Threads, Receive(t) PROVE PlaceInv'
  BY <1>1, ReceivePlaces
<1>2. ASSUME NEW t \in Threads, Handler(t) PROVE PlaceInv'
  BY <1>2, HandlerPlaces
<1>3. CASE Stop
  BY <1>3, StopPlaces
<1>4. CASE UNCHANGED <<catalogue, placement, thread, history>>
  <2>1. UNCHANGED <<tms, asked, whole, guessed, ip_node_map_, nodes, pc, call, tp, work>>
    BY <1>4 DEF catalogue, placement, thread, history
  <2>2. TablesOK' /\ NodesOK'
    BY <2>1, SameTables, SameNodes DEF PlaceInv
  <2>3. CallsOK' /\ WorksOK'
    BY <2>1 DEF PlaceInv, CallsOK, CallOK, WorksOK, WorkOK, LookupCalls, CreateCalls
  <2> QED
    BY <2>2, <2>3 DEF PlaceInv
<1> QED
  BY <1>1, <1>2, <1>3, <1>4 DEF Next, vars, SaveLock, SaveFails, SaveOpen, SaveWrite

(***************************************************************************)
(* Types.                                                                  *)
(***************************************************************************)

Names ==
  /\ DOMAIN db_map_ \subseteq Dbs
  /\ \A d \in 1..Len(tabs) : DOMAIN tabs[d] \subseteq Tables
  /\ guessed \subseteq 1..Len(tms) /\ replaced \subseteq Dbs /\ miscounted \subseteq Servers
Pointers == \A t \in Threads : dp[t] \in 0..Len(tabs) /\ tp[t] \in 0..Len(tms)
LatchesExist == \A h \in held : h[2] \in Latches

TypeInv == Names /\ Pointers /\ LatchesExist /\ saver \in {"sleep", "open", "write"}

\* Objects are only added.
Grows ==
  /\ Len(tabs) \in Nat /\ Len(tabs') \in Nat /\ Len(tabs) <= Len(tabs')
  /\ Len(tms) \in Nat /\ Len(tms') \in Nat /\ Len(tms) <= Len(tms')

LEMMA LatchesGrow ==
  ASSUME Inv, Inv', Grows
  PROVE  Latches \subseteq Latches'
<1>1. /\ DOMAIN tabs = 1..Len(tabs) /\ DOMAIN tabs' = 1..Len(tabs')
      /\ DOMAIN tms = 1..Len(tms) /\ DOMAIN tms' = 1..Len(tms')
  BY DEF Inv, MapInv, Pointed, IsSeq
<1>2. DOMAIN tabs \subseteq DOMAIN tabs' /\ DOMAIN tms \subseteq DOMAIN tms'
  BY <1>1 DEF Grows
<1> QED
  BY <1>2 DEF Latches, DMS, TMS, MS

LEMMA ReturnTypes ==
  ASSUME Inv, Inv', TypeInv, NEW t \in Threads, Return(t), Grows, Names', UNCHANGED saver
  PROVE  TypeInv'
<1>1. Pointers'
  BY DEF TypeInv, Pointers, Return, Grows, Inv, LatchInv, ThreadTypes
<1>2. LatchesExist'
  BY LatchesGrow DEF TypeInv, LatchesExist, Return
<1> QED
  BY <1>1, <1>2 DEF TypeInv

LEMMA GotoTypes ==
  ASSUME Inv, Inv', TypeInv, NEW t \in Threads, Grows, Names', UNCHANGED saver,
         \A u \in Threads \ {t} : dp'[u] = dp[u] /\ tp'[u] = tp[u],
         dp'[t] \in 0..Len(tabs'), tp'[t] \in 0..Len(tms'),
         NEW l \in Latches', \A h \in held' : h \in held \/ h[2] = l
  PROVE  TypeInv'
<1>1. Pointers'
  BY DEF TypeInv, Pointers, Grows
<1>2. LatchesExist'
  BY LatchesGrow DEF TypeInv, LatchesExist
<1> QED
  BY <1>1, <1>2 DEF TypeInv

LEMMA FreshTypes ==
  ASSUME Init PROVE TypeInv
BY EmptyIsSeq DEF Init, Fresh, TypeInv, Names, Pointers, LatchesExist

LEMMA StopTypes ==
  ASSUME Stop PROVE TypeInv'
BY EmptyIsSeq DEF Stop, Fresh, TypeInv, Names, Pointers, LatchesExist

LEMMA HandlerTypes ==
  ASSUME Inv, Inv', PlaceInv, TypeInv, NEW t \in Threads, Handler(t)
  PROVE  TypeInv'
\* What most handlers leave alone.
<1> DEFINE Alone == UNCHANGED <<db_map_, tabs, tms, guessed, replaced, miscounted, saver>>
<1>0. /\ Len(tabs) \in Nat /\ Len(tms) \in Nat /\ Len(tabs') \in Nat /\ Len(tms') \in Nat
      /\ DOMAIN tabs = 1..Len(tabs) /\ DOMAIN tms = 1..Len(tms)
      /\ DOMAIN tabs' = 1..Len(tabs') /\ DOMAIN tms' = 1..Len(tms')
  BY DEF Inv, MapInv, Pointed, IsSeq
<1>a. Alone => Grows /\ Names'
  BY <1>0 DEF Grows, TypeInv, Names
<1>r. Alone /\ Return(t) => TypeInv'
  BY <1>a, ReturnTypes
<1>p. dp[t] \in 0..Len(tabs) /\ tp[t] \in 0..Len(tms)
  BY DEF TypeInv, Pointers
<1>l. /\ MS \in Latches'
      /\ \A i \in 1..Len(tabs') : DMS(i) \in Latches'
      /\ \A i \in 1..Len(tms') : TMS(i) \in Latches'
  BY <1>0 DEF Latches
<1>u. /\ \A p : dp' = [dp EXCEPT ![t] = p] => dp'[t] = p /\ \A u \in Threads \ {t} : dp'[u] = dp[u]
      /\ \A p : tp' = [tp EXCEPT ![t] = p] => tp'[t] = p /\ \A u \in Threads \ {t} : tp'[u] = tp[u]
  BY DEF Inv, LatchInv, ThreadTypes
<1>g. ASSUME Alone, UNCHANGED <<dp, tp>>, NEW l \in Latches', \A h \in held' : h \in held \/ h[2] = l
      PROVE  TypeInv'
  BY <1>a, <1>g, <1>p, GotoTypes
<1>d. pc[t] \in InDb => dp[t] \in 1..Len(tabs)
  BY DEF Inv, MapInv, ThreadsPointed, AtDb
<1>t. pc[t] \in Makers \cup {"latch_tab", "answer"} => tp[t] \in 1..Len(tms)
  BY DEF Inv, MapInv, ThreadsPointed
<1>c. /\ pc[t] \in Lookers \cup Creators => call[t].db \in Dbs /\ call[t].tab \in Tables
      /\ pc[t] \in {"check_db", "insert_db"} => call[t].db \in Dbs
      /\ pc[t] \in {"check_node", "insert_node"} => call[t].arg \in Servers
  BY DEF PlaceInv, CallsOK, CallOK, LookupCalls, CreateCalls
<1>m. \A db \in DOMAIN db_map_ : db_map_[db] \in 0..Len(tabs)
  BY DEF Inv, MapInv, Pointed
<1> HIDE DEF Alone
<1>1. CASE LookupDb(t)
  <2> DEFINE db == call[t].db
             p == IF db \in DOMAIN db_map_ THEN db_map_[db] ELSE 0
  <2>1. /\ pc[t] = "lookup" /\ db_map_' = With(db_map_, db, p)
        /\ UNCHANGED <<tabs, tms, guessed, replaced, miscounted, saver>>
    BY <1>1 DEF LookupDb, placement, history
  <2>2. db \in Dbs /\ p \in 0..Len(tabs)
    BY <1>0, <1>c, <1>m, <2>1 DEF Lookers
  <2>3. Names' /\ Grows
    BY <1>0, <2>1, <2>2 DEF TypeInv, Names, Grows, With
  <2>4. CASE Return(t)
    BY <2>1, <2>3, <2>4, ReturnTypes
  <2>5. CASE ~Return(t)
    <3>1. dp' = [dp EXCEPT ![t] = p] /\ tp' = tp /\ held' = held \cup {Shared(t, MS)}
      BY <1>1, <2>5 DEF LookupDb
    <3>2. dp'[t] = p /\ \A u \in Threads \ {t} : dp'[u] = dp[u]
      BY <1>u, <3>1
    <3> HIDE DEF p
    <3> QED
      BY <1>l, <1>p, <2>1, <2>2, <2>3, <3>1, <3>2, GotoTypes DEF Shared
  <2> QED
    BY <2>4, <2>5
<1>2. CASE LookupLatchDb(t)
  BY <1>2, <1>d, <1>g, <1>l DEF Alone, LookupLatchDb, catalogue, placement, history, Shared, InDb
<1>3. CASE FindTable(t)
  <2> DEFINE d == dp[t]
             tab == call[t].tab
             p == IF tab \in DOMAIN tabs[d] THEN tabs[d][tab] ELSE 0
             entries == With(tabs[d], tab, p)
  <2>1. /\ pc[t] = "find_tab" /\ tabs' = [tabs EXCEPT ![d] = entries]
        /\ UNCHANGED <<db_map_, tms, guessed, replaced, miscounted, saver>>
    BY <1>3 DEF FindTable, placement, history
  <2>2. tab \in Tables /\ d \in 1..Len(tabs)
    BY <1>c, <1>d, <2>1 DEF Lookers, InDb, Readers
  <2>3. p \in 0..Len(tms) /\ DOMAIN entries \subseteq Tables
    BY <1>0, <2>2 DEF Inv, MapInv, Pointed, TypeInv, Names, With
  <2>4. Len(tabs') = Len(tabs) /\ \A j \in 1..Len(tabs) : tabs'[j] = tabs[j] \/ tabs'[j] = entries
    <3> HIDE DEF entries, d
    <3> QED
      BY <2>1, <2>2, TabsStaySeq DEF Inv, MapInv, Pointed
  <2>5. Names' /\ Grows
    <3> HIDE DEF entries, d
    <3> QED
      BY <1>0, <2>1, <2>3, <2>4 DEF TypeInv, Names, Grows
  <2>6. CASE Return(t)
    BY <2>1, <2>5, <2>6, ReturnTypes
  <2>7. CASE ~Return(t)
    <3>1. tp' = [tp EXCEPT ![t] = p] /\ dp' = dp /\ held' = held
      BY <1>3, <2>7 DEF FindTable
    <3>2. tp'[t] = p /\ \A u \in Threads \ {t} : tp'[u] = tp[u]
      BY <1>u, <3>1
    <3> HIDE DEF p, d, entries
    <3> QED
      BY <1>l, <1>p, <2>1, <2>3, <2>4, <2>5, <3>1, <3>2, GotoTypes
  <2> QED
    BY <2>6, <2>7
<1>4. CASE LatchTable(t)
  BY <1>4, <1>t, <1>g, <1>l DEF Alone, LatchTable, catalogue, placement, history, Shared, Exclusive
<1>5. CASE Answer(t)
  BY <1>5, <1>r DEF Alone, Answer, catalogue, placement, history
<1>6. CASE CreateEnter(t)
  <2>1. CASE Stop
    BY <2>1, StopTypes
  <2>2. CASE Return(t) /\ ~Stop
    BY <1>6, <2>2, <1>r DEF Alone, CreateEnter, catalogue, placement, history
  <2>3. CASE ~Return(t) /\ ~Stop
    <3> DEFINE p == db_map_[call[t].db]
    <3>1. /\ pc[t] = "create" /\ dp' = [dp EXCEPT ![t] = p] /\ tp' = tp
          /\ held' = held \cup {Shared(t, MS)} /\ call[t].db \in DOMAIN db_map_ /\ Alone
      BY <1>6, <2>3 DEF Alone, CreateEnter, catalogue, placement, history
    <3>2. p \in 0..Len(tabs') /\ UNCHANGED saver
      BY <1>m, <3>1 DEF Alone
    <3>3. dp'[t] = p /\ \A u \in Threads \ {t} : dp'[u] = dp[u]
      BY <1>u, <3>1
    <3>4. tp'[t] \in 0..Len(tms')
      BY <1>p, <3>1 DEF Alone
    <3> HIDE DEF p
    <3> QED
      BY <1>a, <1>l, <3>1, <3>2, <3>3, <3>4, GotoTypes DEF Shared
  <2> QED
    BY <2>1, <2>2, <2>3
<1>7. CASE CreateLatchDb(t)
  BY <1>7, <1>d, <1>g, <1>l DEF Alone, CreateLatchDb, catalogue, placement, history, Exclusive, InDb
<1>8. CASE CheckTable(t)
  BY <1>8, <1>r, <1>g, <1>l DEF Alone, CheckTable, catalogue, placement, history
<1>9. CASE NewTable(t)
  <2> DEFINE p == db_map_[call[t].db]
             i == Len(tms) + 1
             entries == With(tabs[p], call[t].tab, i)
  <2>1. /\ pc[t] = "new_tab" /\ tp' = [tp EXCEPT ![t] = i] /\ dp' = dp /\ held' = held
        /\ tabs' = [tabs EXCEPT ![p] = entries] /\ \E e : tms' = Append(tms, e)
        /\ UNCHANGED <<db_map_, guessed, replaced, miscounted, saver>>
    BY <1>9 DEF NewTable, placement
  <2>2. p \in 1..Len(tabs) /\ call[t].tab \in Tables
    BY <1>c, <1>m, <2>1 DEF Inv, MapInv, ThreadsPointed, AtDb, InDb, Writers, Creators
  <2>3. Len(tms') = i
    BY <2>1, AppendIsSeq DEF Inv, MapInv, Pointed
  <2>4. DOMAIN entries \subseteq Tables
    BY <2>2 DEF TypeInv, Names, With
  <2> HIDE DEF entries, p, i
  <2>5. Len(tabs') = Len(tabs) /\ \A j \in 1..Len(tabs) : tabs'[j] = tabs[j] \/ tabs'[j] = entries
    BY <2>1, <2>2, TabsStaySeq DEF Inv, MapInv, Pointed
  <2>6. Names' /\ Grows
    BY <1>0, <2>1, <2>3, <2>4, <2>5 DEF TypeInv, Names, Grows, i
  <2>7. tp'[t] = i /\ (\A u \in Threads \ {t} : tp'[u] = tp[u]) /\ i \in 0..Len(tms')
    <3>1. tp'[t] = i /\ \A u \in Threads \ {t} : tp'[u] = tp[u]
      BY <1>u, <2>1
    <3> QED
      BY <1>0, <2>3, <3>1 DEF i
  <2> QED
    BY <1>l, <1>p, <2>1, <2>5, <2>6, <2>7, GotoTypes
<1>10. CASE FinishPlain(t)
  BY <1>10, <1>r DEF Alone, FinishPlain, placement
<1>11. CASE DescribeTable(t)
  <2>1. CASE Stop
    BY <2>1, StopTypes
  <2>2. CASE ~Stop
    <3>1. /\ pc[t] = "set_oid" /\ \E e : tms' = [tms EXCEPT ![tp[t]] = e]
          /\ UNCHANGED <<db_map_, tabs, held, dp, tp, guessed, replaced, miscounted, saver>>
      BY <1>11, <2>2 DEF DescribeTable, placement, history
    <3>2. Len(tms') = Len(tms)
      BY <1>t, <3>1, TmsStaySeq DEF Inv, MapInv, Pointed, Makers
    <3>3. Names' /\ Grows
      BY <1>0, <3>1, <3>2 DEF TypeInv, Names, Grows
    <3> QED
      BY <1>l, <1>p, <3>1, <3>2, <3>3, GotoTypes
  <2> QED
    BY <2>1, <2>2
<1>12. CASE PlaceReplica(t)
  <2>1. CASE Stop
    BY <2>1, StopTypes
  <2>2. CASE ~Stop
    <3>1. /\ pc[t] = "place" /\ (guessed' = guessed \/ guessed' = guessed \cup {tp[t]})
          /\ UNCHANGED <<db_map_, tabs, tms, held, dp, tp, replaced, saver>>
      BY <1>12, <2>2, Zenon DEF PlaceReplica, catalogue
    <3>0. \E n : miscounted' = miscounted \/ miscounted' = miscounted \cup Behind(n)
      BY <1>12, <2>2, Zenon DEF PlaceReplica
    <3>m. miscounted' \subseteq Servers
      BY <3>0 DEF Behind, TypeInv, Names
    <3>2. Names' /\ Grows
      <4>1. guessed' \subseteq 1..Len(tms')
        BY <1>t, <3>1 DEF TypeInv, Names, Makers
      <4> QED
        BY <1>0, <3>1, <3>m, <4>1 DEF TypeInv, Names, Grows
    <3> QED
      BY <1>l, <1>p, <3>1, <3>2, GotoTypes
  <2> QED
    BY <2>1, <2>2
<1>13. CASE CountReplica(t)
  <2>1. /\ pc[t] = "count" /\ (tms' = tms \/ \E e : tms' = [tms EXCEPT ![tp[t]] = e])
        /\ UNCHANGED <<db_map_, tabs, guessed, replaced, miscounted, saver>>
        /\ Return(t) \/ UNCHANGED <<held, dp, tp>>
    BY <1>13 DEF CountReplica
  <2>2. Len(tms') = Len(tms)
    BY <1>t, <2>1, TmsStaySeq DEF Inv, MapInv, Pointed, Makers
  <2>3. Names' /\ Grows
    BY <1>0, <2>1, <2>2 DEF TypeInv, Names, Grows
  <2>4. CASE Return(t)
    BY <2>1, <2>3, <2>4, ReturnTypes
  <2>5. CASE UNCHANGED <<held, dp, tp>>
    BY <1>l, <1>p, <2>1, <2>2, <2>3, <2>5, GotoTypes
  <2> QED
    BY <2>1, <2>4, <2>5
<1>14. CASE CheckDb(t)
  BY <1>14, <1>r, <1>g, <1>l DEF Alone, CheckDb, catalogue, placement, history
<1>15. CASE InsertDb(t)
  <2>1. /\ pc[t] = "insert_db" /\ Return(t) /\ tabs' = Append(tabs, <<>>)
        /\ db_map_' = With(db_map_, call[t].db, Len(tabs) + 1)
        /\ replaced' = replaced \/ replaced' = replaced \cup {call[t].db}
        /\ UNCHANGED <<tms, guessed, miscounted, saver>>
    BY <1>15, Zenon DEF InsertDb, placement
  <2>2. /\ Len(tabs') = Len(tabs) + 1 /\ tabs'[Len(tabs) + 1] = <<>>
        /\ \A d \in 1..Len(tabs) : tabs'[d] = tabs[d]
    BY <2>1, AppendIsSeq DEF Inv, MapInv, Pointed
  <2>3. DOMAIN db_map_' \subseteq Dbs /\ replaced' \subseteq Dbs
    BY <1>c, <2>1 DEF With, TypeInv, Names
  <2>4. \A d \in 1..Len(tabs') : DOMAIN tabs'[d] \subseteq Tables
    BY <1>0, <2>2 DEF TypeInv, Names
  <2>5. Names' /\ Grows
    BY <1>0, <2>1, <2>2, <2>3, <2>4 DEF TypeInv, Names, Grows
  <2> QED
    BY <2>1, <2>5, ReturnTypes
<1>16. CASE CheckNode(t)
  BY <1>16, <1>r, <1>g, <1>l DEF Alone, CheckNode, catalogue, history
<1>17. CASE InsertNode(t)
  <2>1. /\ pc[t] = "insert_node" /\ Return(t)
        /\ miscounted' = miscounted \/ miscounted' = miscounted \cup {call[t].arg}
        /\ UNCHANGED <<db_map_, tabs, tms, guessed, replaced, saver>>
    BY <1>17, Zenon DEF InsertNode, catalogue, history
  <2>2. Names' /\ Grows
    BY <1>0, <1>c, <2>1 DEF TypeInv, Names, Grows
  <2> QED
    BY <2>1, <2>2, ReturnTypes
<1> QED
  BY <1>1, <1>2, <1>3, <1>4, <1>5, <1>6, <1>7, <1>8, <1>9, <1>10, <1>11, <1>12, <1>13,
     <1>14, <1>15, <1>16, <1>17 DEF Handler

LEMMA TypeInvInductive == Inv /\ Inv' /\ PlaceInv /\ TypeInv /\ [Next]_vars => TypeInv'
<1> SUFFICES ASSUME Inv, Inv', PlaceInv, TypeInv, [Next]_vars PROVE TypeInv'
  OBVIOUS
<1>1. ASSUME NEW t \in Threads, Receive(t) PROVE TypeInv'
  <2>1. UNCHANGED <<db_map_, tabs, tms, held, dp, tp, saver, guessed, replaced, miscounted>>
    BY <1>1 DEF Receive, catalogue, placement, history
  <2> QED
    BY <2>1 DEF TypeInv, Names, Pointers, LatchesExist, Latches
<1>2. ASSUME NEW t \in Threads, Handler(t) PROVE TypeInv'
  BY <1>2, HandlerTypes
<1>3. CASE Stop
  BY <1>3, StopTypes
<1>4. CASE (SaveLock \/ SaveFails \/ SaveOpen \/ SaveWrite) /\ ~Stop
  <2>1. UNCHANGED <<db_map_, tabs, tms, dp, tp, guessed, replaced, miscounted>>
    BY <1>4 DEF SaveLock, SaveFails, SaveOpen, SaveWrite, catalogue, placement, thread, history
  <2>2. saver' \in {"sleep", "open", "write"} /\ \A h \in held' : h \in held \/ h = Exclusive(Saver, MS)
    BY <1>4 DEF SaveLock, SaveFails, SaveOpen, SaveWrite, SaveUnlock
  <2>3. LatchesExist'
    BY <2>1, <2>2 DEF TypeInv, LatchesExist, Latches, Exclusive
  <2> QED
    BY <2>1, <2>2, <2>3 DEF TypeInv, Names, Pointers
<1>5. CASE UNCHANGED vars
  BY <1>5 DEF vars, catalogue, placement, thread, history, TypeInv, Names, Pointers, LatchesExist,
              Latches
<1> QED
  BY <1>1, <1>2, <1>3, <1>4, <1>5 DEF Next

(***************************************************************************)
(* Theorems.                                                               *)
(***************************************************************************)

\* The inductive invariant holds always.
THEOREM InvAlways == Spec => []Inv
<1>1. Init => Inv
  BY FreshLatches, FreshMap DEF Inv
<1> QED
  BY <1>1, InvInductive, PTL DEF Spec

\* A latch of the meta server has one writer or only readers, and a call that
\* ended holds none, for any number of RPC threads.
THEOREM LatchesAlwaysSound == Spec => []LatchesSound
<1>1. Inv => LatchesSound
  BY DEF Inv, LatchInv
<1> QED
  BY <1>1, InvAlways, PTL

\* No lookup ever answers from a table that is still being created, although
\* it is in the map by then: latch coupling keeps readers out of the database
\* until the table is finished, as long as the database is created only once.
THEOREM OnlyWholeTablesRead == Spec => []ReadersSeeWholeTables
<1>1. Inv => ReadersSeeWholeTables
  BY DEF Inv, MapInv
<1> QED
  BY <1>1, InvAlways, PTL

\* The tables of a database never share an oid, and next_oid is above those of
\* its finished tables, for any number of threads creating tables at once, as
\* long as the database is created only once.
THEOREM OidsAlwaysUnique == Spec => []OidsUnique
<1>1. Init => Inv /\ OidInv
  BY FreshLatches, FreshMap, FreshOidInv DEF Inv
<1>2. Inv /\ OidInv => OidsUnique
  <2> SUFFICES ASSUME Inv, OidInv,
                      NEW db \in DOMAIN db_map_, db_map_[db] # 0,
                      NEW x \in DOMAIN Current(db), NEW y \in DOMAIN Current(db),
                      Current(db)[x] # 0, Current(db)[y] # 0
               PROVE  /\ x # y => tms[Current(db)[x]].oid # tms[Current(db)[y]].oid
                      /\ Current(db)[x] \in whole => tms[Current(db)[x]].oid < next_oid[db_map_[db]]
    BY DEF OidsUnique
  <2>1. db \notin replaced /\ Current(db) = tabs[db_map_[db]]
    BY DEF Current
  <2>2. BelowNext(db, Current(db)[x])
    BY <2>1 DEF OidInv, OidsBelow
  <2>3. Current(db)[x] \in whole => ~Naming(db, Current(db)[x])
    BY DEF OidInv, OwnTables, Naming, Makers
  <2> QED
    BY <2>1, <2>2, <2>3 DEF OidInv, OidsDistinct, BelowNext
<1> QED
  BY <1>1, <1>2, InvInductive, OidInvInductive, PTL DEF Spec

\* The invariants together.
THEOREM PlaceInvAlways == Spec => [](Inv /\ OidInv /\ PlaceInv)
<1>1. Init => Inv /\ OidInv /\ PlaceInv
  BY FreshLatches, FreshMap, FreshOidInv, FreshPlaces DEF Inv
<1> QED
  BY <1>1, InvInductive, OidInvInductive, PlaceInvInductive, PTL DEF Spec

\* The replicas of every partition have different addresses and exactly one
\* leader, whatever nodes register and whichever tables are placed at the same
\* time, as long as CreatePartitionTable used no uninitialised pointer.
THEOREM ReplicasAreDistinct == Spec => []DistinctReplicas
<1>1. Inv /\ PlaceInv => DistinctReplicas
  <2> SUFFICES ASSUME Inv, PlaceInv, NEW i \in DOMAIN tms \ guessed,
                      NEW l \in DOMAIN tms[i].table_location
               PROVE  LET r == tms[i].table_location[l].replicas
                      IN  /\ \A j, k \in DOMAIN r : j # k => r[j].ip_addr # r[k].ip_addr
                          /\ Cardinality({j \in DOMAIN r : r[j].role = Leader}) = 1
    BY DEF DistinctReplicas
  <2> DEFINE r == tms[i].table_location[l].replicas
  <2>1. i \in 1..Len(tms)
    BY DEF Inv, MapInv, Pointed, IsSeq
  <2>2. Located(tms[i], TRUE)
    BY <2>1 DEF PlaceInv, TablesOK, TableOK
  <2>3. l \in 1..Len(tms[i].table_location)
    BY <2>2 DEF Located, IsSeq
  <2>4. r # <<>> /\ Ranked(r) /\ Spread(r)
    BY <2>2, <2>3 DEF Located
  <2> HIDE DEF r
  <2>5. DOMAIN r = 1..Len(r) /\ Len(r) \in Nat /\ Len(r) # 0
    BY <2>4 DEF Ranked, IsSeq
  <2>6. {j \in DOMAIN r : r[j].role = Leader} = {1}
    BY <2>4, <2>5 DEF Ranked, Leader, Follower
  <2>7. Cardinality({j \in DOMAIN r : r[j].role = Leader}) = 1
    BY <2>6, FS_Singleton
  <2> QED
    BY <2>4, <2>5, <2>7 DEF Spread, r
<1> QED
  BY <1>1, PlaceInvAlways, PTL

\* A partition that has a location has a leader.
LEMMA PlacedHasLeader ==
  ASSUME NEW tab, Located(tab, FALSE), NEW l \in 1..Len(tab.table_location)
  PROVE  getReplicaLocation(tab, l - 1) # NoReplica
<1> DEFINE locs == {k \in DOMAIN tab.table_location : tab.table_location[k].p_id = l - 1}
           replicas == tab.table_location[Min(locs)].replicas
           leaders == {k \in DOMAIN replicas : replicas[k].role = Leader}
<1>1. locs = {l}
  BY DEF Located, IsSeq
<1>2. Min(locs) = l
  <2>1. l \in locs /\ \A y \in locs : l <= y
    BY <1>1
  <2>2. Min(locs) \in locs
    BY <2>1 DEF Min
  <2> QED
    BY <1>1, <2>2
<1>3. replicas # <<>> /\ Ranked(replicas)
  BY <1>2 DEF Located
<1> HIDE DEF locs, replicas
<1>4. DOMAIN replicas = 1..Len(replicas) /\ Len(replicas) \in Nat /\ Len(replicas) # 0
  BY <1>3 DEF Ranked, IsSeq
<1>5. leaders = {1}
  BY <1>3, <1>4 DEF Ranked, Leader, Follower
<1>6. Min(leaders) = 1
  <2>1. 1 \in leaders /\ \A y \in leaders : 1 <= y
    BY <1>5
  <2>2. Min(leaders) \in leaders
    BY <2>1 DEF Min
  <2> QED
    BY <1>5, <2>2
<1>7. replicas[1].ip_addr # NoReplica
  BY <1>3, <1>4, MetaAssumption DEF Ranked
<1>8. getReplicaLocation(tab, l - 1) = IF locs = {} \/ leaders = {} THEN NoReplica
                                        ELSE replicas[Min(leaders)].ip_addr
  BY DEF getReplicaLocation, locs, replicas
<1> QED
  BY <1>1, <1>5, <1>6, <1>7, <1>8

\* A lookup answers a leader for every partition that may hold a key of the
\* range it asks for, on either side of every boundary, for any ranges, hash
\* function and number of partitions, unless the table was stored with another
\* type of partition than the one asked for.
THEOREM LookupsCover == Spec => []LookupCovers
<1>1. OidInv /\ PlaceInv => LookupCovers
  <2> SUFFICES ASSUME OidInv, PlaceInv, NEW t \in Threads, pc[t] = "answer", tp[t] \in whole,
                      tms[tp[t]].partition_type \in {asked[tp[t]], NONE_PARTITION},
                      NEW p \in AllPartitions(tms[tp[t]]),
                      NEW lo \in KeyValues(tms[tp[t]]), NEW hi \in KeyValues(tms[tp[t]]),
                      NEW k \in lo..hi, Holds(tms[tp[t]], asked[tp[t]], p, k)
               PROVE  /\ p \in Selected(tms[tp[t]], lo, hi)
                      /\ getReplicaLocationList(tms[tp[t]], lo, hi)[p] # NoReplica
    BY DEF LookupCovers
  <2> DEFINE tab == tms[tp[t]]
             type == asked[tp[t]]
  <2>1. tp[t] \in 1..Len(tms) /\ TableOK(tp[t])
    BY DEF OidInv, OwnTables, PlaceInv, TablesOK
  <2>2. tab.partitions # <<>>
    BY DEF AllPartitions
  <2>3. PICK req \in PartitionRequests :
          /\ req.range # <<>> /\ type = req.partition_type
          /\ tab.partition_type = TypeStored(req)
          /\ tab.partitions = [i \in 1..req.partition_cnt |->
               [p_id |-> i - 1, min_range |-> req.range[i].min_range,
                max_range |-> req.range[i].max_range]]
    BY <2>1, <2>2 DEF TableOK, Described
  <2>4. Located(tab, FALSE) /\ Len(tab.table_location) = Len(tab.partitions)
    BY <2>1 DEF TableOK, Located
  <2> HIDE DEF tab, type
  <2>5. /\ req.partition_cnt \in Nat \ {0} /\ Len(req.range) = req.partition_cnt
        /\ req.range \in Seq([min_range : Nat, max_range : Nat])
    BY <2>3, MetaAssumption
  <2>6. /\ DOMAIN tab.partitions = 1..req.partition_cnt /\ Len(tab.partitions) = req.partition_cnt
        /\ \A i \in 1..req.partition_cnt :
             /\ tab.partitions[i].p_id = i - 1
             /\ tab.partitions[i].min_range \in Nat /\ tab.partitions[i].max_range \in Nat
    <3>1. DOMAIN tab.partitions = 1..req.partition_cnt /\ Len(tab.partitions) = req.partition_cnt
      BY <2>3, <2>5
    <3>2. ASSUME NEW i \in 1..req.partition_cnt
          PROVE  /\ tab.partitions[i].p_id = i - 1
                 /\ tab.partitions[i].min_range \in Nat /\ tab.partitions[i].max_range \in Nat
      <4>1. req.range[i] \in [min_range : Nat, max_range : Nat]
        <5> DEFINE S == [min_range : Nat, max_range : Nat]
                   range == req.range
        <5>1. range \in Seq(S) /\ i \in 1..Len(range)
          BY <2>5
        <5> HIDE DEF S, range
        <5>2. range[i] \in S
          BY <5>1
        <5> QED
          BY <5>2 DEF S, range
      <4>2. tab.partitions[i] = [p_id |-> i - 1, min_range |-> req.range[i].min_range,
                                 max_range |-> req.range[i].max_range]
        BY <2>3
      <4> QED
        BY <4>1, <4>2
    <3> QED
      BY <3>1, <3>2
  <2>7. PICK l \in 1..req.partition_cnt : p = l - 1 /\ p + 1 = l
    BY <2>6 DEF AllPartitions, tab
  <2>8. lo \in Nat /\ hi \in Nat /\ k \in Nat /\ lo <= k /\ k <= hi
    BY <2>5, <2>6 DEF KeyValues, tab
  <2>9. p \in Selected(tab, lo, hi)
    <3>1. CASE tab.partition_type = RANGE_PARTITION
      <4>1. type = RANGE_PARTITION
        BY <3>1 DEF tab, type, RANGE_PARTITION, NONE_PARTITION
      <4>2. tab.partitions[l].min_range <= k /\ k <= tab.partitions[l].max_range
        BY <2>7, <4>1 DEF Holds, tab, type
      <4>3. tab.partitions[l].min_range <= hi /\ tab.partitions[l].max_range >= lo
        BY <2>6, <2>7, <2>8, <4>2
      <4>4. p \in ByRange(tab, lo, hi)
        BY <2>6, <2>7, <4>3 DEF ByRange
      <4> QED
        BY <3>1, <4>4 DEF Selected, RANGE_PARTITION, HASH_PARTITION
    <3>2. CASE tab.partition_type = HASH_PARTITION
      <4>1. type # RANGE_PARTITION
        BY <3>2 DEF tab, type, RANGE_PARTITION, NONE_PARTITION, HASH_PARTITION
      <4>2. p = HashPartition(tab, k)
        BY <4>1 DEF Holds, tab, type
      <4>3. lo = hi => k = lo
        BY <2>8
      <4>4. p \in ByHash(tab, lo, hi)
        BY <4>2, <4>3 DEF ByHash, tab
      <4> QED
        BY <3>2, <4>4 DEF Selected, RANGE_PARTITION, HASH_PARTITION
    <3>3. CASE tab.partition_type \notin {RANGE_PARTITION, HASH_PARTITION}
      BY <3>3 DEF Selected, tab
    <3> QED
      BY <3>1, <3>2, <3>3
  <2>10. getReplicaLocation(tab, p) # NoReplica
    BY <2>4, <2>6, <2>7, PlacedHasLeader
  <2> QED
    BY <2>9, <2>10 DEF getReplicaLocationList, tab
<1> QED
  BY <1>1, PlaceInvAlways, PTL

\* The type invariant: what the maps, the threads and the latches name exists.
THEOREM TypeCorrect == Spec => []TypeOK
<1>1. Init => TypeInv
  BY FreshTypes
<1>2. Inv /\ OidInv /\ PlaceInv /\ TypeInv => TypeOK
  <2> SUFFICES ASSUME Inv, OidInv, PlaceInv, TypeInv PROVE TypeOK
    OBVIOUS
  <2>1. DOMAIN tabs = 1..Len(tabs) /\ DOMAIN tms = 1..Len(tms) /\ DOMAIN nodes = 1..Len(nodes)
    BY DEF Inv, MapInv, Pointed, PlaceInv, NodesOK, IsSeq
  <2>2. next_oid \in Seq(Nat) /\ Len(next_oid) = Len(tabs)
    <3>1. PICK S : next_oid \in Seq(S)
      BY DEF OidInv, OidTypes, IsSeq
    <3>2. \A i \in 1..Len(next_oid) : next_oid[i] \in Nat
      BY DEF OidInv, OidTypes
    <3> QED
      BY <3>1, <3>2 DEF OidInv, OidTypes
  <2>3. DOMAIN asked = DOMAIN tms
    BY <2>1 DEF PlaceInv, TablesOK, IsSeq
  <2>4. \A db \in DOMAIN db_map_ : db_map_[db] \in 0..Len(tabs)
    BY DEF Inv, MapInv, Pointed
  <2>5. \A i \in DOMAIN tabs : /\ DOMAIN tabs[i] \subseteq Tables
                               /\ \A x \in DOMAIN tabs[i] : tabs[i][x] \in 0..Len(tms)
    BY <2>1 DEF Inv, MapInv, Pointed, TypeInv, Names
  <2>6. \A i \in DOMAIN tms : tms[i].oid \in Nat
    BY <2>1 DEF OidInv, OidTypes
  <2>7. whole \cup guessed \subseteq DOMAIN tms
    BY <2>1 DEF OidInv, OwnTables, TypeInv, Names
  <2>8. \A s \in DOMAIN ip_node_map_ : s \in Servers /\ ip_node_map_[s] \in DOMAIN nodes
    BY <2>1 DEF PlaceInv, NodesOK
  <2>9. \A h \in held : h[1] \in Actors /\ h[2] \in Latches
    BY DEF Inv, LatchInv, Holdings, TypeInv, LatchesExist
  <2> QED
    BY <2>2, <2>3, <2>4, <2>5, <2>6, <2>7, <2>8, <2>9
       DEF TypeOK, TypeInv, Names, Pointers, Inv, LatchInv, ThreadTypes
<1> QED
  BY <1>1, <1>2, TypeInvInductive, PlaceInvAlways, PTL DEF Spec

(***************************************************************************)
(* Induction along a sequence: the least place where a claim fails.        *)
(***************************************************************************)

LessThan == {p \in Nat \X Nat : p[1] < p[2]}

\* A set of numbers up to n that has 0, and each number behind one it has.
LEMMA Climb ==
  ASSUME NEW n \in Nat, NEW S, 0 \in S, \A k \in 1..n : k - 1 \in S => k \in S
  PROVE  \A k \in 0..n : k \in S
<1> DEFINE C == {k \in 0..n : k \notin S}
<1>1. SUFFICES ASSUME C # {} PROVE FALSE
  OBVIOUS
<1>2. IsWellFoundedOn(LessThan, Nat)
  BY NatLessThanWellFounded DEF OpToRel, LessThan
<1>3. C \in SUBSET Nat
  OBVIOUS
<1>4. PICK m \in C : \A y \in C : <<y, m>> \notin LessThan
  <2> HIDE DEF C
  <2> QED
    BY <1>1, <1>2, <1>3, WFMin
<1>5. m \in 1..n /\ m - 1 \in 0..n /\ m - 1 \in Nat /\ m \in Nat
  BY <1>4
<1>6. m - 1 \notin S
  BY <1>4, <1>5
<1>7. m - 1 \in C
  BY <1>5, <1>6
<1>8. <<m - 1, m>> \notin LessThan
  BY <1>4, <1>7
<1>9. <<m - 1, m>> \in Nat \X Nat /\ <<m - 1, m>>[1] < <<m - 1, m>>[2]
  BY <1>5
<1>10. <<m - 1, m>> \in LessThan
  BY <1>9, Zenon DEF LessThan
<1> QED
  BY <1>8, <1>10

\* Two functions that begin with the same value and go on in the same way.
LEMMA SameUpto ==
  ASSUME NEW n \in Nat, NEW g, NEW h, g[0] = h[0],
         \A k \in 1..n : g[k - 1] = h[k - 1] => g[k] = h[k]
  PROVE  g[n] = h[n]
<1> DEFINE S == {k \in 0..n : g[k] = h[k]}
<1>1. 0 \in S /\ \A k \in 1..n : k - 1 \in S => k \in S
  OBVIOUS
<1> HIDE DEF S
<1>2. n \in S
  BY <1>1, Climb
<1> QED
  BY <1>2 DEF S

(***************************************************************************)
(* Tokens in a file.                                                       *)
(***************************************************************************)

\* The tokens w begin at the place i of the file.
At(f, i, w) ==
  /\ IsSeq(f) /\ IsSeq(w) /\ i \in Nat \ {0} /\ i + Len(w) <= Len(f) + 1
  /\ \A j \in 1..Len(w) : f[i + j - 1] = w[j]

\* Tokens one behind the other.
LEMMA JoinIsSeq ==
  ASSUME NEW a, NEW b, IsSeq(a), IsSeq(b)
  PROVE  /\ IsSeq(a \o b) /\ Len(a) \in Nat /\ Len(b) \in Nat /\ Len(a \o b) = Len(a) + Len(b)
         /\ \A j \in 1..Len(a) : (a \o b)[j] = a[j]
         /\ \A j \in 1..Len(b) : (a \o b)[Len(a) + j] = b[j]
<1>1. PICK S : a \in Seq(S)
  BY DEF IsSeq
<1>2. PICK T : b \in Seq(T)
  BY DEF IsSeq
<1>3. a \in Seq(S \cup T) /\ b \in Seq(S \cup T)
  BY <1>1, <1>2
<1>4. a \o b \in Seq(S \cup T)
  BY <1>3
<1> QED
  BY <1>3, <1>4 DEF IsSeq

\* Where two runs of tokens are, the second is behind the first.
LEMMA AtJoin ==
  ASSUME NEW f, NEW i, NEW a, NEW b, IsSeq(a), IsSeq(b), At(f, i, a \o b)
  PROVE  /\ At(f, i, a) /\ At(f, i + Len(a), b)
         /\ i + Len(a \o b) = (i + Len(a)) + Len(b)
<1>1. /\ IsSeq(a \o b) /\ Len(a) \in Nat /\ Len(b) \in Nat /\ Len(a \o b) = Len(a) + Len(b)
      /\ \A j \in 1..Len(a) : (a \o b)[j] = a[j]
      /\ \A j \in 1..Len(b) : (a \o b)[Len(a) + j] = b[j]
  BY JoinIsSeq
<1>2. Len(f) \in Nat /\ i \in Nat \ {0}
  BY DEF At, IsSeq
<1>3. \A j \in 1..Len(a) : f[i + j - 1] = a[j]
  BY <1>1, <1>2 DEF At
<1>4. ASSUME NEW j \in 1..Len(b) PROVE f[i + Len(a) + j - 1] = b[j]
  <2>1. Len(a) + j \in 1..Len(a \o b) /\ i + (Len(a) + j) - 1 = i + Len(a) + j - 1
    BY <1>1, <1>2
  <2>2. f[i + (Len(a) + j) - 1] = (a \o b)[Len(a) + j]
    BY <2>1 DEF At
  <2> QED
    BY <1>1, <2>1, <2>2
<1> QED
  BY <1>1, <1>2, <1>3, <1>4 DEF At

\* The place behind the tokens w that begin at i.
Past(i, w) == i + Len(w)

\* The tokens c are a and, behind them, b.
Joins(c, a, b) == c = a \o b /\ IsSeq(a) /\ IsSeq(b) /\ IsSeq(c)

\* Two runs of tokens joined.
LEMMA JoinsIsSeq ==
  ASSUME NEW a, NEW b, IsSeq(a), IsSeq(b)
  PROVE  Joins(a \o b, a, b)
BY JoinIsSeq DEF Joins

\* A place with two runs of tokens has both.
LEMMA AtJoins ==
  ASSUME NEW f, NEW i, NEW a, NEW b, NEW c, Joins(c, a, b), At(f, i, c)
  PROVE  At(f, i, a) /\ At(f, Past(i, a), b) /\ Past(i, c) = Past(Past(i, a), b)
<1>1. c = a \o b /\ IsSeq(a) /\ IsSeq(b) /\ At(f, i, a \o b)
  BY DEF Joins
<1>2. At(f, i, a)
  BY <1>1, AtJoin
<1>3. At(f, i + Len(a), b)
  BY <1>1, AtJoin
<1>4. i + Len(a \o b) = (i + Len(a)) + Len(b)
  BY <1>1, AtJoin
<1> QED
  BY <1>1, <1>2, <1>3, <1>4 DEF Past

\* operator>> takes a number where there is one, and goes on behind it.
LEMMA NumberRead ==
  ASSUME NEW f, NEW i \in 1..Len(f), NEW n, f[i] = Number(n)
  PROVE  ReadNumber(f, i) = Got(n, i + 1)
BY DEF ReadNumber, CanRead, Failed, Number

\* The same for a word.
LEMMA WordRead ==
  ASSUME NEW f, NEW i \in 1..Len(f), NEW w, f[i] = Text(w)
  PROVE  ReadWord(f, i) = Got(w, i + 1)
BY DEF ReadWord, CanRead, Failed, Text

\* Tuples are sequences.
LEMMA TupleIsSeq ==
  ASSUME NEW a, NEW b
  PROVE  /\ IsSeq(<<>>) /\ IsSeq(<<a>>) /\ IsSeq(<<a, b>>)
         /\ <<a>> \o <<b>> = <<a, b>>
<1>1. <<>> \in Seq({a, b}) /\ <<a>> \in Seq({a, b}) /\ <<b>> \in Seq({a, b}) /\ <<a, b>> \in Seq({a, b})
  OBVIOUS
<1>2. <<a>> \o <<b>> = <<a, b>>
  <2> DEFINE x == <<a>> \o <<b>>
             y == <<a, b>>
  <2>1. /\ x \in Seq({a, b}) /\ Len(x) = 2 /\ x[1] = a /\ x[2] = b
        /\ y \in Seq({a, b}) /\ Len(y) = 2 /\ y[1] = a /\ y[2] = b
    BY <1>1
  <2> HIDE DEF x, y
  <2>2. \A j \in 1..2 : x[j] = y[j]
    BY <2>1
  <2>3. x = y
    BY <2>1, <2>2
  <2> QED
    BY <2>3 DEF x, y
<1> QED
  BY <1>1, <1>2 DEF IsSeq

(***************************************************************************)
(* Elements one after the other.                                           *)
(***************************************************************************)

\* u is what Each has written after every element, W the tokens of each.
Joined(u, n, W) == u = [i \in 0..n |-> IF i = 0 THEN <<>> ELSE u[i - 1] \o W[i]]

\* There is such a u for every number of elements.
LEMMA JoinedExists ==
  ASSUME NEW n \in Nat, NEW W
  PROVE  \E u : Joined(u, n, W)
<1> DEFINE S == {k \in 0..n : \E u : Joined(u, k, W)}
<1>1. 0 \in S
  <2> DEFINE u == [i \in 0..0 |-> <<>>]
  <2>1. Joined(u, 0, W)
    BY DEF Joined
  <2> QED
    BY <2>1
<1>2. ASSUME NEW k \in 1..n, k - 1 \in S PROVE k \in S
  <2>1. PICK u : Joined(u, k - 1, W)
    BY <1>2
  <2> DEFINE v == [i \in 0..k |-> IF i = k THEN u[k - 1] \o W[k] ELSE u[i]]
  <2>2. ASSUME NEW i \in 0..k PROVE v[i] = IF i = 0 THEN <<>> ELSE v[i - 1] \o W[i]
    <3>1. CASE i = k
      <4>1. i # 0 /\ k - 1 \in 0..k /\ k - 1 # k /\ k \in 0..k
        BY <3>1
      <4>2. v[k] = u[k - 1] \o W[k] /\ v[k - 1] = u[k - 1]
        BY <4>1
      <4> HIDE DEF v
      <4> QED
        BY <3>1, <4>1, <4>2
    <3>2. CASE i # k
      <4>1. i \in 0..(k - 1) /\ (i # 0 => i - 1 \in 0..k /\ i - 1 # k)
        BY <3>2
      <4>2. u[i] = IF i = 0 THEN <<>> ELSE u[i - 1] \o W[i]
        BY <2>1, <4>1 DEF Joined
      <4> QED
        BY <3>2, <4>1, <4>2
    <3> QED
      BY <3>1, <3>2
  <2>3. v = [i \in 0..k |-> v[i]]
    OBVIOUS
  <2> HIDE DEF v
  <2>4. Joined(v, k, W)
    BY <2>2, <2>3 DEF Joined
  <2> QED
    BY <2>4
<1> HIDE DEF S
<1>3. n \in S
  BY <1>1, <1>2, Climb
<1> QED
  BY <1>3 DEF S

\* What it holds after each element.
LEMMA JoinedSteps ==
  ASSUME NEW n \in Nat, NEW W, NEW u, Joined(u, n, W), \A k \in 1..n : IsSeq(W[k])
  PROVE  /\ u[0] = <<>> /\ \A k \in 1..n : u[k] = u[k - 1] \o W[k]
         /\ \A k \in 0..n : IsSeq(u[k])
<1>1. u[0] = <<>> /\ \A k \in 1..n : u[k] = u[k - 1] \o W[k]
  <2>1. \A k \in 0..n : u[k] = IF k = 0 THEN <<>> ELSE u[k - 1] \o W[k]
    BY DEF Joined
  <2>2. 0 \in 0..n /\ \A k \in 1..n : k \in 0..n /\ k # 0
    OBVIOUS
  <2> QED
    BY <2>1, <2>2
<1> DEFINE S == {k \in 0..n : IsSeq(u[k])}
<1>2. 0 \in S
  <2>1. IsSeq(<<>>) /\ 0 \in 0..n
    <3>1. <<>> \in Seq({})
      OBVIOUS
    <3> QED
      BY <3>1 DEF IsSeq
  <2> QED
    BY <1>1, <2>1
<1>3. ASSUME NEW k \in 1..n, k - 1 \in S PROVE k \in S
  <2>1. IsSeq(u[k - 1]) /\ IsSeq(W[k]) /\ k \in 0..n
    BY <1>3
  <2>2. IsSeq(u[k - 1] \o W[k])
    BY <2>1, JoinIsSeq
  <2> QED
    BY <1>1, <2>1, <2>2
<1> HIDE DEF S
<1>4. \A k \in 0..n : k \in S
  BY <1>2, <1>3, Climb
<1> QED
  BY <1>1, <1>4 DEF S

\* g is what ReadMany has read after every element, R what its reader gives.
Gathered(g, n, i, R) ==
  g = [k \in 0..n |-> IF k = 0 THEN Got(<<>>, i)
                      ELSE Got(Append(g[k - 1].v, R[g[k - 1].i].v), R[g[k - 1].i].i)]

\* From place to place: V has the elements, P the places between them.
AllRead(g, i, n, e, V, R) ==
  /\ n \in Nat /\ Gathered(g, n, i, R)
  /\ \A k \in 0..n : g[k].i \in Nat
  /\ g[n] = Got([k \in 1..n |-> V[k]], e)

\* A loop that reads an element at every place it comes to, gathers them all.
LEMMA GatherAll ==
  ASSUME NEW i, NEW n \in Nat, NEW P, NEW V, NEW R,
         P[0] = i, \A k \in 0..n : P[k] \in Nat,
         \A k \in 1..n : R[P[k - 1]] = Got(V[k], P[k])
  PROVE  \E g : AllRead(g, i, n, P[n], V, R)
<1> DEFINE g == [k \in 0..n |-> Got([m \in 1..k |-> V[m]], P[k])]
<1>1. ASSUME NEW k \in 1..n
      PROVE  Append([m \in 1..(k - 1) |-> V[m]], V[k]) = [m \in 1..k |-> V[m]]
  <2> DEFINE T == {V[m] : m \in 1..k}
             a == [m \in 1..(k - 1) |-> V[m]]
             b == [m \in 1..k |-> V[m]]
  <2>1. a \in Seq(T) /\ V[k] \in T /\ Len(a) = k - 1 /\ b \in Seq(T) /\ Len(b) = k
    <3> DEFINE l == k - 1
    <3>1. l \in Nat /\ k \in Nat
      OBVIOUS
    <3>2. (\A m \in 1..k : V[m] \in T) /\ \A m \in 1..l : V[m] \in T
      OBVIOUS
    <3>3. V[k] \in T
      BY <3>2
    <3> HIDE DEF l, T
    <3>4. [m \in 1..l |-> V[m]] \in Seq(T) /\ Len([m \in 1..l |-> V[m]]) = l
      BY <3>1, <3>2
    <3>5. b \in Seq(T) /\ Len(b) = k
      BY <3>1, <3>2
    <3> QED
      BY <3>3, <3>4, <3>5 DEF l
  <2>2. Append(a, V[k]) \in Seq(T) /\ Len(Append(a, V[k])) = k
    BY <2>1
  <2>3. \A m \in 1..k : Append(a, V[k])[m] = b[m]
    BY <2>1
  <2> HIDE DEF T, a, b
  <2>4. Append(a, V[k]) = b
    BY <2>1, <2>2, <2>3
  <2> QED
    BY <2>4 DEF a, b
<1>2. ASSUME NEW k \in 0..n
      PROVE  g[k] = IF k = 0 THEN Got(<<>>, i)
                    ELSE Got(Append(g[k - 1].v, R[g[k - 1].i].v), R[g[k - 1].i].i)
  <2>1. CASE k = 0
    <3>1. [m \in 1..0 |-> V[m]] = <<>>
      OBVIOUS
    <3> QED
      BY <2>1, <3>1
  <2>2. CASE k # 0
    <3>1. k \in 1..n /\ k - 1 \in 0..n
      BY <2>2
    <3>2. g[k - 1] = Got([m \in 1..(k - 1) |-> V[m]], P[k - 1])
      BY <3>1
    <3>3. g[k] = Got([m \in 1..k |-> V[m]], P[k])
      OBVIOUS
    <3> HIDE DEF g
    <3>4. g[k - 1].v = [m \in 1..(k - 1) |-> V[m]] /\ g[k - 1].i = P[k - 1]
      BY <3>2 DEF Got
    <3>5. R[g[k - 1].i].v = V[k] /\ R[g[k - 1].i].i = P[k]
      <4>1. R[g[k - 1].i] = Got(V[k], P[k])
        BY <3>1, <3>4
      <4> QED
        BY <4>1 DEF Got
    <3> QED
      BY <1>1, <2>2, <3>1, <3>3, <3>4, <3>5
  <2> QED
    BY <2>1, <2>2
<1>3. \A k \in 0..n : g[k].i \in Nat
  BY DEF Got
<1>4. g[n] = Got([k \in 1..n |-> V[k]], P[n])
  OBVIOUS
<1>5. g = [k \in 0..n |-> g[k]]
  OBVIOUS
<1> HIDE DEF g
<1>6. Gathered(g, n, i, R)
  BY <1>2, <1>5 DEF Gathered
<1> QED
  BY <1>3, <1>4, <1>6 DEF AllRead

\* What Each wrote is read element by element, if each element is.
AllWritten(f, i, n, W, u, V, R) ==
  /\ n \in Nat /\ Joined(u, n, W) /\ At(f, i, u[n])
  /\ \A k \in 1..n : IsSeq(W[k])
  /\ \A k \in 1..n : \A j \in Nat : At(f, j, W[k]) => R[j] = Got(V[k], Past(j, W[k]))

\* A loop reads what a loop wrote, if each element is read where it was written.
LEMMA ReadAll ==
  ASSUME NEW f, NEW i, NEW n, NEW W, NEW u, NEW V, NEW R, AllWritten(f, i, n, W, u, V, R)
  PROVE  \E g : AllRead(g, i, n, Past(i, u[n]), V, R)
<1>0. /\ n \in Nat /\ Joined(u, n, W) /\ At(f, i, u[n])
      /\ \A k \in 1..n : IsSeq(W[k])
      /\ \A k \in 1..n : \A j \in Nat : At(f, j, W[k]) => R[j] = Got(V[k], Past(j, W[k]))
  BY DEF AllWritten
<1> USE <1>0
<1>1. /\ u[0] = <<>> /\ \A k \in 1..n : u[k] = u[k - 1] \o W[k]
      /\ \A k \in 0..n : IsSeq(u[k])
  BY JoinedSteps
<1>2. i \in Nat /\ \A k \in 0..n : Len(u[k]) \in Nat
  BY <1>1 DEF At, IsSeq
<1>3. \A k \in 0..n : At(f, i, u[k])
  <2> DEFINE S == {k \in 0..n : At(f, i, u[n - k])}
  <2>1. 0 \in S
    OBVIOUS
  <2>2. ASSUME NEW k \in 1..n, k - 1 \in S PROVE k \in S
    <3>1. n - (k - 1) \in 1..n /\ n - (k - 1) - 1 = n - k /\ n - k \in 0..n
      OBVIOUS
    <3>2. At(f, i, u[n - k] \o W[n - (k - 1)])
      BY <1>1, <2>2, <3>1
    <3>3. At(f, i, u[n - k])
      BY <1>1, <3>1, <3>2, AtJoin
    <3> QED
      BY <3>3
  <2> HIDE DEF S
  <2>3. \A k \in 0..n : k \in S
    BY <2>1, <2>2, Climb
  <2>4. ASSUME NEW k \in 0..n PROVE At(f, i, u[k])
    <3>1. n - k \in 0..n /\ n - (n - k) = k
      OBVIOUS
    <3>2. n - k \in S
      BY <2>3, <3>1
    <3> QED
      BY <3>1, <3>2 DEF S
  <2> QED
    BY <2>4
<1>4. ASSUME NEW k \in 1..n
      PROVE  R[i + Len(u[k - 1])] = Got(V[k], i + Len(u[k]))
  <2>1. k - 1 \in 0..n /\ k \in 0..n
    OBVIOUS
  <2>2. At(f, i, u[k - 1] \o W[k]) /\ IsSeq(u[k - 1]) /\ u[k] = u[k - 1] \o W[k]
    BY <1>1, <1>3, <2>1
  <2>3. At(f, i + Len(u[k - 1]), W[k]) /\ i + Len(u[k]) = i + Len(u[k - 1]) + Len(W[k])
    <3>1. IsSeq(W[k])
      OBVIOUS
    <3>2. /\ At(f, i + Len(u[k - 1]), W[k])
          /\ i + Len(u[k - 1] \o W[k]) = i + Len(u[k - 1]) + Len(W[k])
      <4> DEFINE a == u[k - 1]
                 b == W[k]
      <4>1. At(f, i, a \o b) /\ IsSeq(a) /\ IsSeq(b)
        BY <2>2, <3>1
      <4> HIDE DEF a, b
      <4>2. At(f, i + Len(a), b)
        BY <4>1, AtJoin
      <4>3. i + Len(a \o b) = (i + Len(a)) + Len(b)
        BY <4>1, AtJoin
      <4> QED
        BY <4>2, <4>3 DEF a, b
    <3> QED
      BY <2>2, <3>2
  <2>4. i + Len(u[k - 1]) \in Nat
    BY <1>2, <2>1
  <2> QED
    BY <2>3, <2>4 DEF Past
<1> DEFINE P == [k \in 0..n |-> i + Len(u[k])]
<1>5. /\ P[0] = i /\ \A k \in 0..n : P[k] \in Nat
      /\ \A k \in 1..n : R[P[k - 1]] = Got(V[k], P[k])
  <2>1. P[0] = i
    BY <1>1, <1>2
  <2>2. \A k \in 0..n : P[k] \in Nat
    BY <1>2
  <2>3. ASSUME NEW k \in 1..n PROVE R[P[k - 1]] = Got(V[k], P[k])
    <3>1. k - 1 \in 0..n /\ k \in 0..n
      OBVIOUS
    <3>2. P[k - 1] = i + Len(u[k - 1]) /\ P[k] = i + Len(u[k])
      BY <3>1
    <3> QED
      BY <1>4, <3>2
  <2> QED
    BY <2>1, <2>2, <2>3
<1>6. P[n] = i + Len(u[n])
  OBVIOUS
<1> HIDE DEF P
<1>7. \E g : AllRead(g, i, n, P[n], V, R)
  BY <1>0, <1>5, GatherAll
<1> QED
  BY <1>6, <1>7 DEF Past

(***************************************************************************)
(* Each and ReadMany take an operator, and what they compute has to be     *)
(* shown for each of those they are used with.                             *)
(***************************************************************************)

ColumnTokens(s) == Each(WriteColumn, s)
PartitionTokens(s) == Each(WritePartition, s)
ReplicaTokens(s) == Each(WriteReplica, s)
LocationTokens(s) == Each(WriteLocation, s)
TableTokens(s) == Each(LAMBDA x : WriteTable(x[2]), s)
DbTokens(s) == Each(WriteDb, s)
NodeTokens(s) == Each(WriteNode, s)

ManyNumbers(f, i, n) == ReadMany(ReadNumber, f, i, n)
ManyWords(f, i, n) == ReadMany(ReadWord, f, i, n)
ManyColumns(f, i, n) == ReadMany(ReadColumn, f, i, n)
ManyPartitions(f, i, n) == ReadMany(ReadPartition, f, i, n)
ManyReplicas(f, i, n) == ReadMany(ReadReplica, f, i, n)
ManyLocations(f, i, n) == ReadMany(ReadLocation, f, i, n)
ManyTables(f, i, n) == ReadMany(ReadTable, f, i, n)
ManyDbs(f, i, n) == ReadMany(ReadDb, f, i, n)
ManyNodes(f, i, n) == ReadMany(ReadNode, f, i, n)

\* The tokens of a vector are those of its elements, one after the other:
\* for columns, and likewise for the other vectors and maps.
LEMMA EachColumn ==
  ASSUME NEW s, NEW W, Len(s) \in Nat, W = [k \in 1..Len(s) |-> WriteColumn(s[k])]
  PROVE  \E u : Joined(u, Len(s), W) /\ ColumnTokens(s) = u[Len(s)]
<1> DEFINE n == Len(s)
           Eq(u) == u = [k \in 0..n |-> IF k = 0 THEN <<>> ELSE u[k - 1] \o WriteColumn(s[k])]
<1>1. ASSUME NEW u PROVE Eq(u) <=> Joined(u, n, W)
  <2>1. \A k \in 0..n : k # 0 => W[k] = WriteColumn(s[k])
    OBVIOUS
  <2> QED
    BY <2>1 DEF Joined
<1>2. \E u : Eq(u)
  <2> HIDE DEF Eq
  <2> QED
    BY <1>1, JoinedExists
<1>3. Eq(CHOOSE u : Eq(u))
  <2> HIDE DEF Eq
  <2> QED
    BY <1>2
<1>4. ColumnTokens(s) = (CHOOSE u : Eq(u))[n]
  BY DEF Each, ColumnTokens
<1> QED
  BY <1>1, <1>3, <1>4

LEMMA EachPartition ==
  ASSUME NEW s, NEW W, Len(s) \in Nat, W = [k \in 1..Len(s) |-> WritePartition(s[k])]
  PROVE  \E u : Joined(u, Len(s), W) /\ PartitionTokens(s) = u[Len(s)]
<1> DEFINE n == Len(s)
           Eq(u) == u = [k \in 0..n |-> IF k = 0 THEN <<>> ELSE u[k - 1] \o WritePartition(s[k])]
<1>1. ASSUME NEW u PROVE Eq(u) <=> Joined(u, n, W)
  <2>1. \A k \in 0..n : k # 0 => W[k] = WritePartition(s[k])
    OBVIOUS
  <2> QED
    BY <2>1 DEF Joined
<1>2. \E u : Eq(u)
  <2> HIDE DEF Eq
  <2> QED
    BY <1>1, JoinedExists
<1>3. Eq(CHOOSE u : Eq(u))
  <2> HIDE DEF Eq
  <2> QED
    BY <1>2
<1>4. PartitionTokens(s) = (CHOOSE u : Eq(u))[n]
  BY DEF Each, PartitionTokens
<1> QED
  BY <1>1, <1>3, <1>4

LEMMA EachReplica ==
  ASSUME NEW s, NEW W, Len(s) \in Nat, W = [k \in 1..Len(s) |-> WriteReplica(s[k])]
  PROVE  \E u : Joined(u, Len(s), W) /\ ReplicaTokens(s) = u[Len(s)]
<1> DEFINE n == Len(s)
           Eq(u) == u = [k \in 0..n |-> IF k = 0 THEN <<>> ELSE u[k - 1] \o WriteReplica(s[k])]
<1>1. ASSUME NEW u PROVE Eq(u) <=> Joined(u, n, W)
  <2>1. \A k \in 0..n : k # 0 => W[k] = WriteReplica(s[k])
    OBVIOUS
  <2> QED
    BY <2>1 DEF Joined
<1>2. \E u : Eq(u)
  <2> HIDE DEF Eq
  <2> QED
    BY <1>1, JoinedExists
<1>3. Eq(CHOOSE u : Eq(u))
  <2> HIDE DEF Eq
  <2> QED
    BY <1>2
<1>4. ReplicaTokens(s) = (CHOOSE u : Eq(u))[n]
  BY DEF Each, ReplicaTokens
<1> QED
  BY <1>1, <1>3, <1>4

LEMMA EachLocation ==
  ASSUME NEW s, NEW W, Len(s) \in Nat, W = [k \in 1..Len(s) |-> WriteLocation(s[k])]
  PROVE  \E u : Joined(u, Len(s), W) /\ LocationTokens(s) = u[Len(s)]
<1> DEFINE n == Len(s)
           Eq(u) == u = [k \in 0..n |-> IF k = 0 THEN <<>> ELSE u[k - 1] \o WriteLocation(s[k])]
<1>1. ASSUME NEW u PROVE Eq(u) <=> Joined(u, n, W)
  <2>1. \A k \in 0..n : k # 0 => W[k] = WriteLocation(s[k])
    OBVIOUS
  <2> QED
    BY <2>1 DEF Joined
<1>2. \E u : Eq(u)
  <2> HIDE DEF Eq
  <2> QED
    BY <1>1, JoinedExists
<1>3. Eq(CHOOSE u : Eq(u))
  <2> HIDE DEF Eq
  <2> QED
    BY <1>2
<1>4. LocationTokens(s) = (CHOOSE u : Eq(u))[n]
  BY DEF Each, LocationTokens
<1> QED
  BY <1>1, <1>3, <1>4

LEMMA EachTable ==
  ASSUME NEW s, NEW W, Len(s) \in Nat, W = [k \in 1..Len(s) |-> WriteTable(s[k][2])]
  PROVE  \E u : Joined(u, Len(s), W) /\ TableTokens(s) = u[Len(s)]
<1> DEFINE n == Len(s)
           Eq(u) == u = [k \in 0..n |-> IF k = 0 THEN <<>> ELSE u[k - 1] \o WriteTable(s[k][2])]
<1>1. ASSUME NEW u PROVE Eq(u) <=> Joined(u, n, W)
  <2>1. \A k \in 0..n : k # 0 => W[k] = WriteTable(s[k][2])
    OBVIOUS
  <2> QED
    BY <2>1 DEF Joined
<1>2. \E u : Eq(u)
  <2> HIDE DEF Eq
  <2> QED
    BY <1>1, JoinedExists
<1>3. Eq(CHOOSE u : Eq(u))
  <2> HIDE DEF Eq
  <2> QED
    BY <1>2
<1>4. TableTokens(s) = (CHOOSE u : Eq(u))[n]
  BY DEF Each, TableTokens
<1> QED
  BY <1>1, <1>3, <1>4

LEMMA EachDb ==
  ASSUME NEW s, NEW W, Len(s) \in Nat, W = [k \in 1..Len(s) |-> WriteDb(s[k])]
  PROVE  \E u : Joined(u, Len(s), W) /\ DbTokens(s) = u[Len(s)]
<1> DEFINE n == Len(s)
           Eq(u) == u = [k \in 0..n |-> IF k = 0 THEN <<>> ELSE u[k - 1] \o WriteDb(s[k])]
<1>1. ASSUME NEW u PROVE Eq(u) <=> Joined(u, n, W)
  <2>1. \A k \in 0..n : k # 0 => W[k] = WriteDb(s[k])
    OBVIOUS
  <2> QED
    BY <2>1 DEF Joined
<1>2. \E u : Eq(u)
  <2> HIDE DEF Eq
  <2> QED
    BY <1>1, JoinedExists
<1>3. Eq(CHOOSE u : Eq(u))
  <2> HIDE DEF Eq
  <2> QED
    BY <1>2
<1>4. DbTokens(s) = (CHOOSE u : Eq(u))[n]
  BY DEF Each, DbTokens
<1> QED
  BY <1>1, <1>3, <1>4

LEMMA EachNode ==
  ASSUME NEW s, NEW W, Len(s) \in Nat, W = [k \in 1..Len(s) |-> WriteNode(s[k])]
  PROVE  \E u : Joined(u, Len(s), W) /\ NodeTokens(s) = u[Len(s)]
<1> DEFINE n == Len(s)
           Eq(u) == u = [k \in 0..n |-> IF k = 0 THEN <<>> ELSE u[k - 1] \o WriteNode(s[k])]
<1>1. ASSUME NEW u PROVE Eq(u) <=> Joined(u, n, W)
  <2>1. \A k \in 0..n : k # 0 => W[k] = WriteNode(s[k])
    OBVIOUS
  <2> QED
    BY <2>1 DEF Joined
<1>2. \E u : Eq(u)
  <2> HIDE DEF Eq
  <2> QED
    BY <1>1, JoinedExists
<1>3. Eq(CHOOSE u : Eq(u))
  <2> HIDE DEF Eq
  <2> QED
    BY <1>2
<1>4. NodeTokens(s) = (CHOOSE u : Eq(u))[n]
  BY DEF Each, NodeTokens
<1> QED
  BY <1>1, <1>3, <1>4

\* A loop of the reader gives the elements that were read one after the other:
\* for numbers, and likewise for every other element.
LEMMA NumbersGathered ==
  ASSUME NEW f, NEW i, NEW n, NEW e, NEW V, NEW g, NEW R,
         R = [j \in Nat |-> ReadNumber(f, j)], AllRead(g, i, n, e, V, R)
  PROVE  ManyNumbers(f, i, n) = Got([k \in 1..n |-> V[k]], e)
<1> DEFINE Eq(h) == h = [k \in 0..n |-> IF k = 0 THEN Got(<<>>, i)
                          ELSE LET r == ReadNumber(f, h[k - 1].i) IN Got(Append(h[k - 1].v, r.v), r.i)]
           h == CHOOSE x : Eq(x)
<1>0. n \in Nat /\ 0 \in 0..n /\ \A k \in 1..n : k - 1 \in 0..n /\ k \in 0..n /\ k # 0
  BY DEF AllRead
<1>1. Eq(g)
  <2>1. \A k \in 0..n : k # 0 => k - 1 \in 0..n
    BY <1>0
  <2> QED
    BY <2>1 DEF AllRead, Gathered
<1>2. Eq(h)
  <2> HIDE DEF Eq
  <2> QED
    BY <1>1
<1>3. ManyNumbers(f, i, n) = h[n]
  BY DEF ReadMany, ManyNumbers
<1> HIDE DEF h
<1>4. g[0] = h[0]
  BY <1>0, <1>1, <1>2
<1>5. ASSUME NEW k \in 1..n, g[k - 1] = h[k - 1] PROVE g[k] = h[k]
  BY <1>0, <1>1, <1>2, <1>5
<1>6. g[n] = h[n]
  <2> HIDE DEF Eq
  <2> QED
    BY <1>0, <1>4, <1>5, SameUpto
<1> QED
  BY <1>3, <1>6 DEF AllRead

LEMMA WordsGathered ==
  ASSUME NEW f, NEW i, NEW n, NEW e, NEW V, NEW g, NEW R,
         R = [j \in Nat |-> ReadWord(f, j)], AllRead(g, i, n, e, V, R)
  PROVE  ManyWords(f, i, n) = Got([k \in 1..n |-> V[k]], e)
<1> DEFINE Eq(h) == h = [k \in 0..n |-> IF k = 0 THEN Got(<<>>, i)
                          ELSE LET r == ReadWord(f, h[k - 1].i) IN Got(Append(h[k - 1].v, r.v), r.i)]
           h == CHOOSE x : Eq(x)
<1>0. n \in Nat /\ 0 \in 0..n /\ \A k \in 1..n : k - 1 \in 0..n /\ k \in 0..n /\ k # 0
  BY DEF AllRead
<1>1. Eq(g)
  <2>1. \A k \in 0..n : k # 0 => k - 1 \in 0..n
    BY <1>0
  <2> QED
    BY <2>1 DEF AllRead, Gathered
<1>2. Eq(h)
  <2> HIDE DEF Eq
  <2> QED
    BY <1>1
<1>3. ManyWords(f, i, n) = h[n]
  BY DEF ReadMany, ManyWords
<1> HIDE DEF h
<1>4. g[0] = h[0]
  BY <1>0, <1>1, <1>2
<1>5. ASSUME NEW k \in 1..n, g[k - 1] = h[k - 1] PROVE g[k] = h[k]
  BY <1>0, <1>1, <1>2, <1>5
<1>6. g[n] = h[n]
  <2> HIDE DEF Eq
  <2> QED
    BY <1>0, <1>4, <1>5, SameUpto
<1> QED
  BY <1>3, <1>6 DEF AllRead

LEMMA ColumnsGathered ==
  ASSUME NEW f, NEW i, NEW n, NEW e, NEW V, NEW g, NEW R,
         R = [j \in Nat |-> ReadColumn(f, j)], AllRead(g, i, n, e, V, R)
  PROVE  ManyColumns(f, i, n) = Got([k \in 1..n |-> V[k]], e)
<1> DEFINE Eq(h) == h = [k \in 0..n |-> IF k = 0 THEN Got(<<>>, i)
                          ELSE LET r == ReadColumn(f, h[k - 1].i) IN Got(Append(h[k - 1].v, r.v), r.i)]
           h == CHOOSE x : Eq(x)
<1>0. n \in Nat /\ 0 \in 0..n /\ \A k \in 1..n : k - 1 \in 0..n /\ k \in 0..n /\ k # 0
  BY DEF AllRead
<1>1. Eq(g)
  <2>1. \A k \in 0..n : k # 0 => k - 1 \in 0..n
    BY <1>0
  <2> QED
    BY <2>1 DEF AllRead, Gathered
<1>2. Eq(h)
  <2> HIDE DEF Eq
  <2> QED
    BY <1>1
<1>3. ManyColumns(f, i, n) = h[n]
  BY DEF ReadMany, ManyColumns
<1> HIDE DEF h
<1>4. g[0] = h[0]
  BY <1>0, <1>1, <1>2
<1>5. ASSUME NEW k \in 1..n, g[k - 1] = h[k - 1] PROVE g[k] = h[k]
  BY <1>0, <1>1, <1>2, <1>5
<1>6. g[n] = h[n]
  <2> HIDE DEF Eq
  <2> QED
    BY <1>0, <1>4, <1>5, SameUpto
<1> QED
  BY <1>3, <1>6 DEF AllRead

LEMMA PartitionsGathered ==
  ASSUME NEW f, NEW i, NEW n, NEW e, NEW V, NEW g, NEW R,
         R = [j \in Nat |-> ReadPartition(f, j)], AllRead(g, i, n, e, V, R)
  PROVE  ManyPartitions(f, i, n) = Got([k \in 1..n |-> V[k]], e)
<1> DEFINE Eq(h) == h = [k \in 0..n |-> IF k = 0 THEN Got(<<>>, i)
                          ELSE LET r == ReadPartition(f, h[k - 1].i) IN Got(Append(h[k - 1].v, r.v), r.i)]
           h == CHOOSE x : Eq(x)
<1>0. n \in Nat /\ 0 \in 0..n /\ \A k \in 1..n : k - 1 \in 0..n /\ k \in 0..n /\ k # 0
  BY DEF AllRead
<1>1. Eq(g)
  <2>1. \A k \in 0..n : k # 0 => k - 1 \in 0..n
    BY <1>0
  <2> QED
    BY <2>1 DEF AllRead, Gathered
<1>2. Eq(h)
  <2> HIDE DEF Eq
  <2> QED
    BY <1>1
<1>3. ManyPartitions(f, i, n) = h[n]
  BY DEF ReadMany, ManyPartitions
<1> HIDE DEF h
<1>4. g[0] = h[0]
  BY <1>0, <1>1, <1>2
<1>5. ASSUME NEW k \in 1..n, g[k - 1] = h[k - 1] PROVE g[k] = h[k]
  BY <1>0, <1>1, <1>2, <1>5
<1>6. g[n] = h[n]
  <2> HIDE DEF Eq
  <2> QED
    BY <1>0, <1>4, <1>5, SameUpto
<1> QED
  BY <1>3, <1>6 DEF AllRead

LEMMA ReplicasGathered ==
  ASSUME NEW f, NEW i, NEW n, NEW e, NEW V, NEW g, NEW R,
         R = [j \in Nat |-> ReadReplica(f, j)], AllRead(g, i, n, e, V, R)
  PROVE  ManyReplicas(f, i, n) = Got([k \in 1..n |-> V[k]], e)
<1> DEFINE Eq(h) == h = [k \in 0..n |-> IF k = 0 THEN Got(<<>>, i)
                          ELSE LET r == ReadReplica(f, h[k - 1].i) IN Got(Append(h[k - 1].v, r.v), r.i)]
           h == CHOOSE x : Eq(x)
<1>0. n \in Nat /\ 0 \in 0..n /\ \A k \in 1..n : k - 1 \in 0..n /\ k \in 0..n /\ k # 0
  BY DEF AllRead
<1>1. Eq(g)
  <2>1. \A k \in 0..n : k # 0 => k - 1 \in 0..n
    BY <1>0
  <2> QED
    BY <2>1 DEF AllRead, Gathered
<1>2. Eq(h)
  <2> HIDE DEF Eq
  <2> QED
    BY <1>1
<1>3. ManyReplicas(f, i, n) = h[n]
  BY DEF ReadMany, ManyReplicas
<1> HIDE DEF h
<1>4. g[0] = h[0]
  BY <1>0, <1>1, <1>2
<1>5. ASSUME NEW k \in 1..n, g[k - 1] = h[k - 1] PROVE g[k] = h[k]
  BY <1>0, <1>1, <1>2, <1>5
<1>6. g[n] = h[n]
  <2> HIDE DEF Eq
  <2> QED
    BY <1>0, <1>4, <1>5, SameUpto
<1> QED
  BY <1>3, <1>6 DEF AllRead

LEMMA LocationsGathered ==
  ASSUME NEW f, NEW i, NEW n, NEW e, NEW V, NEW g, NEW R,
         R = [j \in Nat |-> ReadLocation(f, j)], AllRead(g, i, n, e, V, R)
  PROVE  ManyLocations(f, i, n) = Got([k \in 1..n |-> V[k]], e)
<1> DEFINE Eq(h) == h = [k \in 0..n |-> IF k = 0 THEN Got(<<>>, i)
                          ELSE LET r == ReadLocation(f, h[k - 1].i) IN Got(Append(h[k - 1].v, r.v), r.i)]
           h == CHOOSE x : Eq(x)
<1>0. n \in Nat /\ 0 \in 0..n /\ \A k \in 1..n : k - 1 \in 0..n /\ k \in 0..n /\ k # 0
  BY DEF AllRead
<1>1. Eq(g)
  <2>1. \A k \in 0..n : k # 0 => k - 1 \in 0..n
    BY <1>0
  <2> QED
    BY <2>1 DEF AllRead, Gathered
<1>2. Eq(h)
  <2> HIDE DEF Eq
  <2> QED
    BY <1>1
<1>3. ManyLocations(f, i, n) = h[n]
  BY DEF ReadMany, ManyLocations
<1> HIDE DEF h
<1>4. g[0] = h[0]
  BY <1>0, <1>1, <1>2
<1>5. ASSUME NEW k \in 1..n, g[k - 1] = h[k - 1] PROVE g[k] = h[k]
  BY <1>0, <1>1, <1>2, <1>5
<1>6. g[n] = h[n]
  <2> HIDE DEF Eq
  <2> QED
    BY <1>0, <1>4, <1>5, SameUpto
<1> QED
  BY <1>3, <1>6 DEF AllRead

LEMMA TablesGathered ==
  ASSUME NEW f, NEW i, NEW n, NEW e, NEW V, NEW g, NEW R,
         R = [j \in Nat |-> ReadTable(f, j)], AllRead(g, i, n, e, V, R)
  PROVE  ManyTables(f, i, n) = Got([k \in 1..n |-> V[k]], e)
<1> DEFINE Eq(h) == h = [k \in 0..n |-> IF k = 0 THEN Got(<<>>, i)
                          ELSE LET r == ReadTable(f, h[k - 1].i) IN Got(Append(h[k - 1].v, r.v), r.i)]
           h == CHOOSE x : Eq(x)
<1>0. n \in Nat /\ 0 \in 0..n /\ \A k \in 1..n : k - 1 \in 0..n /\ k \in 0..n /\ k # 0
  BY DEF AllRead
<1>1. Eq(g)
  <2>1. \A k \in 0..n : k # 0 => k - 1 \in 0..n
    BY <1>0
  <2> QED
    BY <2>1 DEF AllRead, Gathered
<1>2. Eq(h)
  <2> HIDE DEF Eq
  <2> QED
    BY <1>1
<1>3. ManyTables(f, i, n) = h[n]
  BY DEF ReadMany, ManyTables
<1> HIDE DEF h
<1>4. g[0] = h[0]
  BY <1>0, <1>1, <1>2
<1>5. ASSUME NEW k \in 1..n, g[k - 1] = h[k - 1] PROVE g[k] = h[k]
  BY <1>0, <1>1, <1>2, <1>5
<1>6. g[n] = h[n]
  <2> HIDE DEF Eq
  <2> QED
    BY <1>0, <1>4, <1>5, SameUpto
<1> QED
  BY <1>3, <1>6 DEF AllRead

LEMMA DbsGathered ==
  ASSUME NEW f, NEW i, NEW n, NEW e, NEW V, NEW g, NEW R,
         R = [j \in Nat |-> ReadDb(f, j)], AllRead(g, i, n, e, V, R)
  PROVE  ManyDbs(f, i, n) = Got([k \in 1..n |-> V[k]], e)
<1> DEFINE Eq(h) == h = [k \in 0..n |-> IF k = 0 THEN Got(<<>>, i)
                          ELSE LET r == ReadDb(f, h[k - 1].i) IN Got(Append(h[k - 1].v, r.v), r.i)]
           h == CHOOSE x : Eq(x)
<1>0. n \in Nat /\ 0 \in 0..n /\ \A k \in 1..n : k - 1 \in 0..n /\ k \in 0..n /\ k # 0
  BY DEF AllRead
<1>1. Eq(g)
  <2>1. \A k \in 0..n : k # 0 => k - 1 \in 0..n
    BY <1>0
  <2> QED
    BY <2>1 DEF AllRead, Gathered
<1>2. Eq(h)
  <2> HIDE DEF Eq
  <2> QED
    BY <1>1
<1>3. ManyDbs(f, i, n) = h[n]
  BY DEF ReadMany, ManyDbs
<1> HIDE DEF h
<1>4. g[0] = h[0]
  BY <1>0, <1>1, <1>2
<1>5. ASSUME NEW k \in 1..n, g[k - 1] = h[k - 1] PROVE g[k] = h[k]
  BY <1>0, <1>1, <1>2, <1>5
<1>6. g[n] = h[n]
  <2> HIDE DEF Eq
  <2> QED
    BY <1>0, <1>4, <1>5, SameUpto
<1> QED
  BY <1>3, <1>6 DEF AllRead

LEMMA NodesGathered ==
  ASSUME NEW f, NEW i, NEW n, NEW e, NEW V, NEW g, NEW R,
         R = [j \in Nat |-> ReadNode(f, j)], AllRead(g, i, n, e, V, R)
  PROVE  ManyNodes(f, i, n) = Got([k \in 1..n |-> V[k]], e)
<1> DEFINE Eq(h) == h = [k \in 0..n |-> IF k = 0 THEN Got(<<>>, i)
                          ELSE LET r == ReadNode(f, h[k - 1].i) IN Got(Append(h[k - 1].v, r.v), r.i)]
           h == CHOOSE x : Eq(x)
<1>0. n \in Nat /\ 0 \in 0..n /\ \A k \in 1..n : k - 1 \in 0..n /\ k \in 0..n /\ k # 0
  BY DEF AllRead
<1>1. Eq(g)
  <2>1. \A k \in 0..n : k # 0 => k - 1 \in 0..n
    BY <1>0
  <2> QED
    BY <2>1 DEF AllRead, Gathered
<1>2. Eq(h)
  <2> HIDE DEF Eq
  <2> QED
    BY <1>1
<1>3. ManyNodes(f, i, n) = h[n]
  BY DEF ReadMany, ManyNodes
<1> HIDE DEF h
<1>4. g[0] = h[0]
  BY <1>0, <1>1, <1>2
<1>5. ASSUME NEW k \in 1..n, g[k - 1] = h[k - 1] PROVE g[k] = h[k]
  BY <1>0, <1>1, <1>2, <1>5
<1>6. g[n] = h[n]
  <2> HIDE DEF Eq
  <2> QED
    BY <1>0, <1>4, <1>5, SameUpto
<1> QED
  BY <1>3, <1>6 DEF AllRead

(***************************************************************************)
(* Reading what was written, from the tokens up to the catalogue.          *)
(***************************************************************************)

\* A number that was written is read.
LEMMA TakeNumber ==
  ASSUME NEW f, NEW i, NEW n, At(f, i, <<Number(n)>>)
  PROVE  ReadNumber(f, i) = Got(n, Past(i, <<Number(n)>>))
<1>1. Len(f) \in Nat /\ i \in 1..Len(f) /\ f[i] = Number(n)
  <2>1. Len(<<Number(n)>>) = 1 /\ <<Number(n)>>[1] = Number(n) /\ 1 \in 1..1
    OBVIOUS
  <2>2. i \in Nat \ {0} /\ i + 1 <= Len(f) + 1 /\ Len(f) \in Nat /\ f[i + 1 - 1] = Number(n)
    BY <2>1 DEF At, IsSeq
  <2> QED
    BY <2>2
<1> QED
  BY <1>1, NumberRead DEF Past

\* A word that was written is read, if it is not empty: the reader skips the
\* spaces around an empty one.
LEMMA TakeWord ==
  ASSUME NEW f, NEW i, NEW w, w # NoName, At(f, i, Word(w))
  PROVE  ReadWord(f, i) = Got(w, Past(i, Word(w)))
<1>1. Word(w) = <<Text(w)>>
  BY DEF Word
<1>2. Len(f) \in Nat /\ i \in 1..Len(f) /\ f[i] = Text(w)
  <2>1. Len(<<Text(w)>>) = 1 /\ <<Text(w)>>[1] = Text(w) /\ 1 \in 1..1
    OBVIOUS
  <2>2. i \in Nat \ {0} /\ i + 1 <= Len(f) + 1 /\ Len(f) \in Nat /\ f[i + 1 - 1] = Text(w)
    BY <1>1, <2>1 DEF At, IsSeq
  <2> QED
    BY <2>2
<1> QED
  BY <1>1, <1>2, WordRead DEF Past

\* Numbers in a row.
LEMMA TakeNumbers ==
  ASSUME NEW f, NEW i, NEW n \in Nat, NEW V, IsSeq(f), i \in Nat \ {0}, i + n <= Len(f) + 1,
         \A k \in 1..n : f[i + k - 1] = Number(V[k])
  PROVE  ManyNumbers(f, i, n) = Got([k \in 1..n |-> V[k]], i + n)
<1> DEFINE P == [k \in 0..n |-> i + k]
           R == [j \in Nat |-> ReadNumber(f, j)]
<1>1. P[0] = i /\ P[n] = i + n /\ \A k \in 0..n : P[k] \in Nat
  OBVIOUS
<1>2. ASSUME NEW k \in 1..n PROVE R[P[k - 1]] = Got(V[k], P[k])
  <2>1. Len(f) \in Nat
    BY DEF IsSeq
  <2>2. P[k - 1] = i + k - 1 /\ P[k] = i + k /\ i + k - 1 \in 1..Len(f) /\ i + k - 1 \in Nat
        /\ (i + k - 1) + 1 = i + k
    BY <2>1
  <2>3. ReadNumber(f, i + k - 1) = Got(V[k], (i + k - 1) + 1)
    BY <2>2, NumberRead
  <2> QED
    BY <2>2, <2>3
<1> HIDE DEF P, R
<1>3. PICK g : AllRead(g, i, n, P[n], V, R)
  BY <1>1, <1>2, GatherAll
<1>4. ManyNumbers(f, i, n) = Got([k \in 1..n |-> V[k]], P[n])
  BY <1>3, NumbersGathered DEF R
<1> QED
  BY <1>1, <1>4

\* Words in a row.
LEMMA TakeWords ==
  ASSUME NEW f, NEW i, NEW n \in Nat, NEW V, IsSeq(f), i \in Nat \ {0}, i + n <= Len(f) + 1,
         \A k \in 1..n : f[i + k - 1] = Text(V[k])
  PROVE  ManyWords(f, i, n) = Got([k \in 1..n |-> V[k]], i + n)
<1> DEFINE P == [k \in 0..n |-> i + k]
           R == [j \in Nat |-> ReadWord(f, j)]
<1>1. P[0] = i /\ P[n] = i + n /\ \A k \in 0..n : P[k] \in Nat
  OBVIOUS
<1>2. ASSUME NEW k \in 1..n PROVE R[P[k - 1]] = Got(V[k], P[k])
  <2>1. Len(f) \in Nat
    BY DEF IsSeq
  <2>2. P[k - 1] = i + k - 1 /\ P[k] = i + k /\ i + k - 1 \in 1..Len(f) /\ i + k - 1 \in Nat
        /\ (i + k - 1) + 1 = i + k
    BY <2>1
  <2>3. ReadWord(f, i + k - 1) = Got(V[k], (i + k - 1) + 1)
    BY <2>2, WordRead
  <2> QED
    BY <2>2, <2>3
<1> HIDE DEF P, R
<1>3. PICK g : AllRead(g, i, n, P[n], V, R)
  BY <1>1, <1>2, GatherAll
<1>4. ManyWords(f, i, n) = Got([k \in 1..n |-> V[k]], P[n])
  BY <1>3, WordsGathered DEF R
<1> QED
  BY <1>1, <1>4

\* The two numbers of a column or a replica.
LEMMA TakeTwoNumbers ==
  ASSUME NEW f, NEW i, NEW a, NEW b, At(f, i, <<Number(a), Number(b)>>)
  PROVE  ManyNumbers(f, i, 2) = Got(<<a, b>>, Past(i, <<Number(a), Number(b)>>))
<1> DEFINE V == <<a, b>>
           w == <<Number(a), Number(b)>>
<1>1. /\ Len(w) = 2 /\ [k \in 1..2 |-> V[k]] = V
      /\ \A k \in 1..2 : w[k] = Number(V[k])
  OBVIOUS
<1>2. /\ IsSeq(f) /\ i \in Nat \ {0} /\ i + 2 <= Len(f) + 1
      /\ \A k \in 1..2 : f[i + k - 1] = Number(V[k])
  <2> HIDE DEF w, V
  <2> QED
    BY <1>1 DEF At, w
<1> HIDE DEF V
<1>3. ManyNumbers(f, i, 2) = Got([k \in 1..2 |-> V[k]], i + 2)
  BY <1>2, TakeNumbers
<1> QED
  BY <1>1, <1>3 DEF V, Past

\* The three numbers of a partition.
LEMMA TakeThreeNumbers ==
  ASSUME NEW f, NEW i, NEW a, NEW b, NEW c, At(f, i, <<Number(a), Number(b), Number(c)>>)
  PROVE  ManyNumbers(f, i, 3) = Got(<<a, b, c>>, Past(i, <<Number(a), Number(b), Number(c)>>))
<1> DEFINE V == <<a, b, c>>
           w == <<Number(a), Number(b), Number(c)>>
<1>1. /\ Len(w) = 3 /\ [k \in 1..3 |-> V[k]] = V
      /\ \A k \in 1..3 : w[k] = Number(V[k])
  OBVIOUS
<1>2. /\ IsSeq(f) /\ i \in Nat \ {0} /\ i + 3 <= Len(f) + 1
      /\ \A k \in 1..3 : f[i + k - 1] = Number(V[k])
  <2> HIDE DEF w, V
  <2> QED
    BY <1>1 DEF At, w
<1> HIDE DEF V
<1>3. ManyNumbers(f, i, 3) = Got([k \in 1..3 |-> V[k]], i + 3)
  BY <1>2, TakeNumbers
<1> QED
  BY <1>1, <1>3 DEF V, Past

\* Two words in a row.
LEMMA TakeTwoWords ==
  ASSUME NEW f, NEW i, NEW a, NEW b, At(f, i, <<Text(a), Text(b)>>)
  PROVE  ManyWords(f, i, 2) = Got(<<a, b>>, Past(i, <<Text(a), Text(b)>>))
<1> DEFINE V == <<a, b>>
           w == <<Text(a), Text(b)>>
<1>1. /\ Len(w) = 2 /\ [k \in 1..2 |-> V[k]] = V
      /\ \A k \in 1..2 : w[k] = Text(V[k])
  OBVIOUS
<1>2. /\ IsSeq(f) /\ i \in Nat \ {0} /\ i + 2 <= Len(f) + 1
      /\ \A k \in 1..2 : f[i + k - 1] = Text(V[k])
  <2> HIDE DEF w, V
  <2> QED
    BY <1>1 DEF At, w
<1> HIDE DEF V
<1>3. ManyWords(f, i, 2) = Got([k \in 1..2 |-> V[k]], i + 2)
  BY <1>2, TakeWords
<1> QED
  BY <1>1, <1>3 DEF V, Past

\* What has to hold of a value for its tokens to be read as the same value.
ColumnFits(c) == c = [name |-> c.name, type |-> c.type] /\ c.name # NoName
PartitionFits(p) == p = [p_id |-> p.p_id, min_range |-> p.min_range, max_range |-> p.max_range]
ReplicaFits(r) == r = [ip_addr |-> r.ip_addr, role |-> r.role] /\ r.ip_addr # NoName
LocationFits(l) ==
  /\ l = [p_id |-> l.p_id, replicas |-> l.replicas]
  /\ IsSeq(l.replicas) /\ \A k \in 1..Len(l.replicas) : ReplicaFits(l.replicas[k])
TableShape(tab) == tab = [k \in Fields |-> tab[k]]
TableFits(tab) ==
  /\ TableShape(tab)
  /\ tab.name # NoName /\ tab.partition_key_name # NoName /\ tab.partitions # <<>>
  /\ IsSeq(tab.columns) /\ \A k \in 1..Len(tab.columns) : ColumnFits(tab.columns[k])
  /\ IsSeq(tab.partitions) /\ \A k \in 1..Len(tab.partitions) : PartitionFits(tab.partitions[k])
  /\ IsSeq(tab.table_location)
  /\ \A k \in 1..Len(tab.table_location) : LocationFits(tab.table_location[k])
IsMap(m) == m = [x \in DOMAIN m |-> m[x]] /\ IsFiniteSet(DOMAIN m)
DbFits(e) ==
  /\ e = <<e[1], e[2]>> /\ e[2] = [next_oid |-> e[2].next_oid, tabs |-> e[2].tabs]
  /\ IsMap(e[2].tabs)
  /\ \A x \in DOMAIN e[2].tabs : TableFits(e[2].tabs[x]) /\ e[2].tabs[x].name = x
NodeFits(e) ==
  e[2] = [ip_addr |-> e[2].ip_addr, activate |-> e[2].activate,
          leader_par_cnt |-> e[2].leader_par_cnt, follower_par_cnt |-> e[2].follower_par_cnt]

\* A column is read where it was written.
LEMMA ColumnRead ==
  ASSUME NEW c, ColumnFits(c)
  PROVE  /\ IsSeq(WriteColumn(c))
         /\ \A f, i : At(f, i, WriteColumn(c)) => ReadColumn(f, i) = Got(c, Past(i, WriteColumn(c)))
<1> DEFINE a == Word(c.name)
           b == <<Number(c.type)>>
<1>1. IsSeq(a) /\ IsSeq(b)
  BY TupleIsSeq DEF Word
<1>2. WriteColumn(c) = a \o b
  BY DEF WriteColumn
<1>3. Joins(a \o b, a, b) /\ IsSeq(a \o b)
  BY <1>1, JoinsIsSeq DEF Joins
<1>4. ASSUME NEW f, NEW i, At(f, i, a \o b) PROVE ReadColumn(f, i) = Got(c, Past(i, a \o b))
  <2>1. At(f, i, a) /\ At(f, Past(i, a), b) /\ Past(i, a \o b) = Past(Past(i, a), b)
    BY <1>3, <1>4, AtJoins
  <2>2. ReadWord(f, i) = Got(c.name, Past(i, a))
    BY <2>1, TakeWord DEF ColumnFits
  <2>3. ReadNumber(f, Past(i, a)) = Got(c.type, Past(i, a \o b))
    BY <2>1, TakeNumber
  <2> HIDE DEF a, b
  <2> QED
    BY <2>2, <2>3 DEF ReadColumn, Got, ColumnFits
<1> QED
  BY <1>2, <1>3, <1>4

\* And a vector of columns.
LEMMA ColumnsRead ==
  ASSUME NEW s, IsSeq(s), \A k \in 1..Len(s) : ColumnFits(s[k])
  PROVE  /\ IsSeq(ColumnTokens(s))
         /\ \A f, i : At(f, i, ColumnTokens(s)) =>
              ManyColumns(f, i, Len(s)) = Got(s, Past(i, ColumnTokens(s)))
<1> DEFINE n == Len(s)
           W == [k \in 1..n |-> WriteColumn(s[k])]
           V == [k \in 1..n |-> s[k]]
<1>1. n \in Nat
  BY DEF IsSeq
<1>2. PICK u : Joined(u, n, W) /\ ColumnTokens(s) = u[n]
  BY <1>1, EachColumn
<1>3. ASSUME NEW k \in 1..n
      PROVE  /\ IsSeq(W[k])
             /\ \A f, j : At(f, j, W[k]) => ReadColumn(f, j) = Got(V[k], Past(j, W[k]))
  <2>1. W[k] = WriteColumn(s[k]) /\ V[k] = s[k] /\ ColumnFits(s[k])
    OBVIOUS
  <2> HIDE DEF W, V
  <2> QED
    BY <2>1, ColumnRead
<1>4. V = [k \in 1..n |-> V[k]] /\ V = s
  BY DEF IsSeq
<1> HIDE DEF V, W
<1>5. IsSeq(u[n])
  <2>1. n \in 0..n /\ \A k \in 1..n : IsSeq(W[k])
    BY <1>1, <1>3
  <2>2. \A k \in 0..n : IsSeq(u[k])
    BY <1>1, <1>2, <2>1, JoinedSteps
  <2> QED
    BY <2>1, <2>2
<1>6. ASSUME NEW f, NEW i, At(f, i, u[n]) PROVE ManyColumns(f, i, n) = Got(V, Past(i, u[n]))
  <2> DEFINE R == [j \in Nat |-> ReadColumn(f, j)]
  <2>1. \A j \in Nat : R[j] = ReadColumn(f, j)
    OBVIOUS
  <2> HIDE DEF R
  <2>2. AllWritten(f, i, n, W, u, V, R)
    BY <1>1, <1>2, <1>3, <1>6, <2>1 DEF AllWritten
  <2>3. PICK g : AllRead(g, i, n, Past(i, u[n]), V, R)
    BY <2>2, ReadAll, Zenon
  <2>4. ManyColumns(f, i, n) = Got([k \in 1..n |-> V[k]], Past(i, u[n]))
    BY <2>3, ColumnsGathered DEF R
  <2> QED
    BY <1>4, <2>4
<1> QED
  BY <1>2, <1>4, <1>5, <1>6

\* A partition is read where it was written.
LEMMA PartitionRead ==
  ASSUME NEW p, PartitionFits(p)
  PROVE  /\ IsSeq(WritePartition(p))
         /\ \A f, i : At(f, i, WritePartition(p)) =>
                        ReadPartition(f, i) = Got(p, Past(i, WritePartition(p)))
<1> DEFINE w == <<PartitionName, Number(p.p_id), Text(p.min_range), Text(p.max_range)>>
<1>1. WritePartition(p) = w
  BY DEF WritePartition
<1>2. IsSeq(w) /\ Len(w) = 4
  <2>1. w \in Seq({PartitionName, Number(p.p_id), Text(p.min_range), Text(p.max_range)})
    OBVIOUS
  <2> QED
    BY <2>1 DEF IsSeq
<1>3. /\ w[1] = Text("p") /\ w[2] = Number(p.p_id) /\ w[3] = Text(p.min_range)
      /\ w[4] = Text(p.max_range)
  BY DEF PartitionName
<1> HIDE DEF w
<1>4. ASSUME NEW f, NEW i, At(f, i, w) PROVE ReadPartition(f, i) = Got(p, Past(i, w))
  <2>1. IsSeq(f) /\ Len(f) \in Nat /\ i \in Nat \ {0} /\ i + 4 <= Len(f) + 1
        /\ \A j \in 1..4 : f[i + j - 1] = w[j]
    BY <1>2, <1>4 DEF At, IsSeq
  <2>2. f[i] = w[1] /\ f[i + 1] = w[2] /\ f[i + 2] = w[3] /\ f[i + 3] = w[4]
    <3>1. f[i + 1 - 1] = w[1] /\ f[i + 2 - 1] = w[2] /\ f[i + 3 - 1] = w[3] /\ f[i + 4 - 1] = w[4]
      BY <2>1
    <3>2. i + 1 - 1 = i /\ i + 2 - 1 = i + 1 /\ i + 3 - 1 = i + 2 /\ i + 4 - 1 = i + 3
      BY <2>1
    <3> QED
      BY <3>1, <3>2
  <2>3. i \in 1..Len(f) /\ i + 1 \in 1..Len(f) /\ (i + 1) + 1 = i + 2
    BY <2>1
  <2>4. ReadWord(f, i) = Got("p", i + 1)
    BY <1>3, <2>2, <2>3, WordRead
  <2>5. ReadNumber(f, i + 1) = Got(p.p_id, i + 2)
    <3>1. ReadNumber(f, i + 1) = Got(p.p_id, (i + 1) + 1)
      BY <1>3, <2>2, <2>3, NumberRead
    <3> QED
      BY <2>3, <3>1
  <2>6. ManyWords(f, i + 2, 2) = Got(<<p.min_range, p.max_range>>, i + 4)
    <3> DEFINE j == i + 2
               x == <<Text(p.min_range), Text(p.max_range)>>
    <3>1. Len(x) = 2 /\ x[1] = Text(p.min_range) /\ x[2] = Text(p.max_range) /\ IsSeq(x)
      BY TupleIsSeq
    <3>2. j + 1 - 1 = j /\ j + 2 - 1 = i + 3 /\ j \in Nat \ {0} /\ j + 2 <= Len(f) + 1 /\ j + 2 = i + 4
      BY <2>1
    <3>3. \A k \in 1..2 : f[j + k - 1] = x[k]
      <4>1. \A k \in 1..2 : k = 1 \/ k = 2
        OBVIOUS
      <4>2. f[j + 1 - 1] = x[1] /\ f[j + 2 - 1] = x[2]
        BY <1>3, <2>2, <3>1, <3>2
      <4> QED
        BY <4>1, <4>2
    <3> HIDE DEF j, x
    <3>4. At(f, j, x)
      BY <2>1, <3>1, <3>2, <3>3 DEF At
    <3>5. ManyWords(f, j, 2) = Got(<<p.min_range, p.max_range>>, j + 2)
      BY <3>1, <3>4, TakeTwoWords DEF x, Past
    <3> QED
      BY <3>2, <3>5 DEF j
  <2>7. ReadPartition(f, i) = Got(p, i + 4)
    BY <2>4, <2>5, <2>6 DEF ReadPartition, ManyWords, Got, PartitionFits
  <2> QED
    BY <1>2, <2>7 DEF Past
<1> QED
  BY <1>1, <1>2, <1>4

\* And a vector of partitions.
LEMMA PartitionsRead ==
  ASSUME NEW s, IsSeq(s), \A k \in 1..Len(s) : PartitionFits(s[k])
  PROVE  /\ IsSeq(PartitionTokens(s))
         /\ \A f, i : At(f, i, PartitionTokens(s)) =>
              ManyPartitions(f, i, Len(s)) = Got(s, Past(i, PartitionTokens(s)))
<1> DEFINE n == Len(s)
           W == [k \in 1..n |-> WritePartition(s[k])]
           V == [k \in 1..n |-> s[k]]
<1>1. n \in Nat
  BY DEF IsSeq
<1>2. PICK u : Joined(u, n, W) /\ PartitionTokens(s) = u[n]
  BY <1>1, EachPartition
<1>3. ASSUME NEW k \in 1..n
      PROVE  /\ IsSeq(W[k])
             /\ \A f, j : At(f, j, W[k]) => ReadPartition(f, j) = Got(V[k], Past(j, W[k]))
  <2>1. W[k] = WritePartition(s[k]) /\ V[k] = s[k] /\ PartitionFits(s[k])
    OBVIOUS
  <2> HIDE DEF W, V
  <2> QED
    BY <2>1, PartitionRead
<1>4. V = [k \in 1..n |-> V[k]] /\ V = s
  BY DEF IsSeq
<1> HIDE DEF V, W
<1>5. IsSeq(u[n])
  <2>1. n \in 0..n /\ \A k \in 1..n : IsSeq(W[k])
    BY <1>1, <1>3
  <2>2. \A k \in 0..n : IsSeq(u[k])
    BY <1>1, <1>2, <2>1, JoinedSteps
  <2> QED
    BY <2>1, <2>2
<1>6. ASSUME NEW f, NEW i, At(f, i, u[n]) PROVE ManyPartitions(f, i, n) = Got(V, Past(i, u[n]))
  <2> DEFINE R == [j \in Nat |-> ReadPartition(f, j)]
  <2>1. \A j \in Nat : R[j] = ReadPartition(f, j)
    OBVIOUS
  <2> HIDE DEF R
  <2>2. AllWritten(f, i, n, W, u, V, R)
    BY <1>1, <1>2, <1>3, <1>6, <2>1 DEF AllWritten
  <2>3. PICK g : AllRead(g, i, n, Past(i, u[n]), V, R)
    BY <2>2, ReadAll, Zenon
  <2>4. ManyPartitions(f, i, n) = Got([k \in 1..n |-> V[k]], Past(i, u[n]))
    BY <2>3, PartitionsGathered DEF R
  <2> QED
    BY <1>4, <2>4
<1> QED
  BY <1>2, <1>4, <1>5, <1>6

\* A replica is read where it was written.
LEMMA ReplicaRead ==
  ASSUME NEW r, ReplicaFits(r)
  PROVE  /\ IsSeq(WriteReplica(r))
         /\ \A f, i : At(f, i, WriteReplica(r)) => ReadReplica(f, i) = Got(r, Past(i, WriteReplica(r)))
<1> DEFINE a == Word(r.ip_addr)
           b == <<Number(r.role)>>
<1>1. IsSeq(a) /\ IsSeq(b)
  BY TupleIsSeq DEF Word
<1>2. WriteReplica(r) = a \o b
  BY DEF WriteReplica
<1>3. Joins(a \o b, a, b) /\ IsSeq(a \o b)
  BY <1>1, JoinsIsSeq DEF Joins
<1>4. ASSUME NEW f, NEW i, At(f, i, a \o b) PROVE ReadReplica(f, i) = Got(r, Past(i, a \o b))
  <2>1. At(f, i, a) /\ At(f, Past(i, a), b) /\ Past(i, a \o b) = Past(Past(i, a), b)
    BY <1>3, <1>4, AtJoins
  <2>2. ReadWord(f, i) = Got(r.ip_addr, Past(i, a))
    BY <2>1, TakeWord DEF ReplicaFits
  <2>3. ReadNumber(f, Past(i, a)) = Got(r.role, Past(i, a \o b))
    BY <2>1, TakeNumber
  <2> HIDE DEF a, b
  <2> QED
    BY <2>2, <2>3 DEF ReadReplica, Got, ReplicaFits
<1> QED
  BY <1>2, <1>3, <1>4

\* And a vector of replicas.
LEMMA ReplicasRead ==
  ASSUME NEW s, IsSeq(s), \A k \in 1..Len(s) : ReplicaFits(s[k])
  PROVE  /\ IsSeq(ReplicaTokens(s))
         /\ \A f, i : At(f, i, ReplicaTokens(s)) =>
              ManyReplicas(f, i, Len(s)) = Got(s, Past(i, ReplicaTokens(s)))
<1> DEFINE n == Len(s)
           W == [k \in 1..n |-> WriteReplica(s[k])]
           V == [k \in 1..n |-> s[k]]
<1>1. n \in Nat
  BY DEF IsSeq
<1>2. PICK u : Joined(u, n, W) /\ ReplicaTokens(s) = u[n]
  BY <1>1, EachReplica
<1>3. ASSUME NEW k \in 1..n
      PROVE  /\ IsSeq(W[k])
             /\ \A f, j : At(f, j, W[k]) => ReadReplica(f, j) = Got(V[k], Past(j, W[k]))
  <2>1. W[k] = WriteReplica(s[k]) /\ V[k] = s[k] /\ ReplicaFits(s[k])
    OBVIOUS
  <2> HIDE DEF W, V
  <2> QED
    BY <2>1, ReplicaRead
<1>4. V = [k \in 1..n |-> V[k]] /\ V = s
  BY DEF IsSeq
<1> HIDE DEF V, W
<1>5. IsSeq(u[n])
  <2>1. n \in 0..n /\ \A k \in 1..n : IsSeq(W[k])
    BY <1>1, <1>3
  <2>2. \A k \in 0..n : IsSeq(u[k])
    BY <1>1, <1>2, <2>1, JoinedSteps
  <2> QED
    BY <2>1, <2>2
<1>6. ASSUME NEW f, NEW i, At(f, i, u[n]) PROVE ManyReplicas(f, i, n) = Got(V, Past(i, u[n]))
  <2> DEFINE R == [j \in Nat |-> ReadReplica(f, j)]
  <2>1. \A j \in Nat : R[j] = ReadReplica(f, j)
    OBVIOUS
  <2> HIDE DEF R
  <2>2. AllWritten(f, i, n, W, u, V, R)
    BY <1>1, <1>2, <1>3, <1>6, <2>1 DEF AllWritten
  <2>3. PICK g : AllRead(g, i, n, Past(i, u[n]), V, R)
    BY <2>2, ReadAll, Zenon
  <2>4. ManyReplicas(f, i, n) = Got([k \in 1..n |-> V[k]], Past(i, u[n]))
    BY <2>3, ReplicasGathered DEF R
  <2> QED
    BY <1>4, <2>4
<1> QED
  BY <1>2, <1>4, <1>5, <1>6

\* A location is read where it was written, with its replicas.
LEMMA LocationRead ==
  ASSUME NEW l, LocationFits(l)
  PROVE  /\ IsSeq(WriteLocation(l))
         /\ \A f, i : At(f, i, WriteLocation(l)) =>
                        ReadLocation(f, i) = Got(l, Past(i, WriteLocation(l)))
<1> DEFINE a == <<Number(l.p_id), Number(Len(l.replicas))>>
           b == ReplicaTokens(l.replicas)
<1>0. /\ IsSeq(b)
      /\ \A f, i : At(f, i, b) => ManyReplicas(f, i, Len(l.replicas)) = Got(l.replicas, Past(i, b))
  BY ReplicasRead DEF LocationFits
<1>1. IsSeq(a) /\ IsSeq(b) /\ Len(a) = 2
  BY <1>0, TupleIsSeq
<1>2. WriteLocation(l) = a \o b
  BY DEF WriteLocation, ReplicaTokens
<1> HIDE DEF b
<1>3. Joins(a \o b, a, b) /\ IsSeq(a \o b)
  BY <1>0, <1>1, JoinsIsSeq DEF Joins
<1>4. ASSUME NEW f, NEW i, At(f, i, a \o b) PROVE ReadLocation(f, i) = Got(l, Past(i, a \o b))
  <2>1. At(f, i, a) /\ At(f, Past(i, a), b) /\ Past(i, a \o b) = Past(Past(i, a), b)
    BY <1>3, <1>4, AtJoins
  <2>2. ManyNumbers(f, i, 2) = Got(<<l.p_id, Len(l.replicas)>>, Past(i, a))
    BY <2>1, TakeTwoNumbers
  <2>3. ManyReplicas(f, Past(i, a), Len(l.replicas)) = Got(l.replicas, Past(i, a \o b))
    BY <1>0, <2>1
  <2> HIDE DEF a
  <2> QED
    BY <2>2, <2>3 DEF ReadLocation, ManyNumbers, ManyReplicas, Got, LocationFits
<1> QED
  BY <1>2, <1>3, <1>4

\* And a vector of locations.
LEMMA LocationsRead ==
  ASSUME NEW s, IsSeq(s), \A k \in 1..Len(s) : LocationFits(s[k])
  PROVE  /\ IsSeq(LocationTokens(s))
         /\ \A f, i : At(f, i, LocationTokens(s)) =>
              ManyLocations(f, i, Len(s)) = Got(s, Past(i, LocationTokens(s)))
<1> DEFINE n == Len(s)
           W == [k \in 1..n |-> WriteLocation(s[k])]
           V == [k \in 1..n |-> s[k]]
<1>1. n \in Nat
  BY DEF IsSeq
<1>2. PICK u : Joined(u, n, W) /\ LocationTokens(s) = u[n]
  BY <1>1, EachLocation
<1>3. ASSUME NEW k \in 1..n
      PROVE  /\ IsSeq(W[k])
             /\ \A f, j : At(f, j, W[k]) => ReadLocation(f, j) = Got(V[k], Past(j, W[k]))
  <2>1. W[k] = WriteLocation(s[k]) /\ V[k] = s[k] /\ LocationFits(s[k])
    OBVIOUS
  <2> HIDE DEF W, V
  <2> QED
    BY <2>1, LocationRead
<1>4. V = [k \in 1..n |-> V[k]] /\ V = s
  BY DEF IsSeq
<1> HIDE DEF V, W
<1>5. IsSeq(u[n])
  <2>1. n \in 0..n /\ \A k \in 1..n : IsSeq(W[k])
    BY <1>1, <1>3
  <2>2. \A k \in 0..n : IsSeq(u[k])
    BY <1>1, <1>2, <2>1, JoinedSteps
  <2> QED
    BY <2>1, <2>2
<1>6. ASSUME NEW f, NEW i, At(f, i, u[n]) PROVE ManyLocations(f, i, n) = Got(V, Past(i, u[n]))
  <2> DEFINE R == [j \in Nat |-> ReadLocation(f, j)]
  <2>1. \A j \in Nat : R[j] = ReadLocation(f, j)
    OBVIOUS
  <2> HIDE DEF R
  <2>2. AllWritten(f, i, n, W, u, V, R)
    BY <1>1, <1>2, <1>3, <1>6, <2>1 DEF AllWritten
  <2>3. PICK g : AllRead(g, i, n, Past(i, u[n]), V, R)
    BY <2>2, ReadAll, Zenon
  <2>4. ManyLocations(f, i, n) = Got([k \in 1..n |-> V[k]], Past(i, u[n]))
    BY <2>3, LocationsGathered DEF R
  <2> QED
    BY <1>4, <2>4
<1> QED
  BY <1>2, <1>4, <1>5, <1>6

\* A table is the record of its fields.
LEMMA TableIsRecord ==
  ASSUME NEW tab, TableShape(tab)
  PROVE  tab = [oid |-> tab.oid, name |-> tab.name, columns |-> tab.columns,
                partition_type |-> tab.partition_type, partition_key_name |-> tab.partition_key_name,
                partition_key_type |-> tab.partition_key_type, partition_cnt |-> tab.partition_cnt,
                partitions |-> tab.partitions, duplicate_type |-> tab.duplicate_type,
                table_location |-> tab.table_location]
<1> DEFINE r == [oid |-> tab.oid, name |-> tab.name, columns |-> tab.columns,
                partition_type |-> tab.partition_type, partition_key_name |-> tab.partition_key_name,
                partition_key_type |-> tab.partition_key_type, partition_cnt |-> tab.partition_cnt,
                partitions |-> tab.partitions, duplicate_type |-> tab.duplicate_type,
                table_location |-> tab.table_location]
<1>1. r = [k \in Fields |-> r[k]]
  BY DEF Fields
<1>2. \A k \in Fields : r[k] = tab[k]
  BY DEF Fields
<1> HIDE DEF r
<1>3. r = tab
  BY <1>1, <1>2 DEF TableShape
<1> QED
  BY <1>3 DEF r

\* A triple is a sequence.
LEMMA TripleIsSeq ==
  ASSUME NEW a, NEW b, NEW c
  PROVE  IsSeq(<<a, b, c>>)
<1>1. <<a, b, c>> \in Seq({a, b, c})
  OBVIOUS
<1> QED
  BY <1>1 DEF IsSeq

\* The number of columns, and the columns.
LEMMA WrittenColumns ==
  ASSUME NEW cols, IsSeq(cols), \A k \in 1..Len(cols) : ColumnFits(cols[k])
  PROVE  /\ IsSeq(WriteColumns(cols))
         /\ \A f, i : At(f, i, WriteColumns(cols)) =>
                        ReadColumns(f, i) = Got(cols, Past(i, WriteColumns(cols)))
<1> DEFINE a == <<Number(Len(cols))>>
           b == ColumnTokens(cols)
<1>0. /\ IsSeq(b)
      /\ \A f, i : At(f, i, b) => ManyColumns(f, i, Len(cols)) = Got(cols, Past(i, b))
  BY ColumnsRead
<1>1. IsSeq(a) /\ IsSeq(b)
  BY <1>0, TupleIsSeq
<1>2. WriteColumns(cols) = a \o b
  BY DEF WriteColumns, ColumnTokens
<1>3. Joins(a \o b, a, b) /\ IsSeq(a \o b)
  BY <1>1, JoinsIsSeq DEF Joins
<1>4. ASSUME NEW f, NEW i, At(f, i, a \o b) PROVE ReadColumns(f, i) = Got(cols, Past(i, a \o b))
  <2>1. At(f, i, a) /\ At(f, Past(i, a), b) /\ Past(i, a \o b) = Past(Past(i, a), b)
    BY <1>3, <1>4, AtJoins
  <2>2. ReadNumber(f, i) = Got(Len(cols), Past(i, a))
    BY <2>1, TakeNumber, Zenon
  <2>3. ManyColumns(f, Past(i, a), Len(cols)) = Got(cols, Past(i, a \o b))
    BY <1>0, <2>1, Zenon
  <2> HIDE DEF a, b
  <2> QED
    BY <2>2, <2>3 DEF ReadColumns, ManyColumns, Got
<1> QED
  BY <1>2, <1>3, <1>4, Zenon

\* A table is read where it was written, with its columns, partitions and
\* locations.
LEMMA TableRead ==
  ASSUME NEW tab, TableFits(tab)
  PROVE  /\ IsSeq(WriteTable(tab))
         /\ \A f, i : At(f, i, WriteTable(tab)) =>
                        ReadTable(f, i) = Got(tab, Past(i, WriteTable(tab)))
<1> DEFINE x1 == <<Number(tab.oid)>>
           x2 == Word(tab.name)
           x3 == <<Number(tab.partition_type)>>
           x4 == Word(tab.partition_key_name)
           x5 == <<Number(tab.partition_key_type), Number(tab.partition_cnt),
                   Number(Len(tab.partitions))>>
           x6 == WriteColumns(tab.columns)
           x7 == PartitionTokens(tab.partitions)
           x8 == <<Number(tab.oid), Number(tab.duplicate_type), Number(Len(tab.table_location))>>
           x9 == LocationTokens(tab.table_location)
           c2 == x1 \o x2
           c3 == c2 \o x3
           c4 == c3 \o x4
           c5 == c4 \o x5
           c6 == c5 \o x6
           c7 == c6 \o x7
           c8 == c7 \o x8
           c9 == c8 \o x9
<1>0. WriteTable(tab) = c9
  BY DEF WriteTable, PartitionTokens, LocationTokens, TableFits
<1>1. /\ IsSeq(x1) /\ IsSeq(x2) /\ IsSeq(x3) /\ IsSeq(x4) /\ IsSeq(x5)
      /\ IsSeq(x6) /\ IsSeq(x7) /\ IsSeq(x8) /\ IsSeq(x9)
  <2>1. IsSeq(x1) /\ IsSeq(x2) /\ IsSeq(x3) /\ IsSeq(x4)
    BY TupleIsSeq DEF Word
  <2>2. IsSeq(x5) /\ IsSeq(x8)
    BY TripleIsSeq
  <2>3. IsSeq(x6)
    BY WrittenColumns DEF TableFits
  <2>4. IsSeq(x7)
    BY PartitionsRead DEF TableFits
  <2>5. IsSeq(x9)
    BY LocationsRead DEF TableFits
  <2> QED
    BY <2>1, <2>2, <2>3, <2>4, <2>5
<1>2. /\ \A f, i : At(f, i, x1) => ReadNumber(f, i) = Got(tab.oid, Past(i, x1))
      /\ \A f, i : At(f, i, x3) => ReadNumber(f, i) = Got(tab.partition_type, Past(i, x3))
  BY TakeNumber, Zenon
<1>3. /\ \A f, i : At(f, i, x2) => ReadWord(f, i) = Got(tab.name, Past(i, x2))
      /\ \A f, i : At(f, i, x4) => ReadWord(f, i) = Got(tab.partition_key_name, Past(i, x4))
  <2>1. tab.name # NoName /\ tab.partition_key_name # NoName
    BY DEF TableFits
  <2> QED
    BY <2>1, TakeWord, Zenon
<1>4. /\ \A f, i : At(f, i, x5) => ManyNumbers(f, i, 3) =
           Got(<<tab.partition_key_type, tab.partition_cnt, Len(tab.partitions)>>, Past(i, x5))
      /\ \A f, i : At(f, i, x8) => ManyNumbers(f, i, 3) =
           Got(<<tab.oid, tab.duplicate_type, Len(tab.table_location)>>, Past(i, x8))
  <2>1. \A f, i : At(f, i, x5) => ManyNumbers(f, i, 3) =
           Got(<<tab.partition_key_type, tab.partition_cnt, Len(tab.partitions)>>, Past(i, x5))
    BY TakeThreeNumbers
  <2>2. \A f, i : At(f, i, x8) => ManyNumbers(f, i, 3) =
           Got(<<tab.oid, tab.duplicate_type, Len(tab.table_location)>>, Past(i, x8))
    BY TakeThreeNumbers
  <2> QED
    BY <2>1, <2>2, Zenon
<1>5. \A f, i : At(f, i, x6) => ReadColumns(f, i) = Got(tab.columns, Past(i, x6))
  BY WrittenColumns, Zenon DEF TableFits
<1>6. \A f, i : At(f, i, x7) =>
        ManyPartitions(f, i, Len(tab.partitions)) = Got(tab.partitions, Past(i, x7))
  BY PartitionsRead, Zenon DEF TableFits
<1>7. \A f, i : At(f, i, x9) =>
        ManyLocations(f, i, Len(tab.table_location)) = Got(tab.table_location, Past(i, x9))
  BY LocationsRead, Zenon DEF TableFits
<1> HIDE DEF x1, x2, x3, x4, x5, x6, x7, x8, x9
<1>8. /\ Joins(c2, x1, x2) /\ Joins(c3, c2, x3) /\ Joins(c4, c3, x4) /\ Joins(c5, c4, x5)
      /\ Joins(c6, c5, x6) /\ Joins(c7, c6, x7) /\ Joins(c8, c7, x8) /\ Joins(c9, c8, x9)
  <2>2. Joins(c2, x1, x2) /\ IsSeq(c2)
    BY <1>1, JoinsIsSeq, Zenon DEF Joins
  <2>3. Joins(c3, c2, x3) /\ IsSeq(c3)
    BY <1>1, <2>2, JoinsIsSeq, Zenon DEF Joins
  <2>4. Joins(c4, c3, x4) /\ IsSeq(c4)
    BY <1>1, <2>3, JoinsIsSeq, Zenon DEF Joins
  <2>5. Joins(c5, c4, x5) /\ IsSeq(c5)
    BY <1>1, <2>4, JoinsIsSeq, Zenon DEF Joins
  <2>6. Joins(c6, c5, x6) /\ IsSeq(c6)
    BY <1>1, <2>5, JoinsIsSeq, Zenon DEF Joins
  <2>7. Joins(c7, c6, x7) /\ IsSeq(c7)
    BY <1>1, <2>6, JoinsIsSeq, Zenon DEF Joins
  <2>8. Joins(c8, c7, x8) /\ IsSeq(c8)
    BY <1>1, <2>7, JoinsIsSeq, Zenon DEF Joins
  <2>9. Joins(c9, c8, x9) /\ IsSeq(c9)
    BY <1>1, <2>8, JoinsIsSeq, Zenon DEF Joins
  <2> QED
    BY <2>2, <2>3, <2>4, <2>5, <2>6, <2>7, <2>8, <2>9
<1>9. ASSUME NEW f, NEW i, At(f, i, c9) PROVE ReadTable(f, i) = Got(tab, Past(i, c9))
  <2> HIDE DEF c2, c3, c4, c5, c6, c7, c8, c9
  <2>9. At(f, i, c8) /\ At(f, Past(i, c8), x9) /\ Past(i, c9) = Past(Past(i, c8), x9)
    BY <1>8, <1>9, AtJoins
  <2>8. At(f, i, c7) /\ At(f, Past(i, c7), x8) /\ Past(i, c8) = Past(Past(i, c7), x8)
    BY <1>8, <2>9, AtJoins
  <2>7. At(f, i, c6) /\ At(f, Past(i, c6), x7) /\ Past(i, c7) = Past(Past(i, c6), x7)
    BY <1>8, <2>8, AtJoins
  <2>6. At(f, i, c5) /\ At(f, Past(i, c5), x6) /\ Past(i, c6) = Past(Past(i, c5), x6)
    BY <1>8, <2>7, AtJoins
  <2>5. At(f, i, c4) /\ At(f, Past(i, c4), x5) /\ Past(i, c5) = Past(Past(i, c4), x5)
    BY <1>8, <2>6, AtJoins
  <2>4. At(f, i, c3) /\ At(f, Past(i, c3), x4) /\ Past(i, c4) = Past(Past(i, c3), x4)
    BY <1>8, <2>5, AtJoins
  <2>3. At(f, i, c2) /\ At(f, Past(i, c2), x3) /\ Past(i, c3) = Past(Past(i, c2), x3)
    BY <1>8, <2>4, AtJoins
  <2>2. At(f, i, x1) /\ At(f, Past(i, x1), x2) /\ Past(i, c2) = Past(Past(i, x1), x2)
    BY <1>8, <2>3, AtJoins
  <2>10. /\ ReadNumber(f, i) = Got(tab.oid, Past(i, x1))
         /\ ReadWord(f, Past(i, x1)) = Got(tab.name, Past(i, c2))
         /\ ReadNumber(f, Past(i, c2)) = Got(tab.partition_type, Past(i, c3))
         /\ ReadWord(f, Past(i, c3)) = Got(tab.partition_key_name, Past(i, c4))
    BY <1>2, <1>3, <2>2, <2>3, <2>4, Zenon
  <2>11. /\ ManyNumbers(f, Past(i, c4), 3) =
              Got(<<tab.partition_key_type, tab.partition_cnt, Len(tab.partitions)>>, Past(i, c5))
         /\ ManyNumbers(f, Past(i, c7), 3) =
              Got(<<tab.oid, tab.duplicate_type, Len(tab.table_location)>>, Past(i, c8))
    BY <1>4, <2>5, <2>8, Zenon
  <2>12. /\ ReadColumns(f, Past(i, c5)) = Got(tab.columns, Past(i, c6))
         /\ ManyPartitions(f, Past(i, c6), Len(tab.partitions)) = Got(tab.partitions, Past(i, c7))
         /\ ManyLocations(f, Past(i, c8), Len(tab.table_location)) =
              Got(tab.table_location, Past(i, c9))
    BY <1>5, <1>6, <1>7, <2>6, <2>7, <2>9, Zenon
  <2>13. ReadTable(f, i) = Got(tab, Past(i, c9))
    <3> DEFINE r1 == ReadNumber(f, i)
               r2 == ReadWord(f, r1.i)
               r3 == ReadNumber(f, r2.i)
               r4 == ReadWord(f, r3.i)
               r5 == ManyNumbers(f, r4.i, 3)
               r6 == ReadColumns(f, r5.i)
               r7 == ManyPartitions(f, r6.i, r5.v[3])
               r8 == ManyNumbers(f, r7.i, 3)
               r9 == ManyLocations(f, r8.i, r8.v[3])
    <3>0. ReadTable(f, i) =
            Got([oid |-> r1.v, name |-> r2.v, columns |-> r6.v,
                 partition_type |-> r3.v, partition_key_name |-> r4.v,
                 partition_key_type |-> r5.v[1], partition_cnt |-> r5.v[2],
                 partitions |-> r7.v, duplicate_type |-> r8.v[2],
                 table_location |-> r9.v], r9.i)
      BY DEF ReadTable, ManyNumbers, ManyPartitions, ManyLocations
    <3> HIDE DEF r1, r2, r3, r4, r5, r6, r7, r8, r9
    <3>1. r1.v = tab.oid /\ r1.i = Past(i, x1)
      BY <2>10 DEF Got, r1
    <3>2. r2.v = tab.name /\ r2.i = Past(i, c2)
      BY <2>10, <3>1 DEF Got, r2
    <3>3. r3.v = tab.partition_type /\ r3.i = Past(i, c3)
      BY <2>10, <3>2 DEF Got, r3
    <3>4. r4.v = tab.partition_key_name /\ r4.i = Past(i, c4)
      BY <2>10, <3>3 DEF Got, r4
    <3>5. /\ r5.v = <<tab.partition_key_type, tab.partition_cnt, Len(tab.partitions)>>
          /\ r5.i = Past(i, c5)
      BY <2>11, <3>4 DEF Got, r5
    <3>6. r6.v = tab.columns /\ r6.i = Past(i, c6)
      BY <2>12, <3>5 DEF Got, r6
    <3>7. r7.v = tab.partitions /\ r7.i = Past(i, c7)
      BY <2>12, <3>5, <3>6 DEF Got, r7
    <3>8. /\ r8.v = <<tab.oid, tab.duplicate_type, Len(tab.table_location)>>
          /\ r8.i = Past(i, c8)
      BY <2>11, <3>7 DEF Got, r8
    <3>9. r9.v = tab.table_location /\ r9.i = Past(i, c9)
      BY <2>12, <3>8 DEF Got, r9
    <3>10. r5.v[1] = tab.partition_key_type /\ r5.v[2] = tab.partition_cnt /\ r8.v[2] = tab.duplicate_type
      BY <3>5, <3>8
    <3>11. TableShape(tab)
      BY DEF TableFits
    <3>12. tab = [oid |-> tab.oid, name |-> tab.name, columns |-> tab.columns,
              partition_type |-> tab.partition_type, partition_key_name |-> tab.partition_key_name,
              partition_key_type |-> tab.partition_key_type, partition_cnt |-> tab.partition_cnt,
              partitions |-> tab.partitions, duplicate_type |-> tab.duplicate_type,
              table_location |-> tab.table_location]
      BY <3>11, TableIsRecord, Zenon
    <3> QED
      BY <3>0, <3>1, <3>2, <3>3, <3>4, <3>6, <3>7, <3>9, <3>10, <3>12, Zenon
  <2> QED
    BY <2>13
<1>10. IsSeq(c9)
  BY <1>8 DEF Joins
<1> QED
  BY <1>0, <1>9, <1>10, Zenon

\* And the tables of a database.
LEMMA TablesRead ==
  ASSUME NEW s, IsSeq(s), \A k \in 1..Len(s) : TableFits(s[k][2])
  PROVE  /\ IsSeq(TableTokens(s))
         /\ \A f, i : At(f, i, TableTokens(s)) =>
              ManyTables(f, i, Len(s)) = Got([k \in 1..Len(s) |-> s[k][2]], Past(i, TableTokens(s)))
<1> DEFINE n == Len(s)
           W == [k \in 1..n |-> WriteTable(s[k][2])]
           V == [k \in 1..n |-> s[k][2]]
<1>1. n \in Nat
  BY DEF IsSeq
<1>2. PICK u : Joined(u, n, W) /\ TableTokens(s) = u[n]
  BY <1>1, EachTable
<1>3. ASSUME NEW k \in 1..n
      PROVE  /\ IsSeq(W[k])
             /\ \A f, j : At(f, j, W[k]) => ReadTable(f, j) = Got(V[k], Past(j, W[k]))
  <2>1. W[k] = WriteTable(s[k][2]) /\ V[k] = s[k][2] /\ TableFits(s[k][2])
    OBVIOUS
  <2> HIDE DEF W, V
  <2> QED
    BY <2>1, TableRead
<1>4. V = [k \in 1..n |-> V[k]] /\ V = [k \in 1..Len(s) |-> s[k][2]]
  BY DEF IsSeq
<1> HIDE DEF V, W
<1>5. IsSeq(u[n])
  <2>1. n \in 0..n /\ \A k \in 1..n : IsSeq(W[k])
    BY <1>1, <1>3
  <2>2. \A k \in 0..n : IsSeq(u[k])
    BY <1>1, <1>2, <2>1, JoinedSteps
  <2> QED
    BY <2>1, <2>2
<1>6. ASSUME NEW f, NEW i, At(f, i, u[n]) PROVE ManyTables(f, i, n) = Got(V, Past(i, u[n]))
  <2> DEFINE R == [j \in Nat |-> ReadTable(f, j)]
  <2>1. \A j \in Nat : R[j] = ReadTable(f, j)
    OBVIOUS
  <2> HIDE DEF R
  <2>2. AllWritten(f, i, n, W, u, V, R)
    BY <1>1, <1>2, <1>3, <1>6, <2>1 DEF AllWritten
  <2>3. PICK g : AllRead(g, i, n, Past(i, u[n]), V, R)
    BY <2>2, ReadAll, Zenon
  <2>4. ManyTables(f, i, n) = Got([k \in 1..n |-> V[k]], Past(i, u[n]))
    BY <2>3, TablesGathered DEF R
  <2> QED
    BY <1>4, <2>4
<1> QED
  BY <1>2, <1>4, <1>5, <1>6

\* A tuple is its beginning and its end.
LEMMA TupleJoins ==
  ASSUME NEW a, NEW b, NEW c, NEW d
  PROVE  /\ Joins(<<a, b>>, <<a>>, <<b>>)
         /\ Joins(<<a, b, c>>, <<a, b>>, <<c>>)
         /\ Joins(<<a, b, c, d>>, <<a, b>>, <<c, d>>)
<1>1. Joins(<<a, b>>, <<a>>, <<b>>)
  BY TupleIsSeq DEF Joins
<1>2. <<a, b>> \in Seq({a, b, c, d}) /\ <<c>> \in Seq({a, b, c, d}) /\ <<c, d>> \in Seq({a, b, c, d})
  OBVIOUS
<1>3. Joins(<<a, b, c>>, <<a, b>>, <<c>>)
  <2> DEFINE x == <<a, b>> \o <<c>>
             y == <<a, b, c>>
  <2>1. /\ x \in Seq({a, b, c, d}) /\ Len(x) = 3 /\ x[1] = a /\ x[2] = b /\ x[3] = c
        /\ y \in Seq({a, b, c, d}) /\ Len(y) = 3 /\ y[1] = a /\ y[2] = b /\ y[3] = c
    BY <1>2
  <2> HIDE DEF x, y
  <2>2. x = y
    <3>1. \A j \in 1..3 : x[j] = y[j]
      BY <2>1
    <3> QED
      BY <2>1, <3>1
  <2> QED
    BY <1>2, <2>1, <2>2 DEF x, y, Joins, IsSeq
<1>4. Joins(<<a, b, c, d>>, <<a, b>>, <<c, d>>)
  <2> DEFINE x == <<a, b>> \o <<c, d>>
             y == <<a, b, c, d>>
  <2>1. /\ x \in Seq({a, b, c, d}) /\ Len(x) = 4
        /\ x[1] = a /\ x[2] = b /\ x[3] = c /\ x[4] = d
        /\ y \in Seq({a, b, c, d}) /\ Len(y) = 4
        /\ y[1] = a /\ y[2] = b /\ y[3] = c /\ y[4] = d
    BY <1>2
  <2> HIDE DEF x, y
  <2>2. x = y
    <3>1. \A j \in 1..4 : x[j] = y[j]
      BY <2>1
    <3> QED
      BY <2>1, <3>1
  <2> QED
    BY <1>2, <2>1, <2>2 DEF x, y, Joins, IsSeq
<1> QED
  BY <1>1, <1>3, <1>4

\* A word that was written without more.
LEMMA TakeText ==
  ASSUME NEW f, NEW i, NEW w, At(f, i, <<Text(w)>>)
  PROVE  ReadWord(f, i) = Got(w, Past(i, <<Text(w)>>))
<1>2. Len(f) \in Nat /\ i \in 1..Len(f) /\ f[i] = Text(w)
  <2>1. Len(<<Text(w)>>) = 1 /\ <<Text(w)>>[1] = Text(w) /\ 1 \in 1..1
    OBVIOUS
  <2>2. i \in Nat \ {0} /\ i + 1 <= Len(f) + 1 /\ Len(f) \in Nat /\ f[i + 1 - 1] = Text(w)
    BY <2>1 DEF At, IsSeq
  <2> QED
    BY <2>2
<1> QED
  BY <1>2, WordRead DEF Past

\* The fields of a node that was read: it is not active.
LEMMA NodeRestarted ==
  ASSUME NEW x, x = [ip_addr |-> x.ip_addr, activate |-> x.activate,
                     leader_par_cnt |-> x.leader_par_cnt, follower_par_cnt |-> x.follower_par_cnt]
  PROVE  [x EXCEPT !.activate = FALSE] =
           [ip_addr |-> x.ip_addr, activate |-> FALSE,
            leader_par_cnt |-> x.leader_par_cnt, follower_par_cnt |-> x.follower_par_cnt]
<1> DEFINE y == [x EXCEPT !.activate = FALSE]
           z == [ip_addr |-> x.ip_addr, activate |-> FALSE,
                 leader_par_cnt |-> x.leader_par_cnt, follower_par_cnt |-> x.follower_par_cnt]
           F == {"ip_addr", "activate", "leader_par_cnt", "follower_par_cnt"}
<1>1. DOMAIN x = F
  OBVIOUS
<1>2. y = [k \in F |-> IF k = "activate" THEN FALSE ELSE x[k]]
  BY <1>1
<1>3. z = [k \in F |-> z[k]]
  OBVIOUS
<1>4. \A k \in F : z[k] = IF k = "activate" THEN FALSE ELSE x[k]
  <2>1. z["activate"] = FALSE
    BY Zenon
  <2>2. /\ z["ip_addr"] = x["ip_addr"] /\ z["leader_par_cnt"] = x["leader_par_cnt"]
        /\ z["follower_par_cnt"] = x["follower_par_cnt"]
    OBVIOUS
  <2> HIDE DEF z
  <2> QED
    BY <2>1, <2>2
<1> HIDE DEF z, F, y
<1>5. y = z
  BY <1>2, <1>3, <1>4
<1> QED
  BY <1>5 DEF y, z

\* A node is read where it was written, but is not active.
LEMMA NodeRead ==
  ASSUME NEW e, NodeFits(e)
  PROVE  /\ IsSeq(WriteNode(e))
         /\ \A f, i : At(f, i, WriteNode(e)) =>
              ReadNode(f, i) = Got(<<e[1], [e[2] EXCEPT !.activate = FALSE]>>, Past(i, WriteNode(e)))
<1> DEFINE a == <<Text(e[1]), Text(e[2].ip_addr)>>
           b == <<Number(e[2].leader_par_cnt), Number(e[2].follower_par_cnt)>>
           w == WriteNode(e)
<1>1. Joins(w, a, b) /\ IsSeq(w)
  <2>1. Joins(<<Text(e[1]), Text(e[2].ip_addr), Number(e[2].leader_par_cnt),
                Number(e[2].follower_par_cnt)>>, a, b)
    BY TupleJoins
  <2>2. Joins(w, a, b)
    BY <2>1 DEF WriteNode
  <2> QED
    BY <2>2 DEF Joins
<1>2. /\ \A f, i : At(f, i, a) => ManyWords(f, i, 2) = Got(<<e[1], e[2].ip_addr>>, Past(i, a))
      /\ \A f, i : At(f, i, b) => ManyNumbers(f, i, 2) =
             Got(<<e[2].leader_par_cnt, e[2].follower_par_cnt>>, Past(i, b))
  BY TakeTwoWords, TakeTwoNumbers
<1> HIDE DEF w, a, b
<1>3. ASSUME NEW f, NEW i, At(f, i, w)
      PROVE  ReadNode(f, i) = Got(<<e[1], [e[2] EXCEPT !.activate = FALSE]>>, Past(i, w))
  <2>1. At(f, i, a) /\ At(f, Past(i, a), b) /\ Past(i, w) = Past(Past(i, a), b)
    BY <1>1, <1>3, AtJoins
  <2>2. ManyWords(f, i, 2) = Got(<<e[1], e[2].ip_addr>>, Past(i, a))
    BY <1>2, <2>1
  <2>3. ManyNumbers(f, Past(i, a), 2) =
          Got(<<e[2].leader_par_cnt, e[2].follower_par_cnt>>, Past(i, w))
    BY <1>2, <2>1
  <2>4. [e[2] EXCEPT !.activate = FALSE] =
          [ip_addr |-> e[2].ip_addr, activate |-> FALSE,
           leader_par_cnt |-> e[2].leader_par_cnt, follower_par_cnt |-> e[2].follower_par_cnt]
    BY NodeRestarted DEF NodeFits
  <2> DEFINE names == ManyWords(f, i, 2)
             cnts == ManyNumbers(f, names.i, 2)
  <2>5. ReadNode(f, i) =
          Got(<<names.v[1], [ip_addr |-> names.v[2], activate |-> FALSE,
                leader_par_cnt |-> cnts.v[1], follower_par_cnt |-> cnts.v[2]]>>, cnts.i)
    BY DEF ReadNode, ManyWords, ManyNumbers
  <2> HIDE DEF names, cnts
  <2>6. names.v[1] = e[1] /\ names.v[2] = e[2].ip_addr /\ names.i = Past(i, a)
    BY <2>2 DEF names, Got
  <2>7. /\ cnts.v[1] = e[2].leader_par_cnt /\ cnts.v[2] = e[2].follower_par_cnt
        /\ cnts.i = Past(i, w)
    BY <2>3, <2>6 DEF cnts, Got
  <2> QED
    BY <2>4, <2>5, <2>6, <2>7, Zenon
<1> QED
  BY <1>1, <1>3 DEF w

(***************************************************************************)
(* The entries of a map, and the map of entries.                           *)
(***************************************************************************)

\* Some element of a bounded set of numbers is its last.
LEMMA LastOne ==
  ASSUME NEW n \in Nat, NEW S, S \subseteq 1..n, S # {}
  PROVE  \E m \in S : \A j \in S : j <= m
<1> DEFINE Top(k) == (\E j \in S : j <= k) => \E m \in S : m <= k /\ \A j \in S : j <= k => j <= m
           T == {k \in 0..n : Top(k)}
<1>1. 0 \in T
  OBVIOUS
<1>2. ASSUME NEW k \in 1..n, k - 1 \in T PROVE k \in T
  <2>1. CASE k \in S
    BY <2>1
  <2>2. CASE k \notin S
    <3>1. \A j \in S : j <= k <=> j <= k - 1
      BY <2>2
    <3> QED
      BY <1>2, <3>1
  <2> QED
    BY <2>1, <2>2
<1> HIDE DEF T
<1>3. n \in T
  BY <1>1, <1>2, Climb
<1>4. Top(n)
  BY <1>3 DEF T
<1>5. \A j \in S : j <= n
  OBVIOUS
<1> QED
  BY <1>4, <1>5

\* The entries of a map in the order they are written.
LEMMA EntriesAre ==
  ASSUME NEW m, IsMap(m), NEW s, s = Entries(m)
  PROVE  /\ IsSeq(s) /\ Len(s) = Cardinality(DOMAIN m) /\ Len(s) \in Nat
         /\ \A k \in 1..Len(s) : s[k][1] \in DOMAIN m /\ s[k] = <<s[k][1], m[s[k][1]]>>
         /\ \A x \in DOMAIN m : \E k \in 1..Len(s) : s[k][1] = x
<1> DEFINE D == DOMAIN m
           n == Cardinality(D)
           Order(q) == q \in [1..n -> D] /\ {q[i] : i \in DOMAIN q} = D
           keys == CHOOSE q \in [1..n -> D] : {q[i] : i \in DOMAIN q} = D
<1>1. n \in Nat /\ ExistsBijection(1..n, D)
  BY FS_CardinalityType DEF IsMap
<1>2. PICK q \in [1..n -> D] : \A y \in D : \E i \in 1..n : q[i] = y
  BY <1>1 DEF ExistsBijection, Bijection, Injection, Surjection
<1>3. keys \in [1..n -> D] /\ {keys[i] : i \in DOMAIN keys} = D
  <2>1. q \in [1..n -> D] /\ {q[i] : i \in DOMAIN q} = D
    BY <1>2
  <2> QED
    BY <2>1
<1>4. s = [i \in DOMAIN keys |-> <<keys[i], m[keys[i]]>>]
  BY DEF Entries
<1> HIDE DEF keys, D, n
<1>5. DOMAIN keys = 1..n
  BY <1>3
<1>6. /\ s \in Seq({<<keys[i], m[keys[i]]>> : i \in 1..n}) /\ Len(s) = n
      /\ \A k \in 1..n : s[k] = <<keys[k], m[keys[k]]>> /\ keys[k] \in D
  <2> DEFINE z == [i \in 1..n |-> <<keys[i], m[keys[i]]>>]
             T == {<<keys[i], m[keys[i]]>> : i \in 1..n}
  <2>1. s = z
    BY <1>4, <1>5
  <2>2. \A k \in 1..n : z[k] = <<keys[k], m[keys[k]]>> /\ keys[k] \in D
    BY <1>3
  <2>3. z \in [1..n -> T]
    OBVIOUS
  <2> HIDE DEF z, T
  <2>4. z \in Seq(T) /\ Len(z) = n
    BY <1>1, <2>3
  <2> QED
    BY <2>1, <2>2, <2>4 DEF T
<1>7. \A k \in 1..n : s[k][1] = keys[k]
  BY <1>6
<1>8. IsSeq(s)
  BY <1>6 DEF IsSeq
<1>9. \A x \in D : \E k \in 1..n : s[k][1] = x
  BY <1>3, <1>5, <1>7
<1>10. \A k \in 1..n : s[k][1] \in D /\ s[k] = <<s[k][1], m[s[k][1]]>>
  BY <1>6, <1>7
<1>11. IsSeq(s) /\ Len(s) = n /\ n \in Nat
  BY <1>1, <1>6, <1>8
<1> QED
  BY <1>9, <1>10, <1>11, Zenon DEF D, n

\* A map built of the pairs that were read, each pair once or more.
LEMMA MapOfPairs ==
  ASSUME NEW n \in Nat, NEW s, DOMAIN s = 1..n, NEW h,
         h = [x \in DOMAIN h |-> h[x]],
         \A k \in 1..n : s[k][1] \in DOMAIN h /\ s[k][2] = h[s[k][1]],
         \A x \in DOMAIN h : \E k \in 1..n : s[k][1] = x
  PROVE  MapOf(s) = h
<1> DEFINE Last(x, i) == s[i][1] = x /\ \A j \in DOMAIN s : s[j][1] = x => j <= i
           g == [x \in DOMAIN h |-> s[CHOOSE i \in DOMAIN s : Last(x, i)][2]]
<1>1. MapOf(s) = g
  <2>1. {s[i][1] : i \in DOMAIN s} = DOMAIN h
    OBVIOUS
  <2> QED
    BY <2>1 DEF MapOf
<1>2. ASSUME NEW x \in DOMAIN h PROVE g[x] = h[x]
  <2> DEFINE S == {i \in 1..n : s[i][1] = x}
  <2>1. S # {} /\ S \subseteq 1..n
    OBVIOUS
  <2>2. PICK i \in S : \A j \in S : j <= i
    <3> HIDE DEF S
    <3> QED
      BY <2>1, LastOne
  <2>3. \E i1 \in DOMAIN s : Last(x, i1)
    BY <2>2
  <2> DEFINE c == CHOOSE i1 \in DOMAIN s : Last(x, i1)
  <2>4. c \in DOMAIN s /\ Last(x, c)
    <3> HIDE DEF Last
    <3> QED
      BY <2>3
  <2>5. g[x] = s[c][2]
    OBVIOUS
  <2> HIDE DEF c, g
  <2> QED
    BY <2>4, <2>5
<1>3. g = h
  <2>1. DOMAIN g = DOMAIN h /\ g = [x \in DOMAIN h |-> g[x]]
    OBVIOUS
  <2> HIDE DEF g
  <2> QED
    BY <1>2, <2>1
<1> QED
  BY <1>1, <1>3

\* The nodes are read where they were written.
LEMMA NodesRead ==
  ASSUME NEW s, IsSeq(s), \A k \in 1..Len(s) : NodeFits(s[k])
  PROVE  /\ IsSeq(NodeTokens(s))
         /\ \A f, i : At(f, i, NodeTokens(s)) =>
              ManyNodes(f, i, Len(s)) = Got([k \in 1..Len(s) |-> <<s[k][1], [s[k][2] EXCEPT !.activate = FALSE]>>], Past(i, NodeTokens(s)))
<1> DEFINE n == Len(s)
           W == [k \in 1..n |-> WriteNode(s[k])]
           V == [k \in 1..n |-> <<s[k][1], [s[k][2] EXCEPT !.activate = FALSE]>>]
<1>1. n \in Nat
  BY DEF IsSeq
<1>2. PICK u : Joined(u, n, W) /\ NodeTokens(s) = u[n]
  BY <1>1, EachNode
<1>3. ASSUME NEW k \in 1..n
      PROVE  /\ IsSeq(W[k])
             /\ \A f, j : At(f, j, W[k]) => ReadNode(f, j) = Got(V[k], Past(j, W[k]))
  <2>1. W[k] = WriteNode(s[k]) /\ V[k] = <<s[k][1], [s[k][2] EXCEPT !.activate = FALSE]>> /\ NodeFits(s[k])
    OBVIOUS
  <2> HIDE DEF W, V
  <2> QED
    BY <2>1, NodeRead
<1>4. V = [k \in 1..n |-> V[k]] /\ V = [k \in 1..Len(s) |-> <<s[k][1], [s[k][2] EXCEPT !.activate = FALSE]>>]
  BY DEF IsSeq
<1> HIDE DEF V, W
<1>5. IsSeq(u[n])
  <2>1. n \in 0..n /\ \A k \in 1..n : IsSeq(W[k])
    BY <1>1, <1>3
  <2>2. \A k \in 0..n : IsSeq(u[k])
    BY <1>1, <1>2, <2>1, JoinedSteps
  <2> QED
    BY <2>1, <2>2
<1>6. ASSUME NEW f, NEW i, At(f, i, u[n]) PROVE ManyNodes(f, i, n) = Got(V, Past(i, u[n]))
  <2> DEFINE R == [j \in Nat |-> ReadNode(f, j)]
  <2>1. \A j \in Nat : R[j] = ReadNode(f, j)
    OBVIOUS
  <2> HIDE DEF R
  <2>2. AllWritten(f, i, n, W, u, V, R)
    BY <1>1, <1>2, <1>3, <1>6, <2>1 DEF AllWritten
  <2>3. PICK g : AllRead(g, i, n, Past(i, u[n]), V, R)
    BY <2>2, ReadAll, Zenon
  <2>4. ManyNodes(f, i, n) = Got([k \in 1..n |-> V[k]], Past(i, u[n]))
    BY <2>3, NodesGathered DEF R
  <2> QED
    BY <1>4, <2>4
<1> QED
  BY <1>2, <1>4, <1>5, <1>6

\* A database is read where it was written, with its tables.
LEMMA DbRead ==
  ASSUME NEW e, DbFits(e)
  PROVE  /\ IsSeq(WriteDb(e))
         /\ \A f, i : At(f, i, WriteDb(e)) => ReadDb(f, i) = Got(e, Past(i, WriteDb(e)))
<1> DEFINE m == e[2].tabs
           s == Entries(m)
           n == Len(s)
           x1 == <<Number(e[2].next_oid)>>
           x2 == <<Text(e[1])>>
           x3 == <<Number(Cardinality(DOMAIN m))>>
           x4 == TableTokens(s)
           c2 == <<Number(e[2].next_oid), Text(e[1])>>
           c3 == <<Number(e[2].next_oid), Text(e[1]), Number(Cardinality(DOMAIN m))>>
           c4 == c3 \o x4
           v == [k \in 1..n |-> s[k][2]]
           t == [k \in DOMAIN v |-> <<v[k].name, v[k]>>]
<1>1. IsMap(m) /\ \A x \in DOMAIN m : TableFits(m[x]) /\ m[x].name = x
  BY DEF DbFits
<1>2. /\ IsSeq(s) /\ n = Cardinality(DOMAIN m) /\ n \in Nat
      /\ \A k \in 1..n : s[k][1] \in DOMAIN m /\ s[k] = <<s[k][1], m[s[k][1]]>>
      /\ \A x \in DOMAIN m : \E k \in 1..n : s[k][1] = x
  <2> HIDE DEF m
  <2> QED
    BY <1>1, EntriesAre
<1>3. WriteDb(e) = c4
  BY DEF WriteDb, TableTokens
<1> HIDE DEF m, s
<1>4. \A k \in 1..n : s[k][2] = m[s[k][1]]
  BY <1>2
<1>5. \A k \in 1..n : TableFits(s[k][2])
  BY <1>1, <1>2, <1>4
<1>6. /\ IsSeq(x4)
      /\ \A f, i : At(f, i, x4) => ManyTables(f, i, n) = Got(v, Past(i, x4))
  BY <1>2, <1>5, TablesRead
<1>7. MapOf(t) = m
  <2>1. DOMAIN t = 1..n /\ \A k \in 1..n : t[k] = <<s[k][2].name, s[k][2]>>
    OBVIOUS
  <2>2. \A k \in 1..n : t[k][1] = s[k][1] /\ t[k][2] = m[s[k][1]]
    <3>1. \A k \in 1..n : s[k][2].name = s[k][1]
      BY <1>1, <1>2, <1>4
    <3> HIDE DEF t
    <3> QED
      BY <1>4, <2>1, <3>1
  <2>3. m = [x \in DOMAIN m |-> m[x]]
    BY <1>1 DEF IsMap
  <2> HIDE DEF t
  <2> QED
    BY <1>2, <2>1, <2>2, <2>3, MapOfPairs
<1>8. /\ \A f, i : At(f, i, x1) => ReadNumber(f, i) = Got(e[2].next_oid, Past(i, x1))
      /\ \A f, i : At(f, i, x2) => ReadWord(f, i) = Got(e[1], Past(i, x2))
      /\ \A f, i : At(f, i, x3) => ReadNumber(f, i) = Got(n, Past(i, x3))
  BY <1>2, TakeNumber, TakeText
<1>9. Joins(c2, x1, x2) /\ Joins(c3, c2, x3) /\ Joins(c4, c3, x4) /\ IsSeq(c4)
  <2>1. Joins(c2, x1, x2) /\ Joins(c3, c2, x3)
    BY TupleJoins
  <2>2. IsSeq(c3)
    BY <2>1 DEF Joins
  <2> HIDE DEF c3, x4
  <2> QED
    BY <1>6, <2>1, <2>2, JoinsIsSeq DEF Joins
<1>10. e = <<e[1], [next_oid |-> e[2].next_oid, tabs |-> m]>>
  BY DEF DbFits, m
<1> HIDE DEF c2, c3, c4, x1, x2, x3, x4, v, n
<1>11. ASSUME NEW f, NEW i, At(f, i, c4) PROVE ReadDb(f, i) = Got(e, Past(i, c4))
  <2>1. At(f, i, c3) /\ At(f, Past(i, c3), x4) /\ Past(i, c4) = Past(Past(i, c3), x4)
    BY <1>9, <1>11, AtJoins
  <2>2. At(f, i, c2) /\ At(f, Past(i, c2), x3) /\ Past(i, c3) = Past(Past(i, c2), x3)
    BY <1>9, <2>1, AtJoins
  <2>3. At(f, i, x1) /\ At(f, Past(i, x1), x2) /\ Past(i, c2) = Past(Past(i, x1), x2)
    BY <1>9, <2>2, AtJoins
  <2>4. /\ ReadNumber(f, i) = Got(e[2].next_oid, Past(i, x1))
        /\ ReadWord(f, Past(i, x1)) = Got(e[1], Past(i, c2))
        /\ ReadNumber(f, Past(i, c2)) = Got(n, Past(i, c3))
        /\ ManyTables(f, Past(i, c3), n) = Got(v, Past(i, c4))
    BY <1>6, <1>8, <2>1, <2>2, <2>3
  <2> DEFINE r1 == ReadNumber(f, i)
             r2 == ReadWord(f, r1.i)
             r3 == ReadNumber(f, r2.i)
             r4 == ManyTables(f, r3.i, r3.v)
  <2>5. ReadDb(f, i) =
          Got(<<r2.v, [next_oid |-> r1.v,
                       tabs |-> MapOf([j \in DOMAIN r4.v |-> <<r4.v[j].name, r4.v[j]>>])]>>, r4.i)
    BY DEF ReadDb, ManyTables
  <2> HIDE DEF r1, r2, r3, r4
  <2>6. r1.v = e[2].next_oid /\ r1.i = Past(i, x1)
    BY <2>4 DEF r1, Got
  <2>7. r2.v = e[1] /\ r2.i = Past(i, c2)
    BY <2>4, <2>6 DEF r2, Got
  <2>8. r3.v = n /\ r3.i = Past(i, c3)
    BY <2>4, <2>7 DEF r3, Got
  <2>9. r4.v = v /\ r4.i = Past(i, c4)
    BY <2>4, <2>8 DEF r4, Got
  <2>10. MapOf([j \in DOMAIN r4.v |-> <<r4.v[j].name, r4.v[j]>>]) = m
    BY <1>7, <2>9
  <2> QED
    BY <1>10, <2>5, <2>6, <2>7, <2>9, <2>10, Zenon
<1> QED
  BY <1>3, <1>9, <1>11

\* And all the databases.
LEMMA DbsRead ==
  ASSUME NEW s, IsSeq(s), \A k \in 1..Len(s) : DbFits(s[k])
  PROVE  /\ IsSeq(DbTokens(s))
         /\ \A f, i : At(f, i, DbTokens(s)) =>
              ManyDbs(f, i, Len(s)) = Got(s, Past(i, DbTokens(s)))
<1> DEFINE n == Len(s)
           W == [k \in 1..n |-> WriteDb(s[k])]
           V == [k \in 1..n |-> s[k]]
<1>1. n \in Nat
  BY DEF IsSeq
<1>2. PICK u : Joined(u, n, W) /\ DbTokens(s) = u[n]
  BY <1>1, EachDb
<1>3. ASSUME NEW k \in 1..n
      PROVE  /\ IsSeq(W[k])
             /\ \A f, j : At(f, j, W[k]) => ReadDb(f, j) = Got(V[k], Past(j, W[k]))
  <2>1. W[k] = WriteDb(s[k]) /\ V[k] = s[k] /\ DbFits(s[k])
    OBVIOUS
  <2> HIDE DEF W, V
  <2> QED
    BY <2>1, DbRead
<1>4. V = [k \in 1..n |-> V[k]] /\ V = s
  BY DEF IsSeq
<1> HIDE DEF V, W
<1>5. IsSeq(u[n])
  <2>1. n \in 0..n /\ \A k \in 1..n : IsSeq(W[k])
    BY <1>1, <1>3
  <2>2. \A k \in 0..n : IsSeq(u[k])
    BY <1>1, <1>2, <2>1, JoinedSteps
  <2> QED
    BY <2>1, <2>2
<1>6. ASSUME NEW f, NEW i, At(f, i, u[n]) PROVE ManyDbs(f, i, n) = Got(V, Past(i, u[n]))
  <2> DEFINE R == [j \in Nat |-> ReadDb(f, j)]
  <2>1. \A j \in Nat : R[j] = ReadDb(f, j)
    OBVIOUS
  <2> HIDE DEF R
  <2>2. AllWritten(f, i, n, W, u, V, R)
    BY <1>1, <1>2, <1>3, <1>6, <2>1 DEF AllWritten
  <2>3. PICK g : AllRead(g, i, n, Past(i, u[n]), V, R)
    BY <2>2, ReadAll, Zenon
  <2>4. ManyDbs(f, i, n) = Got([k \in 1..n |-> V[k]], Past(i, u[n]))
    BY <2>3, DbsGathered DEF R
  <2> QED
    BY <1>4, <2>4
<1> QED
  BY <1>2, <1>4, <1>5, <1>6

\* A file has its own tokens, from the first on.
LEMMA FileIsWhole ==
  ASSUME NEW f, IsSeq(f)
  PROVE  At(f, 1, f) /\ Past(1, f) # Failed
BY DEF At, Past, Failed, IsSeq

\* operator>> of what operator<< wrote of databases and nodes gives them back,
\* the nodes not active.
LEMMA MetaRead ==
  ASSUME NEW dbs, NEW servers, IsMap(dbs), IsMap(servers),
         \A d \in DOMAIN dbs : DbFits(<<d, dbs[d]>>),
         \A x \in DOMAIN servers : NodeFits(<<x, servers[x]>>)
  PROVE  ReadMeta(WriteMeta(dbs, servers)) =
           [kind |-> "read", dbs |-> dbs,
            servers |-> [x \in DOMAIN servers |-> [servers[x] EXCEPT !.activate = FALSE]]]
<1> DEFINE p == Entries(dbs)
           q == Entries(servers)
           n == Len(p)
           m == Len(q)
           x1 == <<Number(Cardinality(DOMAIN dbs))>>
           x2 == DbTokens(p)
           x3 == <<Number(Cardinality(DOMAIN servers))>>
           x4 == NodeTokens(q)
           c2 == x1 \o x2
           c3 == c2 \o x3
           c4 == c3 \o x4
           v == [k \in 1..m |-> <<q[k][1], [q[k][2] EXCEPT !.activate = FALSE]>>]
           h == [x \in DOMAIN servers |-> [servers[x] EXCEPT !.activate = FALSE]]
<1>1. WriteMeta(dbs, servers) = c4
  BY DEF WriteMeta, DbTokens, NodeTokens
<1>2. /\ IsSeq(p) /\ n = Cardinality(DOMAIN dbs) /\ n \in Nat
      /\ \A k \in 1..n : p[k][1] \in DOMAIN dbs /\ p[k] = <<p[k][1], dbs[p[k][1]]>>
      /\ \A x \in DOMAIN dbs : \E k \in 1..n : p[k][1] = x
  BY EntriesAre
<1>3. /\ IsSeq(q) /\ m = Cardinality(DOMAIN servers) /\ m \in Nat
      /\ \A k \in 1..m : q[k][1] \in DOMAIN servers /\ q[k] = <<q[k][1], servers[q[k][1]]>>
      /\ \A x \in DOMAIN servers : \E k \in 1..m : q[k][1] = x
  BY EntriesAre
<1> HIDE DEF p, q
<1>4. (\A k \in 1..n : DbFits(p[k])) /\ (\A k \in 1..m : NodeFits(q[k]))
  <2>1. ASSUME NEW k \in 1..n PROVE DbFits(p[k])
    BY <1>2
  <2>2. ASSUME NEW k \in 1..m PROVE NodeFits(q[k])
    BY <1>3
  <2> QED
    BY <2>1, <2>2
<1>5. /\ IsSeq(x2)
      /\ \A f, i : At(f, i, x2) => ManyDbs(f, i, n) = Got(p, Past(i, x2))
  BY <1>2, <1>4, DbsRead
<1>6. /\ IsSeq(x4)
      /\ \A f, i : At(f, i, x4) => ManyNodes(f, i, m) = Got(v, Past(i, x4))
  BY <1>3, <1>4, NodesRead
<1>7. MapOf(p) = dbs
  <2>1. DOMAIN p = 1..n /\ dbs = [x \in DOMAIN dbs |-> dbs[x]]
    BY <1>2 DEF IsSeq, IsMap
  <2>2. \A k \in 1..n : p[k][1] \in DOMAIN dbs /\ p[k][2] = dbs[p[k][1]]
    BY <1>2
  <2> QED
    BY <1>2, <2>1, <2>2, MapOfPairs
<1>8. MapOf(v) = h
  <2>1. DOMAIN v = 1..m /\ h = [x \in DOMAIN h |-> h[x]] /\ DOMAIN h = DOMAIN servers
    OBVIOUS
  <2>2. \A k \in 1..m : v[k][1] = q[k][1] /\ v[k][2] = [q[k][2] EXCEPT !.activate = FALSE]
    OBVIOUS
  <2>3. \A k \in 1..m : q[k][2] = servers[q[k][1]]
    BY <1>3
  <2>4. \A k \in 1..m : v[k][1] \in DOMAIN h /\ v[k][2] = h[v[k][1]]
    BY <1>3, <2>2, <2>3
  <2> HIDE DEF v, h
  <2>5. \A x \in DOMAIN h : \E k \in 1..m : v[k][1] = x
    BY <1>3, <2>1, <2>2
  <2>6. m \in Nat
    BY <1>3
  <2> HIDE DEF m
  <2> QED
    BY <2>1, <2>4, <2>5, <2>6, MapOfPairs
<1>9. /\ \A f, i : At(f, i, x1) => ReadNumber(f, i) = Got(n, Past(i, x1))
      /\ \A f, i : At(f, i, x3) => ReadNumber(f, i) = Got(m, Past(i, x3))
  BY <1>2, <1>3, TakeNumber
<1>10. IsSeq(x1) /\ IsSeq(x3)
  BY TupleIsSeq
<1> HIDE DEF x1, x2, x3, x4, v, h, n, m
<1>11. Joins(c2, x1, x2) /\ Joins(c3, c2, x3) /\ Joins(c4, c3, x4) /\ IsSeq(c4)
  <2>1. Joins(c2, x1, x2) /\ IsSeq(c2)
    BY <1>5, <1>10, JoinsIsSeq DEF Joins
  <2>2. Joins(c3, c2, x3) /\ IsSeq(c3)
    BY <1>10, <2>1, JoinsIsSeq DEF Joins
  <2>3. Joins(c4, c3, x4) /\ IsSeq(c4)
    BY <1>6, <2>2, JoinsIsSeq DEF Joins
  <2> QED
    BY <2>1, <2>2, <2>3
<1> DEFINE f == c4
<1> HIDE DEF c2, c3, c4
<1>12. At(f, 1, c4) /\ Past(1, c4) # Failed
  BY <1>11, FileIsWhole
<1> HIDE DEF f
<1>13. At(f, 1, c3) /\ At(f, Past(1, c3), x4) /\ Past(1, c4) = Past(Past(1, c3), x4)
  BY <1>11, <1>12, AtJoins
<1>14. At(f, 1, c2) /\ At(f, Past(1, c2), x3) /\ Past(1, c3) = Past(Past(1, c2), x3)
  BY <1>11, <1>13, AtJoins
<1>15. At(f, 1, x1) /\ At(f, Past(1, x1), x2) /\ Past(1, c2) = Past(Past(1, x1), x2)
  BY <1>11, <1>14, AtJoins
<1>16. /\ ReadNumber(f, 1) = Got(n, Past(1, x1))
       /\ ManyDbs(f, Past(1, x1), n) = Got(p, Past(1, c2))
       /\ ReadNumber(f, Past(1, c2)) = Got(m, Past(1, c3))
       /\ ManyNodes(f, Past(1, c3), m) = Got(v, Past(1, c4))
  BY <1>5, <1>6, <1>9, <1>13, <1>14, <1>15
<1> DEFINE r1 == ReadNumber(f, 1)
           r2 == ManyDbs(f, r1.i, r1.v)
           r3 == ReadNumber(f, r2.i)
           r4 == ManyNodes(f, r3.i, r3.v)
<1>17. ReadMeta(f) = IF r4.i = Failed THEN [kind |-> Garbled]
                     ELSE [kind |-> "read", dbs |-> MapOf(r2.v), servers |-> MapOf(r4.v)]
  BY DEF ReadMeta, ManyDbs, ManyNodes
<1> HIDE DEF r1, r2, r3, r4
<1>18. r1.v = n /\ r1.i = Past(1, x1)
  BY <1>16 DEF r1, Got
<1>19. r2.v = p /\ r2.i = Past(1, c2)
  BY <1>16, <1>18 DEF r2, Got
<1>20. r3.v = m /\ r3.i = Past(1, c3)
  BY <1>16, <1>19 DEF r3, Got
<1>21. r4.v = v /\ r4.i = Past(1, c4)
  BY <1>16, <1>20 DEF r4, Got
<1>22. ReadMeta(f) = [kind |-> "read", dbs |-> dbs, servers |-> h]
  BY <1>7, <1>8, <1>12, <1>17, <1>19, <1>21, Zenon
<1> QED
  BY <1>1, <1>22, Zenon DEF f, h

(***************************************************************************)
(* The catalogue can be written and read.  An invariant, inductive with    *)
(* those before.                                                           *)
(***************************************************************************)

MapsFinite ==
  /\ IsFiniteSet(DOMAIN db_map_) /\ IsFiniteSet(DOMAIN ip_node_map_)
  /\ \A d \in 1..Len(tabs) : IsFiniteSet(DOMAIN tabs[d])

\* A table has the name it is found by.
Named ==
  \A d \in 1..Len(tabs) : \A x \in DOMAIN tabs[d] : tabs[d][x] # 0 => tms[tabs[d][x]].name = x

\* Records have their fields, and a table with a partition key has partitions.
Shaped(r) == \A j \in 1..Len(r) : r[j] = [ip_addr |-> r[j].ip_addr, role |-> r[j].role]
LocationShaped(l) == l = [p_id |-> l.p_id, replicas |-> l.replicas] /\ Shaped(l.replicas)
TableKept(tab) ==
  /\ TableShape(tab)
  /\ tab.columns \in Seq([name : STRING, type : Nat])
  /\ tab.partition_key_name # NoName => tab.partitions # <<>>
  /\ \A l \in 1..Len(tab.table_location) : LocationShaped(tab.table_location[l])
TablesKept == \A i \in 1..Len(tms) : TableKept(tms[i])
WorkShaped == \A t \in Threads : Shaped(work[t].replicas)

FileInv == MapsFinite /\ Named /\ TablesKept /\ WorkShaped

\* A map with an entry added or changed.
LEMMA WithDomain ==
  ASSUME NEW f, NEW k, NEW v, NEW g, g = With(f, k, v)
  PROVE  /\ DOMAIN g = DOMAIN f \cup {k}
         /\ \A x \in DOMAIN g : g[x] = IF x = k THEN v ELSE f[x]
BY DEF With

\* It is finite if the map was.
LEMMA WithFinite ==
  ASSUME NEW f, NEW k, NEW v, NEW g, g = With(f, k, v), IsFiniteSet(DOMAIN f)
  PROVE  IsFiniteSet(DOMAIN g)
<1>1. DOMAIN g = DOMAIN f \cup {k}
  BY WithDomain
<1>2. IsFiniteSet(DOMAIN f \cup {k})
  BY FS_AddElement
<1> QED
  BY <1>1, <1>2

\* A step that leaves the maps and the tables alone.
LEMMA SameFile ==
  ASSUME FileInv, UNCHANGED <<db_map_, ip_node_map_, tabs, tms>>, WorkShaped'
  PROVE  FileInv'
BY DEF FileInv, MapsFinite, Named, TablesKept

\* A call that ends drops its replicas.
LEMMA ReturnShaped ==
  ASSUME PlaceInv, FileInv, NEW t \in Threads, Return(t)
  PROVE  WorkShaped'
<1>1. \A u \in Threads : work'[u] = IF u = t THEN NoWork ELSE work[u]
  BY DEF Return, PlaceInv, WorksOK
<1>2. NoWork.replicas = <<>> /\ Len(<<>>) = 0
  BY DEF NoWork
<1>3. ASSUME NEW u \in Threads PROVE Shaped(work'[u].replicas)
  <2>1. CASE u = t
    BY <1>1, <1>2, <2>1 DEF Shaped
  <2>2. CASE u # t
    BY <1>1, <2>2 DEF FileInv, WorkShaped
  <2> QED
    BY <2>1, <2>2
<1> QED
  BY <1>3 DEF WorkShaped, Shaped

\* Replicas that do not change keep their fields.
LEMMA StillShaped ==
  ASSUME FileInv, UNCHANGED work
  PROVE  WorkShaped'
BY DEF FileInv, WorkShaped, Shaped

\* Names are found again as long as the tables keep theirs.
LEMMA StillNamed ==
  ASSUME Inv, FileInv, UNCHANGED tabs, Len(tms') >= Len(tms),
         \A i \in 1..Len(tms) : tms'[i].name = tms[i].name
  PROVE  Named'
<1>1. ASSUME NEW d \in 1..Len(tabs), NEW x \in DOMAIN tabs[d], tabs[d][x] # 0
      PROVE  tms'[tabs[d][x]].name = x
  <2>1. tabs[d][x] \in 1..Len(tms)
    BY <1>1 DEF Inv, MapInv, Pointed, IsSeq
  <2> QED
    BY <1>1, <2>1 DEF FileInv, Named
<1> QED
  BY <1>1 DEF Named

\* A lookup may add an entry to the map of databases,
LEMMA LookupDbFile ==
  ASSUME PlaceInv, FileInv, NEW t \in Threads, LookupDb(t)
  PROVE  FileInv'
<1>1. /\ UNCHANGED <<ip_node_map_, tabs, tms>> /\ (Return(t) \/ UNCHANGED work)
      /\ \E p : db_map_' = With(db_map_, call[t].db, p)
  BY DEF LookupDb, placement
<1>2. MapsFinite'
  <2>1. IsFiniteSet(DOMAIN db_map_')
    BY <1>1, WithFinite DEF FileInv, MapsFinite
  <2> QED
    BY <1>1, <2>1 DEF FileInv, MapsFinite
<1>3. WorkShaped'
  BY <1>1, ReturnShaped, StillShaped
<1>4. Named' /\ TablesKept'
  BY <1>1 DEF FileInv, Named, TablesKept
<1> QED
  BY <1>2, <1>3, <1>4 DEF FileInv

\* or a null pointer to that of tables.
LEMMA FindTableFile ==
  ASSUME Inv, PlaceInv, FileInv, NEW t \in Threads, FindTable(t)
  PROVE  FileInv'
<1> DEFINE d == dp[t]
           x == call[t].tab
           p == IF x \in DOMAIN tabs[d] THEN tabs[d][x] ELSE 0
<1>1. /\ UNCHANGED <<ip_node_map_, db_map_, tms>> /\ (Return(t) \/ UNCHANGED work)
      /\ tabs' = [tabs EXCEPT ![d] = With(tabs[d], x, p)]
  BY DEF FindTable, placement
<1>2. d \in 1..Len(tabs) /\ IsSeq(tabs)
  BY DEF FindTable, Inv, MapInv, Pointed, ThreadsPointed, AtDb, InDb, Readers
<1>3. /\ Len(tabs') = Len(tabs) /\ tabs'[d] = With(tabs[d], x, p)
      /\ \A j \in 1..Len(tabs) : j # d => tabs'[j] = tabs[j]
  BY <1>1, <1>2, TabsStaySeq
<1>8. /\ DOMAIN tabs'[d] = DOMAIN tabs[d] \cup {x}
      /\ \A y \in DOMAIN tabs'[d] : tabs'[d][y] = IF y = x THEN p ELSE tabs[d][y]
  <2> HIDE DEF d, x, p
  <2>1. tabs'[d] = With(tabs[d], x, p)
    BY <1>3
  <2> QED
    BY <2>1 DEF With
<1>4. MapsFinite'
  <2>1. IsFiniteSet(DOMAIN tabs'[d])
    <3>1. IsFiniteSet(DOMAIN tabs[d])
      BY <1>2 DEF FileInv, MapsFinite
    <3> HIDE DEF d, x, p
    <3> QED
      BY <1>3, <3>1, WithFinite
  <2> QED
    BY <1>1, <1>3, <2>1 DEF FileInv, MapsFinite
<1>5. Named'
  <2>1. ASSUME NEW e \in 1..Len(tabs), NEW y \in DOMAIN tabs'[e], tabs'[e][y] # 0
        PROVE  tms[tabs'[e][y]].name = y
    <3>1. y \in DOMAIN tabs[e] /\ tabs'[e][y] = tabs[e][y]
      <4>1. CASE e = d
        <5>1. y \in DOMAIN tabs[d] \cup {x} /\ tabs'[d][y] = IF y = x THEN p ELSE tabs[d][y]
          <6> HIDE DEF d, x, p
          <6> QED
            BY <1>8, <2>1, <4>1
        <5> QED
          BY <2>1, <4>1, <5>1
      <4>2. CASE e # d
        BY <1>3, <2>1, <4>2
      <4> QED
        BY <4>1, <4>2
    <3> QED
      BY <2>1, <3>1 DEF FileInv, Named
  <2> QED
    BY <1>1, <1>3, <2>1 DEF Named
<1>6. WorkShaped'
  BY <1>1, ReturnShaped, StillShaped
<1>7. TablesKept'
  BY <1>1 DEF FileInv, TablesKept
<1> QED
  BY <1>4, <1>5, <1>6, <1>7 DEF FileInv

\* A table enters the map with the name it has.
LEMMA NewTableFile ==
  ASSUME Inv, PlaceInv, FileInv, NEW t \in Threads, NewTable(t)
  PROVE  FileInv'
<1> DEFINE c == call[t]
           d == db_map_[c.db]
           i == Len(tms) + 1
           cols == IF c.op = "CreateTable" THEN c.arg ELSE c.arg.columns
           tab == [oid |-> next_oid[d], name |-> c.tab, columns |-> cols,
                   partition_type |-> NONE_PARTITION, partition_key_name |-> NoName,
                   partition_key_type |-> 0, partition_cnt |-> 0, partitions |-> <<>>,
                   duplicate_type |-> NOT_DUPLICATE, table_location |-> <<>>]
<1>1. /\ UNCHANGED <<ip_node_map_, db_map_, work>> /\ pc[t] = "new_tab"
      /\ tms' = Append(tms, tab) /\ tabs' = [tabs EXCEPT ![d] = With(tabs[d], c.tab, i)]
  BY DEF NewTable, placement
<1>2. d \in 1..Len(tabs) /\ IsSeq(tabs) /\ IsSeq(tms)
  BY <1>1 DEF Inv, MapInv, Pointed, ThreadsPointed, AtDb, InDb, Writers, IsSeq
<1>3. /\ Len(tabs') = Len(tabs) /\ tabs'[d] = With(tabs[d], c.tab, i)
      /\ \A j \in 1..Len(tabs) : j # d => tabs'[j] = tabs[j]
  <2> HIDE DEF d
  <2> QED
    BY <1>1, <1>2, TabsStaySeq
<1>4. /\ Len(tms) \in Nat /\ Len(tms') = Len(tms) + 1 /\ tms'[i] = tab
      /\ \A j \in 1..Len(tms) : tms'[j] = tms[j]
  <2> HIDE DEF tab
  <2> QED
    BY <1>1, <1>2, AppendIsSeq
<1>5. cols \in Seq([name : STRING, type : Nat])
  <2>1. c \in CreateCalls
    BY <1>1 DEF PlaceInv, CallsOK, CallOK, Creators, Writers
  <2> QED
    BY <2>1, MetaAssumption DEF CreateCalls
<1>6. TableKept(tab)
  <2>1. TableShape(tab)
    BY DEF TableShape, Fields
  <2>2. tab.columns = cols /\ tab.partition_key_name = NoName /\ tab.table_location = <<>>
    OBVIOUS
  <2> HIDE DEF tab, cols
  <2> QED
    BY <1>5, <2>1, <2>2 DEF TableKept
<1>7. tab.name = c.tab
  OBVIOUS
<1> HIDE DEF tab, d, c
<1>8. TablesKept'
  <2>1. ASSUME NEW j \in 1..Len(tms') PROVE TableKept(tms'[j])
    <3>1. CASE j = i
      BY <1>4, <1>6, <3>1
    <3>2. CASE j # i
      <4>1. j \in 1..Len(tms)
        BY <1>4, <3>2
      <4> QED
        BY <1>4, <4>1 DEF FileInv, TablesKept
    <3> QED
      BY <3>1, <3>2
  <2> QED
    BY <2>1 DEF TablesKept
<1>11. /\ DOMAIN tabs'[d] = DOMAIN tabs[d] \cup {c.tab}
       /\ \A y \in DOMAIN tabs'[d] : tabs'[d][y] = IF y = c.tab THEN i ELSE tabs[d][y]
  <2>1. tabs'[d] = With(tabs[d], c.tab, i)
    BY <1>3
  <2> QED
    BY <2>1 DEF With
<1>9. MapsFinite'
  <2>1. IsFiniteSet(DOMAIN tabs'[d])
    <3>1. IsFiniteSet(DOMAIN tabs[d])
      BY <1>2 DEF FileInv, MapsFinite
    <3> QED
      BY <1>3, <3>1, WithFinite
  <2> QED
    BY <1>1, <1>3, <2>1 DEF FileInv, MapsFinite
<1>10. Named'
  <2>1. ASSUME NEW e \in 1..Len(tabs), NEW y \in DOMAIN tabs'[e], tabs'[e][y] # 0
        PROVE  tms'[tabs'[e][y]].name = y
    <3>1. CASE e = d /\ y = c.tab
      <4>1. tabs'[e][y] = i
        BY <1>11, <2>1, <3>1
      <4> QED
        BY <1>4, <1>7, <3>1, <4>1
    <3>2. CASE ~(e = d /\ y = c.tab)
      <4>1. y \in DOMAIN tabs[e] /\ tabs'[e][y] = tabs[e][y]
        <5>1. CASE e = d
          <6>1. y \in DOMAIN tabs[d] \cup {c.tab} /\ tabs'[d][y] = IF y = c.tab THEN i ELSE tabs[d][y]
            BY <1>11, <2>1, <5>1
          <6> QED
            BY <3>2, <5>1, <6>1
        <5>2. CASE e # d
          BY <1>3, <2>1, <5>2
        <5> QED
          BY <5>1, <5>2
      <4>2. tabs[e][y] \in 1..Len(tms)
        BY <2>1, <4>1 DEF Inv, MapInv, Pointed, IsSeq
      <4> QED
        BY <1>4, <2>1, <4>1, <4>2 DEF FileInv, Named
    <3> QED
      BY <3>1, <3>2
  <2> QED
    BY <1>3, <2>1 DEF Named
<1> QED
  BY <1>1, <1>8, <1>9, <1>10, StillShaped DEF FileInv

\* A table that is changed keeps its name and can still be written.
LEMMA ChangedTableFile ==
  ASSUME Inv, FileInv, NEW i \in 1..Len(tms), NEW new, tms' = [tms EXCEPT ![i] = new],
         TableKept(new), new.name = tms[i].name, UNCHANGED tabs
  PROVE  TablesKept' /\ Named'
<1>1. IsSeq(tms)
  BY DEF Inv, MapInv, Pointed
<1>2. /\ IsSeq(tms') /\ Len(tms') = Len(tms) /\ tms'[i] = new
      /\ \A j \in 1..Len(tms) : j # i => tms'[j] = tms[j]
  BY <1>1, TmsStaySeq
<1>3. \A j \in 1..Len(tms) : TableKept(tms'[j])
  BY <1>2 DEF FileInv, TablesKept
<1>4. TablesKept'
  BY <1>2, <1>3 DEF TablesKept
<1>5. Len(tms') >= Len(tms) /\ \A j \in 1..Len(tms) : tms'[j].name = tms[j].name
  BY <1>1, <1>2 DEF IsSeq
<1> QED
  BY <1>4, <1>5, StillNamed

\* It gets its partition key with its partitions.
LEMMA DescribeTableFile ==
  ASSUME Inv, PlaceInv, FileInv, NEW t \in Threads, DescribeTable(t), ~Stop
  PROVE  FileInv'
<1> DEFINE req == call[t].arg
           old == tms[tp[t]]
           parts == [i \in 1..req.partition_cnt |->
                     [p_id |-> i - 1, min_range |-> req.range[i].min_range,
                      max_range |-> req.range[i].max_range]]
           dup == IF req.has_replica THEN DUPLICATE ELSE NOT_DUPLICATE
           new == [old EXCEPT
                  !.partition_key_name = "key",
                  !.partition_cnt = req.partition_cnt,
                  !.partition_type = TypeStored(req),
                  !.partition_key_type = req.partition_key_type,
                  !.partitions = parts,
                  !.duplicate_type = dup]
<1>1. /\ pc[t] = "set_oid" /\ call[t].op = "CreatePartitionTable"
      /\ UNCHANGED <<db_map_, tabs, ip_node_map_, work>>
      /\ tms' = [tms EXCEPT ![tp[t]] = new]
  BY DEF DescribeTable, placement
<1>2. tp[t] \in 1..Len(tms) /\ TableKept(old)
  BY <1>1 DEF Inv, MapInv, ThreadsPointed, Makers, FileInv, TablesKept
<1>3. req \in PartitionRequests
  BY <1>1 DEF PlaceInv, CallsOK, CallOK, Creators, Writers, Makers, CreateCalls
<1>4. parts # <<>>
  <2>1. req.partition_cnt \in Nat \ {0}
    BY <1>3, MetaAssumption
  <2>2. 1 \in DOMAIN parts
    BY <2>1
  <2> QED
    BY <2>2
<1> HIDE DEF parts, dup, req, old
<1>5. DOMAIN old = Fields
  BY <1>2 DEF TableKept, TableShape
<1>6. TableShape(new)
  BY <1>5 DEF TableShape
<1>7. /\ new.columns = old.columns /\ new.partitions = parts /\ new.name = old.name
      /\ new.table_location = old.table_location
  BY <1>5 DEF Fields
<1> HIDE DEF new
<1>8. TableKept(new)
  BY <1>2, <1>4, <1>6, <1>7 DEF TableKept
<1>9. TablesKept' /\ Named'
  BY <1>1, <1>2, <1>7, <1>8, ChangedTableFile DEF old
<1>10. MapsFinite'
  BY <1>1 DEF FileInv, MapsFinite
<1> QED
  BY <1>1, <1>9, <1>10, StillShaped DEF FileInv

\* A replica has its address and its role.
LEMMA AppendShaped ==
  ASSUME NEW r, IsSeq(r), Shaped(r), NEW a, NEW b
  PROVE  Shaped(Append(r, [ip_addr |-> a, role |-> b]))
<1> DEFINE e == [ip_addr |-> a, role |-> b]
           q == Append(r, e)
<1>1. e = [ip_addr |-> e.ip_addr, role |-> e.role]
  OBVIOUS
<1> HIDE DEF e
<1>2. /\ Len(r) \in Nat /\ Len(q) = Len(r) + 1 /\ q[Len(r) + 1] = e
      /\ \A i \in 1..Len(r) : q[i] = r[i]
  BY AppendIsSeq
<1> HIDE DEF q
<1>3. ASSUME NEW j \in 1..Len(q) PROVE q[j] = [ip_addr |-> q[j].ip_addr, role |-> q[j].role]
  <2>1. j \in 1..Len(r) \/ j = Len(r) + 1
    BY <1>2
  <2> QED
    BY <1>1, <1>2, <2>1 DEF Shaped
<1>4. Shaped(q)
  BY <1>3 DEF Shaped
<1> QED
  BY <1>4 DEF q, e

\* Replicas are placed,
LEMMA PlaceReplicaFile ==
  ASSUME Inv, PlaceInv, FileInv, NEW t \in Threads, PlaceReplica(t), ~Stop
  PROVE  FileInv'
<1> DEFINE role == RoleOf(work[t].replicas)
<1>1. pc[t] = "place" /\ UNCHANGED <<db_map_, tabs, tms, ip_node_map_>>
  BY DEF PlaceReplica, catalogue, placement
<1>2. PICK n : work' = [work EXCEPT ![t] = [work[t] EXCEPT !.node = n, !.seen = Load(n, role),
                 !.replicas = Append(work[t].replicas, [ip_addr |-> nodes[n].ip_addr, role |-> role])]]
  BY DEF PlaceReplica
<1>3. DOMAIN work = Threads /\ DOMAIN work[t] = {"i", "replicas", "node", "seen"}
      /\ IsSeq(work[t].replicas) /\ Shaped(work[t].replicas)
  BY <1>1 DEF PlaceInv, WorksOK, WorkOK, Placers, Ranked, FileInv, WorkShaped
<1>4. /\ work'[t].replicas = Append(work[t].replicas, [ip_addr |-> nodes[n].ip_addr, role |-> role])
      /\ \A u \in Threads \ {t} : work'[u] = work[u]
  BY <1>2, <1>3
<1>5. Shaped(work'[t].replicas)
  BY <1>3, <1>4, AppendShaped
<1>6. WorkShaped'
  <2>1. \A u \in Threads : Shaped(work'[u].replicas)
    BY <1>4, <1>5 DEF FileInv, WorkShaped
  <2> QED
    BY <2>1 DEF WorkShaped, Shaped
<1> QED
  BY <1>1, <1>6, SameFile

\* and go with the location into the table.
LEMMA CountReplicaFile ==
  ASSUME Inv, PlaceInv, FileInv, NEW t \in Threads, CountReplica(t)
  PROVE  FileInv'
<1> DEFINE w == work[t]
           old == tms[tp[t]]
           loc == [p_id |-> w.i - 1, replicas |-> w.replicas]
           new == [old EXCEPT !.table_location = Append(old.table_location, loc)]
           last == Len(w.replicas) >= call[t].arg.replica_cnt
<1>1. /\ pc[t] = "count" /\ UNCHANGED <<db_map_, tabs, ip_node_map_>>
      /\ tms' = IF last THEN [tms EXCEPT ![tp[t]] = new] ELSE tms
      /\ \/ Return(t)
         \/ work' = [work EXCEPT ![t] = IF last THEN [NoWork EXCEPT !.i = w.i + 1] ELSE w]
  BY DEF CountReplica
<1>2. /\ tp[t] \in 1..Len(tms) /\ TableKept(old) /\ IsSeq(old.table_location)
      /\ DOMAIN work = Threads /\ Shaped(w.replicas)
  BY <1>1 DEF Inv, MapInv, ThreadsPointed, Makers, FileInv, TablesKept, WorkShaped,
     PlaceInv, TablesOK, TableOK, Located, WorksOK
<1>3. WorkShaped'
  <2>1. CASE Return(t)
    BY <2>1, ReturnShaped
  <2>2. CASE ~Return(t)
    <3>1. /\ work'[t].replicas = <<>> \/ work'[t] = w
          /\ \A u \in Threads \ {t} : work'[u] = work[u]
      BY <1>1, <1>2, <2>2 DEF NoWork
    <3>2. Shaped(<<>>)
      BY DEF Shaped
    <3>3. \A u \in Threads : Shaped(work'[u].replicas)
      BY <1>2, <3>1, <3>2 DEF FileInv, WorkShaped
    <3> QED
      BY <3>3 DEF WorkShaped, Shaped
  <2> QED
    BY <2>1, <2>2
<1>4. LocationShaped(loc)
  BY <1>2 DEF LocationShaped
<1>5. TableKept(new) /\ new.name = old.name
  <2> DEFINE locs == Append(old.table_location, loc)
  <2>1. DOMAIN old = Fields
    BY <1>2 DEF TableKept, TableShape
  <2>4. TableShape(new)
    BY <2>1 DEF TableShape
  <2>5. /\ new.columns = old.columns /\ new.partitions = old.partitions /\ new.name = old.name
        /\ new.partition_key_name = old.partition_key_name /\ new.table_location = locs
    BY <2>1 DEF Fields
  <2> HIDE DEF new, old, loc
  <2>2. /\ Len(old.table_location) \in Nat /\ Len(locs) = Len(old.table_location) + 1
        /\ \A l \in 1..Len(old.table_location) : locs[l] = old.table_location[l]
        /\ locs[Len(old.table_location) + 1] = loc
    BY <1>2, AppendIsSeq
  <2> HIDE DEF locs
  <2>3. ASSUME NEW l \in 1..Len(locs) PROVE LocationShaped(locs[l])
    <3>1. l \in 1..Len(old.table_location) \/ l = Len(old.table_location) + 1
      BY <2>2
    <3> QED
      BY <1>2, <1>4, <2>2, <3>1 DEF TableKept
  <2> QED
    BY <1>2, <2>3, <2>4, <2>5 DEF TableKept
<1>6. TablesKept' /\ Named'
  <2> HIDE DEF new
  <2>1. CASE last
    <3>1. tms' = [tms EXCEPT ![tp[t]] = new]
      BY <1>1, <2>1
    <3> HIDE DEF last
    <3> QED
      BY <1>1, <1>2, <1>5, <3>1, ChangedTableFile
  <2>2. CASE ~last
    BY <1>1, <2>2 DEF FileInv, Named, TablesKept
  <2> QED
    BY <2>1, <2>2
<1>7. MapsFinite'
  BY <1>1 DEF FileInv, MapsFinite
<1> QED
  BY <1>3, <1>6, <1>7 DEF FileInv

\* A new database has no tables.
LEMMA InsertDbFile ==
  ASSUME Inv, PlaceInv, FileInv, NEW t \in Threads, InsertDb(t)
  PROVE  FileInv'
<1>1. /\ UNCHANGED <<tms, ip_node_map_>> /\ Return(t) /\ tabs' = Append(tabs, <<>>)
      /\ db_map_' = With(db_map_, call[t].db, Len(tabs) + 1)
  BY DEF InsertDb, placement
<1>2. /\ Len(tabs) \in Nat /\ Len(tabs') = Len(tabs) + 1 /\ tabs'[Len(tabs) + 1] = <<>>
      /\ \A d \in 1..Len(tabs) : tabs'[d] = tabs[d]
  BY <1>1, AppendIsSeq DEF Inv, MapInv, Pointed
<1>3. \A d \in 1..Len(tabs') : d \in 1..Len(tabs) \/ d = Len(tabs) + 1
  BY <1>2
<1>4. MapsFinite'
  <2>1. IsFiniteSet(DOMAIN db_map_')
    BY <1>1, WithFinite DEF FileInv, MapsFinite
  <2>2. IsFiniteSet({}) /\ DOMAIN <<>> = {}
    BY FS_EmptySet
  <2>3. \A d \in 1..Len(tabs') : IsFiniteSet(DOMAIN tabs'[d])
    BY <1>2, <1>3, <2>2 DEF FileInv, MapsFinite
  <2> QED
    BY <1>1, <2>1, <2>3 DEF FileInv, MapsFinite
<1>5. Named'
  <2>1. DOMAIN tabs'[Len(tabs) + 1] = {}
    BY <1>2
  <2> QED
    BY <1>1, <1>2, <1>3, <2>1 DEF FileInv, Named
<1>6. TablesKept'
  BY <1>1 DEF FileInv, TablesKept
<1> QED
  BY <1>1, <1>4, <1>5, <1>6, ReturnShaped DEF FileInv

\* A new node is one more.
LEMMA InsertNodeFile ==
  ASSUME PlaceInv, FileInv, NEW t \in Threads, InsertNode(t)
  PROVE  FileInv'
<1>1. /\ UNCHANGED <<db_map_, tabs, tms>> /\ Return(t)
      /\ ip_node_map_' = With(ip_node_map_, call[t].arg, Len(nodes) + 1)
  BY DEF InsertNode, catalogue
<1>2. IsFiniteSet(DOMAIN ip_node_map_')
  BY <1>1, WithFinite DEF FileInv, MapsFinite
<1>3. MapsFinite'
  BY <1>1, <1>2 DEF FileInv, MapsFinite
<1>4. Named' /\ TablesKept'
  BY <1>1 DEF FileInv, Named, TablesKept
<1> QED
  BY <1>1, <1>3, <1>4, ReturnShaped DEF FileInv

\* At the start there is nothing to write.
LEMMA FreshFile ==
  ASSUME Init PROVE FileInv
<1>1. /\ DOMAIN db_map_ = {} /\ DOMAIN ip_node_map_ = {} /\ tabs = <<>> /\ tms = <<>>
      /\ \A t \in Threads : work[t].replicas = <<>>
  BY DEF Init, Fresh, NoWork
<1>2. MapsFinite /\ Named /\ TablesKept
  BY <1>1, FS_EmptySet DEF MapsFinite, Named, TablesKept
<1>3. WorkShaped
  BY <1>1 DEF WorkShaped, Shaped
<1> QED
  BY <1>2, <1>3 DEF FileInv

\* Nor is there after a stop.
LEMMA StopFile ==
  ASSUME Stop PROVE FileInv'
<1>1. /\ DOMAIN db_map_' = {} /\ DOMAIN ip_node_map_' = {} /\ tabs' = <<>> /\ tms' = <<>>
      /\ \A t \in Threads : work'[t].replicas = <<>>
  BY DEF Stop, Fresh, NoWork
<1>2. MapsFinite' /\ Named' /\ TablesKept'
  BY <1>1, FS_EmptySet DEF MapsFinite, Named, TablesKept
<1>3. WorkShaped'
  BY <1>1 DEF WorkShaped, Shaped
<1> QED
  BY <1>2, <1>3 DEF FileInv

\* Every step keeps the invariant.
LEMMA FileInvInductive == Inv /\ PlaceInv /\ FileInv /\ [Next]_vars => FileInv'
<1> SUFFICES ASSUME Inv, PlaceInv, FileInv, [Next]_vars PROVE FileInv'
  OBVIOUS
<1>0. CASE Stop
  BY <1>0, StopFile
<1>1. ASSUME NEW t \in Threads, Receive(t) PROVE FileInv'
  BY <1>1, SameFile, StillShaped DEF Receive, catalogue, placement
<1>2. ASSUME NEW t \in Threads, Handler(t), ~Stop PROVE FileInv'
  <2>1. CASE LookupDb(t)
    BY <2>1, LookupDbFile
  <2>2. CASE FindTable(t)
    BY <2>2, FindTableFile
  <2>3. CASE NewTable(t)
    BY <2>3, NewTableFile
  <2>4. CASE DescribeTable(t)
    BY <1>2, <2>4, DescribeTableFile
  <2>5. CASE PlaceReplica(t)
    BY <1>2, <2>5, PlaceReplicaFile
  <2>6. CASE CountReplica(t)
    BY <2>6, CountReplicaFile
  <2>7. CASE InsertDb(t)
    BY <2>7, InsertDbFile
  <2>8. CASE InsertNode(t)
    BY <2>8, InsertNodeFile
  <2>9. CASE \/ LookupLatchDb(t) \/ LatchTable(t) \/ Answer(t) \/ CreateLatchDb(t)
             \/ CheckTable(t) \/ FinishPlain(t) \/ CheckDb(t) \/ CheckNode(t)
    <3>1. UNCHANGED <<db_map_, ip_node_map_, tabs, tms>> /\ (Return(t) \/ UNCHANGED work)
      BY <2>9 DEF LookupLatchDb, LatchTable, Answer, CreateLatchDb, CheckTable, FinishPlain,
         CheckDb, CheckNode, catalogue, placement
    <3> QED
      BY <3>1, SameFile, ReturnShaped, StillShaped
  <2>10. CASE CreateEnter(t)
    <3>1. UNCHANGED <<db_map_, ip_node_map_, tabs, tms>> /\ (Return(t) \/ UNCHANGED work)
      BY <1>2, <2>10 DEF CreateEnter, catalogue, placement
    <3> QED
      BY <3>1, SameFile, ReturnShaped, StillShaped
  <2> QED
    BY <1>2, <2>1, <2>2, <2>3, <2>4, <2>5, <2>6, <2>7, <2>8, <2>9, <2>10 DEF Handler
<1>3. CASE UNCHANGED <<catalogue, placement, thread>>
  BY <1>3, SameFile, StillShaped DEF catalogue, placement, thread
<1> QED
  BY <1>0, <1>1, <1>2, <1>3 DEF Next, vars, SaveLock, SaveFails, SaveOpen, SaveWrite

\* A table that was finished with a partition key and named columns.
LEMMA WholeTableFits ==
  ASSUME PlaceInv, FileInv, NEW i \in 1..Len(tms), tms[i].name # NoName,
         tms[i].partition_key_name # NoName,
         \A c \in DOMAIN tms[i].columns : tms[i].columns[c].name # NoName
  PROVE  TableFits(tms[i])
<1> DEFINE tab == tms[i]
<1>1. TableKept(tab) /\ TableOK(i)
  BY DEF FileInv, TablesKept, PlaceInv, TablesOK
<1>2. TableShape(tab) /\ tab.partitions # <<>>
  BY <1>1 DEF TableKept
<1>3. IsSeq(tab.columns) /\ \A k \in 1..Len(tab.columns) : ColumnFits(tab.columns[k])
  <2>1. tab.columns \in Seq([name : STRING, type : Nat])
    BY <1>1 DEF TableKept
  <2>2. IsSeq(tab.columns) /\ DOMAIN tab.columns = 1..Len(tab.columns)
    BY <2>1 DEF IsSeq
  <2>3. ASSUME NEW k \in 1..Len(tab.columns) PROVE ColumnFits(tab.columns[k])
    <3>1. tab.columns[k].name # NoName
      BY <2>2
    <3> DEFINE c == tab.columns
               Shape == [name : STRING, type : Nat]
    <3>2. c \in Seq(Shape) /\ k \in 1..Len(c)
      BY <2>1
    <3> HIDE DEF c, Shape
    <3>3. c[k] \in Shape
      BY <3>2
    <3> QED
      BY <3>1, <3>3 DEF ColumnFits, c, Shape
  <2> QED
    BY <2>2, <2>3
<1>4. IsSeq(tab.partitions) /\ \A k \in 1..Len(tab.partitions) : PartitionFits(tab.partitions[k])
  <2>1. PICK req \in PartitionRequests :
          tab.partitions = [j \in 1..req.partition_cnt |->
            [p_id |-> j - 1, min_range |-> req.range[j].min_range,
             max_range |-> req.range[j].max_range]]
    BY <1>1, <1>2 DEF TableOK, Described
  <2>2. req.partition_cnt \in Nat
    BY MetaAssumption
  <2> DEFINE n == req.partition_cnt
             p == [j \in 1..n |-> [p_id |-> j - 1, min_range |-> req.range[j].min_range,
                                   max_range |-> req.range[j].max_range]]
  <2> HIDE DEF n
  <2>3. p \in [1..n -> {p[j] : j \in 1..n}]
    OBVIOUS
  <2>4. \A j \in 1..n : PartitionFits(p[j])
    BY DEF PartitionFits
  <2> HIDE DEF p
  <2>5. p \in Seq({p[j] : j \in 1..n}) /\ Len(p) = n
    <3>1. n \in Nat
      BY <2>2 DEF n
    <3> QED
      BY <2>3, <3>1
  <2>6. tab.partitions = p
    BY <2>1 DEF p, n
  <2> HIDE DEF tab
  <2> QED
    BY <2>4, <2>5, <2>6 DEF IsSeq
<1>5. /\ IsSeq(tab.table_location)
      /\ \A k \in 1..Len(tab.table_location) : LocationFits(tab.table_location[k])
  <2>1. IsSeq(tab.table_location)
    BY <1>1 DEF TableOK, Located
  <2>2. ASSUME NEW k \in 1..Len(tab.table_location) PROVE LocationFits(tab.table_location[k])
    <3> DEFINE l == tab.table_location[k]
               r == l.replicas
    <3>1. LocationShaped(l)
      BY <1>1 DEF TableKept
    <3>2. Ranked(r)
      BY <1>1 DEF TableOK, Located
    <3> HIDE DEF l
    <3>3. l = [p_id |-> l.p_id, replicas |-> l.replicas] /\ Shaped(r)
      BY <3>1 DEF LocationShaped
    <3> HIDE DEF r
    <3>4. ASSUME NEW j \in 1..Len(r) PROVE ReplicaFits(r[j])
      <4>1. r[j].ip_addr # NoName
        BY <3>2, MetaAssumption DEF Ranked
      <4> QED
        BY <3>3, <4>1 DEF Shaped, ReplicaFits
    <3>5. IsSeq(r)
      BY <3>2 DEF Ranked
    <3>6. LocationFits(l)
      BY <3>3, <3>4, <3>5 DEF LocationFits, r
    <3> QED
      BY <3>6 DEF l
  <2> QED
    BY <2>1, <2>2
<1> QED
  BY <1>2, <1>3, <1>4, <1>5 DEF TableFits

\* So is every database of the catalogue,
LEMMA CatalogueFits ==
  ASSUME Inv, PlaceInv, TypeInv, FileInv, ~NullEntry, Readable
  PROVE  IsMap(Catalogue) /\ \A db \in DOMAIN Catalogue : DbFits(<<db, Catalogue[db]>>)
<1>1. IsMap(Catalogue) /\ DOMAIN Catalogue = DOMAIN db_map_
  BY DEF IsMap, Catalogue, FileInv, MapsFinite
<1>2. ASSUME NEW db \in DOMAIN db_map_ PROVE DbFits(<<db, Catalogue[db]>>)
  <2> DEFINE d == db_map_[db]
             m == [x \in DOMAIN tabs[d] |-> tms[tabs[d][x]]]
             v == [next_oid |-> next_oid[d], tabs |-> m]
             e == <<db, v>>
  <2>1. d \in 1..Len(tabs) /\ \A x \in DOMAIN tabs[d] : tabs[d][x] # 0
    BY DEF NullEntry, Inv, MapInv, Pointed, IsSeq
  <2>2. Catalogue[db] = v
    BY DEF Catalogue
  <2>3. IsMap(m)
    BY <2>1 DEF IsMap, FileInv, MapsFinite
  <2>4. ASSUME NEW x \in DOMAIN m PROVE TableFits(m[x]) /\ m[x].name = x
    <3> DEFINE i == tabs[d][x]
    <3>1. x \in DOMAIN tabs[d] /\ m[x] = tms[i]
      OBVIOUS
    <3>2. i \in 1..Len(tms) /\ x \in Tables
      BY <2>1, <3>1 DEF Inv, MapInv, Pointed, IsSeq, TypeInv, Names
    <3>3. tms[i].name = x
      BY <2>1, <3>1 DEF FileInv, Named
    <3>4. x # NoName
      BY <3>2, MetaAssumption
    <3>5. /\ tms[i].partition_key_name # NoName
          /\ \A c \in DOMAIN tms[i].columns : tms[i].columns[c].name # NoName
      BY <3>1 DEF Readable
    <3> HIDE DEF i
    <3>6. TableFits(tms[i])
      BY <3>2, <3>3, <3>4, <3>5, WholeTableFits
    <3> QED
      BY <3>1, <3>3, <3>6
  <2>5. v = [next_oid |-> v.next_oid, tabs |-> v.tabs] /\ v.tabs = m
    OBVIOUS
  <2> HIDE DEF v, m, d
  <2>6. e[2] = v /\ e = <<e[1], e[2]>>
    OBVIOUS
  <2> HIDE DEF e
  <2>7. DbFits(e)
    BY <2>3, <2>4, <2>5, <2>6 DEF DbFits
  <2> QED
    BY <2>2, <2>7 DEF e
<1> QED
  BY <1>1, <1>2

\* and every node.
LEMMA NodeMapFits ==
  ASSUME PlaceInv, FileInv
  PROVE  IsMap(NodeMap) /\ \A s \in DOMAIN NodeMap : NodeFits(<<s, NodeMap[s]>>)
<1>1. IsMap(NodeMap) /\ DOMAIN NodeMap = DOMAIN ip_node_map_
  BY DEF IsMap, NodeMap, FileInv, MapsFinite
<1>2. ASSUME NEW s \in DOMAIN ip_node_map_ PROVE NodeFits(<<s, NodeMap[s]>>)
  <2> DEFINE n == nodes[ip_node_map_[s]]
             e == <<s, n>>
  <2>1. NodeMap[s] = n
    BY DEF NodeMap
  <2>2. NodeOK(n)
    BY DEF PlaceInv, NodesOK
  <2> HIDE DEF n
  <2>3. n = [ip_addr |-> n.ip_addr, activate |-> n.activate,
             leader_par_cnt |-> n.leader_par_cnt, follower_par_cnt |-> n.follower_par_cnt]
    BY <2>2 DEF NodeOK
  <2>4. e[2] = n
    OBVIOUS
  <2> HIDE DEF e
  <2>5. NodeFits(e)
    BY <2>3, <2>4, Zenon DEF NodeFits
  <2> QED
    BY <2>1, <2>5 DEF e
<1> QED
  BY <1>1, <1>2

\* The catalogue can always be written and read.
LEMMA FileInvAlways == Spec => []FileInv
<1>1. Init => FileInv
  BY FreshFile
<1> QED
  BY <1>1, FileInvInductive, PlaceInvAlways, PTL DEF Spec

\* The type invariant, for the proofs that need it alone.
LEMMA TypeInvAlways == Spec => []TypeInv
<1>1. Init => TypeInv
  BY FreshTypes
<1> QED
  BY <1>1, TypeInvInductive, PlaceInvAlways, PTL DEF Spec

\* What operator<< has written of a readable catalogue, operator>> reads as
\* that catalogue: a save that ends leaves a file that gives back every
\* database, every table with its columns, partitions and replicas, and every
\* node with its counts.
THEOREM FileIsReadBack == Spec => FileReadsBack
<1> DEFINE Same == (~NullEntry /\ Readable /\ saver = "write" /\ saver' = "sleep" /\ meta_file' # Torn) =>
        ReadMeta(meta_file') =
          [kind |-> "read", dbs |-> Catalogue,
           servers |-> [s \in DOMAIN NodeMap |-> [NodeMap[s] EXCEPT !.activate = FALSE]]]
<1>1. Inv /\ PlaceInv /\ TypeInv /\ FileInv /\ [Next]_vars => [Same]_vars
  <2> SUFFICES ASSUME Inv, PlaceInv, TypeInv, FileInv, [Next]_vars, ~NullEntry, Readable,
                      saver = "write", saver' = "sleep", meta_file' # Torn
               PROVE  ReadMeta(meta_file') =
                        [kind |-> "read", dbs |-> Catalogue,
                         servers |-> [s \in DOMAIN NodeMap |-> [NodeMap[s] EXCEPT !.activate = FALSE]]]
    BY Zenon
  <2>1. ~Stop
    BY DEF Stop
  <2>2. ASSUME NEW t \in Threads PROVE ~Receive(t) /\ ~Handler(t)
    BY <2>1 DEF Receive, Handler, LookupDb, LookupLatchDb, FindTable, LatchTable, Answer, CreateEnter,
       CreateLatchDb, CheckTable, NewTable, FinishPlain, DescribeTable, PlaceReplica, CountReplica,
       CheckDb, InsertDb, CheckNode, InsertNode
  <2>3. SaveWrite
    BY <2>1, <2>2 DEF Next, vars, SaveLock, SaveFails, SaveOpen
  <2>4. meta_file' = WriteMeta(Catalogue, NodeMap)
    BY <2>1, <2>3 DEF SaveWrite
  <2>5. /\ IsMap(Catalogue) /\ \A db \in DOMAIN Catalogue : DbFits(<<db, Catalogue[db]>>)
        /\ IsMap(NodeMap) /\ \A s \in DOMAIN NodeMap : NodeFits(<<s, NodeMap[s]>>)
    BY CatalogueFits, NodeMapFits
  <2> DEFINE dbs == Catalogue
             servers == NodeMap
  <2> HIDE DEF dbs, servers
  <2>6. ReadMeta(WriteMeta(dbs, servers)) =
          [kind |-> "read", dbs |-> dbs,
           servers |-> [s \in DOMAIN servers |-> [servers[s] EXCEPT !.activate = FALSE]]]
    BY <2>5, MetaRead, Zenon DEF dbs, servers
  <2> QED
    BY <2>4, <2>6, Zenon DEF dbs, servers
<1> QED
  BY <1>1, FileInvAlways, PlaceInvAlways, TypeInvAlways, PTL DEF Spec, FileReadsBack

(***************************************************************************)
(* The counts of leaders.  A sum of counts is the number of elements of a  *)
(* set with as many pairs for every server as its count.                   *)
(***************************************************************************)

\* Some element of a set of naturals is its least.
LEMMA SomeLeast ==
  ASSUME NEW S \in SUBSET Nat, S # {}
  PROVE  \E m \in S : \A y \in S : m <= y
<1> DEFINE R == {p \in Nat \X Nat : p[1] < p[2]}
<1>0. IsWellFoundedOn(R, Nat)
  BY NatLessThanWellFounded DEF OpToRel
<1>1. PICK m \in S : \A y \in S : <<y, m>> \notin R
  <2> HIDE DEF R
  <2> QED
    BY <1>0, WFMin
<1>2. ASSUME NEW y \in S PROVE m <= y
  <2>1. ASSUME y < m PROVE FALSE
    <3>1. <<y, m>> \in Nat \X Nat /\ <<y, m>>[1] < <<y, m>>[2]
      BY <2>1
    <3>2. <<y, m>> \in R
      BY <3>1, Zenon
    <3> QED
      BY <1>1, <3>2
  <2>2. m \in Nat /\ y \in Nat
    OBVIOUS
  <2> QED
    BY <2>1, <2>2
<1> QED
  BY <1>2

\* Finitely many counts.
Counted(c) == IsFiniteSet(DOMAIN c) /\ \A x \in DOMAIN c : c[x] \in Nat
Pile(c, s) == UNION {{x} \X (1..c[x]) : x \in s}
LeaderSum(s) == MapThenSumSet(LAMBDA x : nodes[ip_node_map_[x]].leader_par_cnt, s)

\* A pile of finitely many finite counts is finite.
LEMMA PileFinite ==
  ASSUME NEW c, Counted(c), NEW s \in SUBSET DOMAIN c
  PROVE  IsFiniteSet(Pile(c, s)) /\ IsFiniteSet(s)
<1> DEFINE f == [x \in s |-> {x} \X (1..c[x])]
           R == {{x} \X (1..c[x]) : x \in s}
<1>1. IsFiniteSet(s)
  BY FS_Subset DEF Counted
<1>2. f \in Surjection(s, R)
  BY DEF Surjection
<1>3. IsFiniteSet(R)
  <2> HIDE DEF f, R
  <2> QED
    BY <1>1, <1>2, FS_Surjection
<1>4. ASSUME NEW T \in R PROVE IsFiniteSet(T)
  <2>1. PICK x \in s : T = {x} \X (1..c[x])
    OBVIOUS
  <2>2. 1 \in Int /\ c[x] \in Int
    BY DEF Counted
  <2>3. IsFiniteSet({x}) /\ IsFiniteSet(1..c[x])
    BY <2>2, FS_Singleton, FS_Interval, Zenon
  <2> QED
    BY <2>1, <2>3, FS_Product
<1>5. IsFiniteSet(UNION R)
  <2> HIDE DEF R
  <2> QED
    BY <1>3, <1>4, FS_UNION
<1> QED
  BY <1>1, <1>5 DEF Pile

\* Without a server, a pile is smaller by the server's count.
LEMMA PileStep ==
  ASSUME NEW c, Counted(c), NEW s \in SUBSET DOMAIN c, NEW y \in s
  PROVE  Cardinality(Pile(c, s)) = c[y] + Cardinality(Pile(c, s \ {y}))
<1> DEFINE A == {y} \X (1..c[y])
           B == Pile(c, s \ {y})
           w == c[y]
<1>1. w \in Nat
  BY DEF Counted
<1>2. IsFiniteSet(A) /\ Cardinality(A) = w
  <2>1. IsFiniteSet({y}) /\ Cardinality({y}) = 1
    BY FS_Singleton
  <2> HIDE DEF w
  <2>2. IsFiniteSet(1..w) /\ Cardinality(1..w) = IF 1 > w THEN 0 ELSE w - 1 + 1
    BY <1>1, FS_Interval
  <2>3. Cardinality(1..w) = w
    BY <1>1, <2>2
  <2> DEFINE T == 1..w
             Y == {y}
  <2>4. IsFiniteSet(T) /\ Cardinality(T) = w /\ IsFiniteSet(Y) /\ Cardinality(Y) = 1
    BY <2>1, <2>2, <2>3
  <2> HIDE DEF T, Y
  <2>5. IsFiniteSet(Y \X T) /\ Cardinality(Y \X T) = Cardinality(Y) * Cardinality(T)
    BY <2>4, FS_Product
  <2>6. IsFiniteSet(Y \X T) /\ Cardinality(Y \X T) = w
    BY <1>1, <2>4, <2>5
  <2> QED
    BY <2>6 DEF w, T, Y
<1>3. IsFiniteSet(B) /\ Cardinality(B) \in Nat
  <2>1. s \ {y} \in SUBSET DOMAIN c
    OBVIOUS
  <2> QED
    BY <2>1, PileFinite, FS_CardinalityType
<1>4. Pile(c, s) = A \cup B
  BY DEF Pile
<1>5. A \cap B = {}
  BY DEF Pile
<1> HIDE DEF A, B, w
<1>6. Cardinality(A \cup B) = Cardinality(A) + Cardinality(B) - Cardinality(A \cap B)
  BY <1>2, <1>3, FS_Union
<1>7. Cardinality(A \cap B) = 0
  BY <1>5, FS_EmptySet
<1> QED
  BY <1>1, <1>2, <1>3, <1>4, <1>6, <1>7 DEF B, w

\* The sum that MapThenSumSet takes is the size of the pile.
LEMMA SumIsPile ==
  ASSUME NEW c, Counted(c), NEW D \in SUBSET DOMAIN c,
         \A x \in D : c[x] = nodes[ip_node_map_[x]].leader_par_cnt
  PROVE  LeaderSum(D) = Cardinality(Pile(c, D))
<1> DEFINE one(s) == CHOOSE x \in s : TRUE
           cnt(s) == nodes[ip_node_map_[one(s)]].leader_par_cnt
           Eq(f) == f = [s \in SUBSET D |-> IF s = {} THEN 0 ELSE cnt(s) + f[s \ {one(s)}]]
           g == [s \in SUBSET D |-> Cardinality(Pile(c, s))]
<1>1. \A s \in SUBSET D : s # {} => one(s) \in s /\ cnt(s) = c[one(s)]
  OBVIOUS
<1>2. Cardinality(Pile(c, {})) = 0
  <2>1. Pile(c, {}) = {}
    BY DEF Pile
  <2> QED
    BY <2>1, FS_EmptySet
<1> HIDE DEF one, cnt
<1>3. Eq(g)
  <2>1. ASSUME NEW s \in SUBSET D
        PROVE  g[s] = IF s = {} THEN 0 ELSE cnt(s) + g[s \ {one(s)}]
    <3>1. CASE s = {}
      BY <3>1, <1>2
    <3>2. CASE s # {}
      <4>1. one(s) \in s /\ s \ {one(s)} \in SUBSET D /\ s \in SUBSET DOMAIN c
        BY <3>2, <1>1
      <4>2. Cardinality(Pile(c, s)) = c[one(s)] + Cardinality(Pile(c, s \ {one(s)}))
        BY <4>1, PileStep
      <4> QED
        BY <1>1, <3>2, <4>1, <4>2
    <3> QED
      BY <3>1, <3>2
  <2> HIDE DEF g
  <2>2. g = [s \in SUBSET D |-> g[s]]
    BY DEF g
  <2> QED
    BY <2>1, <2>2
<1>4. PICK f : Eq(f) /\ LeaderSum(D) = f[D]
  <2>1. LeaderSum(D) = (CHOOSE f : Eq(f))[D]
    BY DEF LeaderSum, MapThenSumSet, MapThenFoldSet, one, cnt
  <2>2. Eq(CHOOSE f : Eq(f))
    <3> HIDE DEF Eq
    <3> QED
      BY <1>3
  <2> QED
    BY <2>1, <2>2
<1>5. ASSUME NEW t \in SUBSET D, f[t] # g[t] PROVE FALSE
  <2> DEFINE C == {k \in Nat : \E s \in SUBSET D : f[s] # g[s] /\ Cardinality(s) = k}
  <2>1. \A s \in SUBSET D : IsFiniteSet(s) /\ Cardinality(s) \in Nat
    BY PileFinite, FS_CardinalityType
  <2>2. PICK m \in C : \A k \in C : m <= k
    <3>1. C \in SUBSET Nat /\ Cardinality(t) \in C
      BY <1>5, <2>1
    <3> QED
      BY <3>1, SomeLeast
  <2>3. PICK s \in SUBSET D : f[s] # g[s] /\ Cardinality(s) = m
    BY <2>2
  <2>4. f[s] = IF s = {} THEN 0 ELSE cnt(s) + f[s \ {one(s)}]
    BY <1>4
  <2>5. g[s] = IF s = {} THEN 0 ELSE cnt(s) + g[s \ {one(s)}]
    BY <1>3
  <2>6. s # {} /\ f[s \ {one(s)}] # g[s \ {one(s)}]
    <3> HIDE DEF g
    <3> QED
      BY <2>3, <2>4, <2>5
  <2>7. one(s) \in s /\ s \ {one(s)} \in SUBSET D
    BY <2>6, <1>1
  <2>8. Cardinality(s \ {one(s)}) = Cardinality(s) - 1
    BY <2>1, <2>7, FS_RemoveElement
  <2>9. Cardinality(s \ {one(s)}) \in C
    BY <2>1, <2>6, <2>7
  <2>10. m <= Cardinality(s \ {one(s)}) /\ m = Cardinality(s) /\ Cardinality(s) \in Nat
    BY <2>1, <2>2, <2>3, <2>9, Zenon
  <2> QED
    BY <2>8, <2>10
<1>6. f[D] = g[D]
  BY <1>5
<1> QED
  BY <1>4, <1>6

\* One more for a server is one more in the pile.
LEMMA PileUp ==
  ASSUME NEW c, Counted(c), NEW d, DOMAIN d = DOMAIN c, NEW s \in SUBSET DOMAIN c,
         NEW y \in s, d[y] = c[y] + 1, \A x \in s : x # y => d[x] = c[x]
  PROVE  Cardinality(Pile(d, s)) = Cardinality(Pile(c, s)) + 1
<1> DEFINE e == <<y, c[y] + 1>>
<1>1. c[y] \in Nat
  BY DEF Counted
<1>2. 1..d[y] = 1..c[y] \cup {c[y] + 1}
  BY <1>1
<1>3. Pile(d, s) = Pile(c, s) \cup {e}
  <2>1. ASSUME NEW p PROVE p \in Pile(d, s) <=> p \in Pile(c, s) \cup {e}
    <3>1. p \in Pile(d, s) <=> \E x \in s : p \in {x} \X (1..d[x])
      BY DEF Pile
    <3>2. p \in Pile(c, s) <=> \E x \in s : p \in {x} \X (1..c[x])
      BY DEF Pile
    <3>3. p \in {y} \X (1..d[y]) <=> p \in {y} \X (1..c[y]) \/ p = e
      BY <1>2
    <3> QED
      BY <3>1, <3>2, <3>3
  <2> QED
    BY <2>1
<1>4. e \notin Pile(c, s)
  <2>1. ASSUME NEW x \in s, e \in {x} \X (1..c[x]) PROVE FALSE
    BY <1>1, <2>1
  <2> QED
    BY <2>1 DEF Pile
<1> HIDE DEF e
<1> QED
  BY <1>3, <1>4, PileFinite, FS_AddElement

(***************************************************************************)
(* The nodes' counts are the leaders placed.  An invariant, inductive with *)
(* those before.                                                           *)
(***************************************************************************)

\* No node of the address was replaced or given leaders by two threads at once.
Sure(ip) == \A x \in miscounted : Ip[x] # ip

\* The map is one to one, and has every node of such an address.
Mapped ==
  /\ \A s, u \in DOMAIN ip_node_map_ : ip_node_map_[s] = ip_node_map_[u] => s = u
  /\ \A n \in 1..Len(nodes) :
       Sure(nodes[n].ip_addr) => \E s \in DOMAIN ip_node_map_ : ip_node_map_[s] = n

\* One thread at a time is about to count a leader there,
Lone ==
  \A n \in 1..Len(nodes) : Sure(nodes[n].ip_addr) =>
    \A t, u \in Threads : CountsLeader(t, n) /\ CountsLeader(u, n) => t = u

\* and what it saw of the count is still so.
Recent(t) ==
  pc[t] = "count" =>
    LET r == work[t].replicas
        n == work[t].node
    IN  /\ r[Len(r)].ip_addr = nodes[n].ip_addr
        /\ Len(r) = 1 /\ Sure(nodes[n].ip_addr) => work[t].seen = nodes[n].leader_par_cnt

LeaderCounts == [s \in DOMAIN ip_node_map_ |-> nodes[ip_node_map_[s]].leader_par_cnt]
Home(ip) == {s \in DOMAIN ip_node_map_ : Ip[s] = ip}

\* The two sets that Led counts: leaders of placed partitions, and threads
\* that have placed a leader and are not done with its partition.
Placed(ip) ==
  UNION {{<<i, l>> : l \in
      {m \in DOMAIN tms[i].table_location : tms[i].table_location[m].replicas[1].ip_addr = ip}} :
      i \in DOMAIN tms}
Leads(t, ip) ==
  LET r == work[t].replicas
  IN  r # <<>> /\ r[1].ip_addr = ip /\ ~(pc[t] = "count" /\ Len(r) = 1)
InPlace(ip) == {t \in Threads : Leads(t, ip)}

Exact(ip) ==
  Cardinality(Pile(LeaderCounts, Home(ip))) = Cardinality(Placed(ip)) + Cardinality(InPlace(ip))

LoadInv ==
  /\ Mapped /\ Lone /\ \A t \in Threads : Recent(t)
  /\ \A ip \in {Ip[s] : s \in Servers} : Sure(ip) => Exact(ip)

\* Servers are finitely many, with counts.
LEMMA CountsAreCounted ==
  ASSUME PlaceInv, FileInv
  PROVE  Counted(LeaderCounts) /\ DOMAIN LeaderCounts = DOMAIN ip_node_map_
<1>1. \A s \in DOMAIN ip_node_map_ : nodes[ip_node_map_[s]].leader_par_cnt \in Nat
  BY DEF PlaceInv, NodesOK, NodeOK
<1> QED
  BY <1>1 DEF Counted, LeaderCounts, FileInv, MapsFinite

\* What is in Placed.
LEMMA PlacedIs ==
  ASSUME NEW ip, NEW e
  PROVE  e \in Placed(ip) <=>
           \E i \in DOMAIN tms : \E m \in DOMAIN tms[i].table_location :
             tms[i].table_location[m].replicas[1].ip_addr = ip /\ e = <<i, m>>
BY DEF Placed

\* Placed partitions are finitely many.
LEMMA PlacedFinite ==
  ASSUME Inv, PlaceInv, NEW ip
  PROVE  IsFiniteSet(Placed(ip)) /\ Cardinality(Placed(ip)) \in Nat
<1> DEFINE c == [i \in DOMAIN tms |-> Len(tms[i].table_location)]
<1>1. DOMAIN tms = 1..Len(tms) /\ Len(tms) \in Nat
  BY DEF Inv, MapInv, Pointed, IsSeq
<1>2. \A i \in DOMAIN tms : /\ Len(tms[i].table_location) \in Nat
                            /\ DOMAIN tms[i].table_location = 1..Len(tms[i].table_location)
  BY <1>1 DEF PlaceInv, TablesOK, TableOK, Located, IsSeq
<1>3. IsFiniteSet(DOMAIN tms)
  <2>1. 1 \in Int /\ Len(tms) \in Int
    BY <1>1
  <2> QED
    BY <1>1, <2>1, FS_Interval
<1>4. Counted(c) /\ DOMAIN c = DOMAIN tms
  BY <1>2, <1>3 DEF Counted
<1>5. Placed(ip) \subseteq Pile(c, DOMAIN tms)
  BY <1>2 DEF Placed, Pile
<1> HIDE DEF c
<1>6. IsFiniteSet(Pile(c, DOMAIN tms))
  BY <1>4, PileFinite
<1> QED
  BY <1>5, <1>6, FS_Subset, FS_CardinalityType

(***************************************************************************)
(* Steps that place and count nothing.                                     *)
(***************************************************************************)

\* The nodes keep their addresses and counts.
NodesKept ==
  /\ UNCHANGED ip_node_map_ /\ Len(nodes') = Len(nodes)
  /\ \A n \in 1..Len(nodes) :
       /\ nodes'[n].ip_addr = nodes[n].ip_addr
       /\ nodes'[n].leader_par_cnt = nodes[n].leader_par_cnt
       /\ nodes'[n].follower_par_cnt = nodes[n].follower_par_cnt

\* The tables keep their locations, and a new one has none.
LocationsKept ==
  /\ DOMAIN tms \subseteq DOMAIN tms'
  /\ \A i \in DOMAIN tms : tms'[i].table_location = tms[i].table_location
  /\ \A i \in DOMAIN tms' : i \notin DOMAIN tms => tms'[i].table_location = <<>>

\* A thread goes on with its replicas, or has none before and after.
Quiet(u) ==
  \/ pc'[u] = pc[u] /\ work'[u] = work[u]
  \/ work[u] = NoWork /\ work'[u] = NoWork /\ pc'[u] # "count"

SureKept == miscounted \subseteq miscounted'

\* The same partitions are placed,
LEMMA SamePlaced ==
  ASSUME LocationsKept, NEW ip
  PROVE  Placed(ip)' = Placed(ip)
<1>1. ASSUME NEW e PROVE e \in Placed(ip)' <=> e \in Placed(ip)
  <2>1. e \in Placed(ip)' <=>
           \E i \in DOMAIN tms' : \E m \in DOMAIN tms'[i].table_location :
             tms'[i].table_location[m].replicas[1].ip_addr = ip /\ e = <<i, m>>
    BY DEF Placed
  <2>2. \A i \in DOMAIN tms' : i \notin DOMAIN tms => DOMAIN tms'[i].table_location = {}
    BY DEF LocationsKept
  <2> QED
    BY <2>1, <2>2, PlacedIs DEF LocationsKept
<1> QED
  BY <1>1

\* the same threads place,
LEMMA SameInPlace ==
  ASSUME \A u \in Threads : Quiet(u), NEW ip
  PROVE  InPlace(ip)' = InPlace(ip)
<1>1. ASSUME NEW u \in Threads PROVE Leads(u, ip)' <=> Leads(u, ip)
  <2>1. CASE pc'[u] = pc[u] /\ work'[u] = work[u]
    BY <2>1 DEF Leads
  <2>2. CASE work[u] = NoWork /\ work'[u] = NoWork
    BY <2>2 DEF Leads, NoWork
  <2> QED
    BY <2>1, <2>2 DEF Quiet
<1> QED
  BY <1>1 DEF InPlace

\* the counts are the same,
LEMMA SameCounts ==
  ASSUME PlaceInv, NodesKept, NEW ip
  PROVE  LeaderCounts' = LeaderCounts /\ Home(ip)' = Home(ip)
<1>1. \A s \in DOMAIN ip_node_map_ : ip_node_map_[s] \in 1..Len(nodes)
  BY DEF PlaceInv, NodesOK
<1> QED
  BY <1>1 DEF LeaderCounts, Home, NodesKept

\* and the invariant holds again.
LEMMA SameLoad ==
  ASSUME PlaceInv, LoadInv, SureKept, NodesKept, LocationsKept, \A u \in Threads : Quiet(u)
  PROVE  LoadInv'
<1>0. \A ip : Sure(ip)' => Sure(ip)
  BY DEF Sure, SureKept
<1>c. ASSUME NEW u \in Threads, pc'[u] = "count" PROVE pc[u] = "count" /\ work'[u] = work[u]
  BY <1>c DEF Quiet
<1>1. Mapped'
  BY <1>0 DEF LoadInv, Mapped, NodesKept
<1>2. ASSUME NEW u \in Threads PROVE Recent(u)'
  <2> SUFFICES ASSUME pc'[u] = "count" PROVE Recent(u)'
    BY DEF Recent
  <2>1. pc[u] = "count" /\ work'[u] = work[u]
    BY <1>c
  <2>2. work[u].node \in 1..Len(nodes)
    BY <2>1 DEF PlaceInv, WorksOK, WorkOK
  <2>3. Recent(u)
    BY DEF LoadInv
  <2> QED
    BY <1>0, <2>1, <2>2, <2>3 DEF Recent, NodesKept
<1>3. ASSUME NEW ip \in {Ip[s] : s \in Servers}, Sure(ip)' PROVE Exact(ip)'
  <2>1. Exact(ip)
    BY <1>0, <1>3 DEF LoadInv
  <2> QED
    BY <2>1, SamePlaced, SameInPlace, SameCounts DEF Exact
<1>4. Lone'
  <2>1. \A n : \A u \in Threads : CountsLeader(u, n)' => CountsLeader(u, n)
    BY <1>c DEF CountsLeader
  <2> QED
    BY <1>0, <2>1 DEF LoadInv, Lone, NodesKept
<1> QED
  BY <1>1, <1>2, <1>3, <1>4 DEF LoadInv

\* Threads that go on before they place replicas.
LEMMA QuietBack ==
  ASSUME Inv, PlaceInv, NEW t \in Threads, Return(t), pc[t] \notin Placers
  PROVE  \A u \in Threads : Quiet(u)
<1>1. Others(t) /\ pc'[t] = "idle" /\ work'[t] = NoWork
  BY ReturnOthers
<1>2. work[t] = NoWork
  BY DEF PlaceInv, WorksOK, WorkOK
<1> QED
  BY <1>1, <1>2 DEF Quiet, Others, OnlyMoves

\* The same for a thread that goes on to another place of its handler.
LEMMA QuietOn ==
  ASSUME Inv, PlaceInv, NEW t \in Threads, NEW p, p # "count", Goto(t, p), UNCHANGED work,
         pc[t] \notin Placers
  PROVE  \A u \in Threads : Quiet(u)
<1>1. work[t] = NoWork
  BY DEF PlaceInv, WorksOK, WorkOK
<1>2. pc'[t] = p /\ \A u \in Threads \ {t} : pc'[u] = pc[u]
  BY DEF Goto, Inv, LatchInv, ThreadTypes
<1> QED
  BY <1>1, <1>2 DEF Quiet

\* What does not change is kept.
LEMMA NothingKept ==
  /\ UNCHANGED <<ip_node_map_, nodes>> => NodesKept
  /\ UNCHANGED tms => LocationsKept
  /\ UNCHANGED miscounted => SureKept
BY DEF NodesKept, LocationsKept, SureKept

\* A table is entered, without locations.
LEMMA NewTableLoad ==
  ASSUME Inv, PlaceInv, LoadInv, NEW t \in Threads, NewTable(t)
  PROVE  LoadInv'
<1>1. /\ pc[t] = "new_tab" /\ Goto(t, "set_oid")
      /\ UNCHANGED <<ip_node_map_, nodes, miscounted, work>>
  BY DEF NewTable, placement
<1>2. PICK e : tms' = Append(tms, e) /\ e.table_location = <<>>
  BY DEF NewTable
<1>3. IsSeq(tms)
  BY DEF Inv, MapInv, Pointed
<1>4. /\ IsSeq(tms') /\ Len(tms) \in Nat /\ Len(tms') = Len(tms) + 1
      /\ \A i \in 1..Len(tms) : tms'[i] = tms[i]
      /\ tms'[Len(tms) + 1] = e
  BY <1>2, <1>3, AppendIsSeq
<1>5. LocationsKept
  <2>1. DOMAIN tms = 1..Len(tms) /\ DOMAIN tms' = 1..(Len(tms) + 1)
    BY <1>3, <1>4 DEF IsSeq
  <2> QED
    BY <1>2, <1>4, <2>1 DEF LocationsKept
<1>6. \A u \in Threads : Quiet(u)
  BY <1>1, QuietOn DEF Placers
<1> QED
  BY <1>1, <1>5, <1>6, NothingKept, SameLoad

\* It gets its partitions.
LEMMA DescribeTableLoad ==
  ASSUME Inv, PlaceInv, LoadInv, NEW t \in Threads, DescribeTable(t), ~Stop
  PROVE  LoadInv'
<1> DEFINE old == tms[tp[t]]
<1>1. /\ pc[t] = "set_oid" /\ Goto(t, "place")
      /\ UNCHANGED <<ip_node_map_, nodes, miscounted, work>>
  BY DEF DescribeTable, placement, history
<1>2. PICK e : tms' = [tms EXCEPT ![tp[t]] = e] /\ e.table_location = old.table_location
  <2>1. tp[t] \in 1..Len(tms) /\ DOMAIN old = Fields
    BY <1>1 DEF Inv, MapInv, ThreadsPointed, Makers, PlaceInv, TablesOK, TableOK
  <2> DEFINE req == call[t].arg
             e == [old EXCEPT
                  !.partition_key_name = "key",
                  !.partition_cnt = req.partition_cnt,
                  !.partition_type = TypeStored(req),
                  !.partition_key_type = req.partition_key_type,
                  !.partitions = [i \in 1..req.partition_cnt |->
                     [p_id |-> i - 1, min_range |-> req.range[i].min_range,
                      max_range |-> req.range[i].max_range]],
                  !.duplicate_type = IF req.has_replica THEN DUPLICATE ELSE NOT_DUPLICATE]
  <2>2. tms' = [tms EXCEPT ![tp[t]] = e]
    BY DEF DescribeTable
  <2>3. e.table_location = old.table_location
    BY <2>1 DEF Fields
  <2> HIDE DEF e
  <2> QED
    BY <2>2, <2>3
<1>3. IsSeq(tms) /\ tp[t] \in 1..Len(tms)
  BY <1>1 DEF Inv, MapInv, Pointed, ThreadsPointed, Makers
<1>4. LocationsKept
  <2> HIDE DEF old
  <2>1. DOMAIN tms' = DOMAIN tms
    BY <1>2
  <2> QED
    BY <1>2, <1>3, <2>1 DEF LocationsKept, old
<1>5. \A u \in Threads : Quiet(u)
  BY <1>1, QuietOn DEF Placers
<1> QED
  BY <1>1, <1>4, <1>5, NothingKept, SameLoad

\* A node becomes active again.
LEMMA CheckNodeLoad ==
  ASSUME Inv, PlaceInv, LoadInv, NEW t \in Threads, CheckNode(t)
  PROVE  LoadInv'
<1>1. pc[t] = "check_node" /\ UNCHANGED <<tms, ip_node_map_, miscounted>>
  BY DEF CheckNode, catalogue, history
<1>2. CASE Goto(t, "insert_node") /\ UNCHANGED <<nodes, work>>
  BY <1>1, <1>2, QuietOn, NothingKept, SameLoad DEF Placers
<1>3. CASE ~(Goto(t, "insert_node") /\ UNCHANGED <<nodes, work>>)
  <2> DEFINE n == ip_node_map_[call[t].arg]
             e == [nodes[n] EXCEPT !.activate = TRUE]
  <2>1. /\ call[t].arg \in DOMAIN ip_node_map_ /\ Return(t)
        /\ nodes' = [nodes EXCEPT ![n] = e]
    BY <1>3 DEF CheckNode
  <2>2. n \in 1..Len(nodes) /\ NodeOK(nodes[n]) /\ IsSeq(nodes)
    BY <2>1 DEF PlaceInv, NodesOK
  <2>3. /\ e.ip_addr = nodes[n].ip_addr /\ e.leader_par_cnt = nodes[n].leader_par_cnt
        /\ e.follower_par_cnt = nodes[n].follower_par_cnt
    BY <2>2 DEF NodeOK
  <2> HIDE DEF e
  <2>4. /\ Len(nodes') = Len(nodes) /\ nodes'[n] = e
        /\ \A j \in 1..Len(nodes) : j # n => nodes'[j] = nodes[j]
    BY <2>1, <2>2, NodesStaySeq
  <2>5. NodesKept
    BY <1>1, <2>3, <2>4 DEF NodesKept
  <2>6. \A u \in Threads : Quiet(u)
    BY <1>1, <2>1, QuietBack DEF Placers
  <2> QED
    BY <1>1, <2>5, <2>6, NothingKept, SameLoad
<1> QED
  BY <1>2, <1>3

\* A new node leads nothing.
LEMMA InsertNodeLoad ==
  ASSUME Inv, PlaceInv, FileInv, LoadInv, NEW t \in Threads, InsertNode(t)
  PROVE  LoadInv'
<1> DEFINE s == call[t].arg
           n == Len(nodes) + 1
<1>1. /\ pc[t] = "insert_node" /\ Return(t) /\ UNCHANGED tms
      /\ nodes' = Append(nodes, NewNode(s))
      /\ ip_node_map_' = With(ip_node_map_, s, n)
      /\ miscounted' = IF s \in DOMAIN ip_node_map_ THEN miscounted \cup {s} ELSE miscounted
  BY DEF InsertNode, catalogue
<1>2. \A ip : Sure(ip)' => Sure(ip) /\ (s \in DOMAIN ip_node_map_ => Ip[s] # ip)
  BY <1>1 DEF Sure
<1>3. NewNode(s).leader_par_cnt = 0
  BY DEF NewNode
<1>4. /\ IsSeq(nodes') /\ Len(nodes') = n /\ Len(nodes) \in Nat /\ nodes'[n] = NewNode(s)
      /\ \A j \in 1..Len(nodes) : nodes'[j] = nodes[j]
  BY <1>1, AppendIsSeq DEF PlaceInv, NodesOK
<1>5. /\ DOMAIN ip_node_map_' = DOMAIN ip_node_map_ \cup {s} /\ ip_node_map_'[s] = n
      /\ \A x \in DOMAIN ip_node_map_ : x # s => ip_node_map_'[x] = ip_node_map_[x]
  BY <1>1 DEF With
<1>6. \A x \in DOMAIN ip_node_map_ :
        ip_node_map_[x] \in 1..Len(nodes) /\ nodes[ip_node_map_[x]].ip_addr = Ip[x]
  BY DEF PlaceInv, NodesOK
<1>7. n \notin 1..Len(nodes) /\ \A j \in 1..Len(nodes') : j = n \/ j \in 1..Len(nodes)
  BY <1>4
<1> HIDE DEF n
<1>8. Mapped'
  <2>1. Mapped
    BY DEF LoadInv
  <2>2. \A x, y \in DOMAIN ip_node_map_' : ip_node_map_'[x] = ip_node_map_'[y] => x = y
    BY <1>5, <1>6, <1>7, <2>1 DEF Mapped
  <2>3. ASSUME NEW j \in 1..Len(nodes), Sure(nodes[j].ip_addr)'
        PROVE  \E x \in DOMAIN ip_node_map_' : ip_node_map_'[x] = j
    <3>1. Sure(nodes[j].ip_addr) /\ (s \in DOMAIN ip_node_map_ => Ip[s] # nodes[j].ip_addr)
      BY <1>2, <1>4, <2>3
    <3>2. PICK x \in DOMAIN ip_node_map_ : ip_node_map_[x] = j
      BY <2>1, <3>1 DEF Mapped
    <3> QED
      BY <1>5, <1>6, <3>1, <3>2
  <2>4. \A j \in 1..Len(nodes') : Sure(nodes[j].ip_addr)' =>
          \E x \in DOMAIN ip_node_map_' : ip_node_map_'[x] = j
    BY <1>5, <1>7, <2>3
  <2> QED
    BY <2>2, <2>4 DEF Mapped
<1>9. \A u \in Threads : Quiet(u)
  BY <1>1, QuietBack DEF Placers
<1>c. ASSUME NEW u \in Threads, pc'[u] = "count"
      PROVE  pc[u] = "count" /\ work'[u] = work[u] /\ work[u].node \in 1..Len(nodes)
  <2>1. pc[u] = "count" /\ work'[u] = work[u]
    BY <1>9, <1>c DEF Quiet
  <2> QED
    BY <2>1 DEF PlaceInv, WorksOK, WorkOK
<1>10. ASSUME NEW u \in Threads PROVE Recent(u)'
  <2> SUFFICES ASSUME pc'[u] = "count" PROVE Recent(u)'
    BY DEF Recent
  <2>1. Recent(u)
    BY DEF LoadInv
  <2> QED
    BY <1>2, <1>4, <1>c, <2>1 DEF Recent
<1>11. ASSUME NEW ip \in {Ip[x] : x \in Servers}, Sure(ip)' PROVE Exact(ip)'
  <2>1. Exact(ip)
    BY <1>2, <1>11 DEF LoadInv
  <2>2. Placed(ip)' = Placed(ip) /\ InPlace(ip)' = InPlace(ip)
    BY <1>1, <1>9, NothingKept, SamePlaced, SameInPlace
  <2>3. Home(ip)' = Home(ip) \/ Home(ip)' = Home(ip) \cup {s}
    BY <1>5 DEF Home
  <2>0. \A x \in Home(ip) : x # s
    BY <1>2, <1>11 DEF Home
  <2>4. LeaderCounts'[s] = 0 /\ \A x \in Home(ip) : LeaderCounts'[x] = LeaderCounts[x]
    BY <1>3, <1>4, <1>5, <1>6, <2>0 DEF LeaderCounts, Home
  <2>5. Pile(LeaderCounts', Home(ip)') = Pile(LeaderCounts, Home(ip))
    <3>1. {s} \X (1..LeaderCounts'[s]) = {}
      BY <2>4
    <3> QED
      BY <2>3, <2>4, <3>1 DEF Pile
  <2> QED
    BY <2>1, <2>2, <2>5 DEF Exact
<1>12. Lone'
  <2> SUFFICES ASSUME NEW j \in 1..Len(nodes'), Sure(nodes[j].ip_addr)',
                      NEW u \in Threads, NEW v \in Threads,
                      CountsLeader(u, j)', CountsLeader(v, j)'
               PROVE  u = v
    BY DEF Lone
  <2>1. CountsLeader(u, j) /\ CountsLeader(v, j) /\ j \in 1..Len(nodes)
    BY <1>c DEF CountsLeader
  <2>2. Sure(nodes[j].ip_addr)
    BY <1>2, <1>4, <2>1
  <2> QED
    BY <2>1, <2>2 DEF LoadInv, Lone
<1> QED
  BY <1>8, <1>10, <1>11, <1>12 DEF LoadInv

\* A replica is placed: what the thread saw is so, and nothing is counted yet.
LEMMA PlaceReplicaLoad ==
  ASSUME Inv, PlaceInv, LoadInv, NEW t \in Threads, PlaceReplica(t), ~Stop
  PROVE  LoadInv'
<1> DEFINE r == work[t].replicas
           c == Candidates(r)
<1>1. /\ pc[t] = "place" /\ Goto(t, "count")
      /\ UNCHANGED <<tms, ip_node_map_, nodes>>
  BY DEF PlaceReplica, catalogue
<1>2. PICK n \in (IF c = {} THEN DOMAIN nodes ELSE c) :
        /\ work' = [work EXCEPT ![t] = [@ EXCEPT !.node = n, !.seen = Load(n, RoleOf(r)),
                      !.replicas = Append(r, [ip_addr |-> nodes[n].ip_addr, role |-> RoleOf(r)])]]
        /\ miscounted' = IF RoleOf(r) = Leader /\ \E u \in Threads : CountsLeader(u, n)
                         THEN miscounted \cup Behind(n) ELSE miscounted
  BY DEF PlaceReplica
<1>3. \A ip : Sure(ip)' => Sure(ip)
  BY <1>2 DEF Sure
<1>4. IsSeq(r) /\ DOMAIN work = Threads /\ DOMAIN work[t] = {"i", "replicas", "node", "seen"}
  BY <1>1 DEF PlaceInv, WorksOK, WorkOK, Placers, Ranked
<1> DEFINE e == [ip_addr |-> nodes[n].ip_addr, role |-> RoleOf(r)]
           more == Append(r, e)
<1>5. /\ IsSeq(more) /\ Len(r) \in Nat /\ Len(more) = Len(r) + 1
      /\ \A i \in 1..Len(r) : more[i] = r[i]
      /\ more[Len(more)] = e
  <2> HIDE DEF r, e
  <2> QED
    BY <1>4, AppendIsSeq
<1>6. /\ work'[t].replicas = more /\ work'[t].node = n /\ work'[t].seen = Load(n, RoleOf(r))
      /\ \A u \in Threads \ {t} : work'[u] = work[u]
  <2> HIDE DEF more, r
  <2> QED
    BY <1>2, <1>4 DEF more, r
<1>7. pc'[t] = "count" /\ \A u \in Threads \ {t} : pc'[u] = pc[u]
  BY <1>1 DEF Goto, Inv, LatchInv, ThreadTypes
<1>8. e.ip_addr = nodes[n].ip_addr /\ e.role = RoleOf(r)
  OBVIOUS
<1> HIDE DEF e, more, r
<1>r. Len(more) = 1 => RoleOf(r) = Leader
  <2>1. Len(r) = 0 => r = <<>>
    BY <1>4 DEF IsSeq
  <2>2. Len(more) = 1 => Len(r) = 0
    <3> DEFINE k == Len(r)
               l == Len(more)
    <3>1. k \in Nat /\ l = k + 1
      BY <1>5
    <3> HIDE DEF k, l
    <3>2. l = 1 => k = 0
      BY <3>1
    <3> QED
      BY <3>2 DEF k, l
  <2>3. r = <<>> => RoleOf(r) = Leader
    BY DEF RoleOf
  <2> QED
    BY <2>1, <2>2, <2>3, Zenon
<1>9. ASSUME NEW u \in Threads PROVE Recent(u)'
  <2>1. Recent(u)
    BY DEF LoadInv
  <2>2. CASE u = t
    BY <1>1, <1>5, <1>6, <1>7, <1>8, <1>r, <2>2 DEF Recent, Load
  <2>3. CASE u # t
    BY <1>1, <1>3, <1>6, <1>7, <2>1, <2>3 DEF Recent
  <2> QED
    BY <2>2, <2>3
<1>10. ASSUME NEW ip \in {Ip[x] : x \in Servers}, Sure(ip)' PROVE Exact(ip)'
  <2>1. Exact(ip)
    BY <1>3, <1>10 DEF LoadInv
  <2>2. Leads(t, ip)' <=> Leads(t, ip)
    <3>1. CASE r = <<>>
      <4>1. Len(more) = 1
        BY <1>5, <3>1
      <4>2. ~Leads(t, ip)'
        BY <1>6, <1>7, <4>1 DEF Leads
      <4>3. ~Leads(t, ip)
        BY <3>1 DEF Leads, r
      <4> QED
        BY <4>2, <4>3
    <3>2. CASE r # <<>>
      <4>1. Len(r) # 0
        BY <1>4, <3>2 DEF IsSeq
      <4>2. more # <<>> /\ more[1] = r[1] /\ Len(more) # 1
        BY <1>5, <4>1
      <4>3. Leads(t, ip)' <=> r[1].ip_addr = ip
        BY <1>6, <1>7, <4>2 DEF Leads
      <4>4. Leads(t, ip) <=> r[1].ip_addr = ip
        BY <1>1, <3>2 DEF Leads, r
      <4> QED
        BY <4>3, <4>4
    <3> QED
      BY <3>1, <3>2
  <2>3. \A u \in Threads \ {t} : Leads(u, ip)' <=> Leads(u, ip)
    BY <1>6, <1>7 DEF Leads
  <2>4. InPlace(ip)' = InPlace(ip)
    BY <2>2, <2>3 DEF InPlace
  <2>5. Placed(ip)' = Placed(ip) /\ LeaderCounts' = LeaderCounts /\ Home(ip)' = Home(ip)
    BY <1>1 DEF Placed, LeaderCounts, Home
  <2> QED
    BY <2>1, <2>4, <2>5 DEF Exact
<1>11. Mapped'
  BY <1>1, <1>3 DEF LoadInv, Mapped
<1>12. ASSUME NEW u \in Threads \ {t}, Len(more) = 1, CountsLeader(u, n), n \in 1..Len(nodes),
              Sure(nodes[n].ip_addr)'
       PROVE  FALSE
  <2>0. Sure(nodes[n].ip_addr)
    BY <1>1, <1>3, <1>12
  <2>1. PICK s \in DOMAIN ip_node_map_ : ip_node_map_[s] = n
    BY <1>12, <2>0 DEF LoadInv, Mapped
  <2>2. s \in Servers /\ Ip[s] = nodes[n].ip_addr
    BY <2>1 DEF PlaceInv, NodesOK
  <2>3. s \in miscounted'
    BY <1>2, <1>r, <1>12, <2>1, <2>2 DEF Behind
  <2> QED
    BY <1>12, <1>1, <2>2, <2>3 DEF Sure
<1>13. Lone'
  <2> SUFFICES ASSUME NEW j \in 1..Len(nodes), Sure(nodes[j].ip_addr)', NEW u \in Threads,
                      NEW v \in Threads, CountsLeader(u, j)', CountsLeader(v, j)', u # v
               PROVE  FALSE
    BY <1>1 DEF Lone
  <2>1. \A x \in Threads \ {t} : CountsLeader(x, j)' <=> CountsLeader(x, j)
    BY <1>6, <1>7 DEF CountsLeader
  <2>2. CountsLeader(t, j)' => j = n /\ Len(more) = 1
    BY <1>6 DEF CountsLeader
  <2>3. Sure(nodes[j].ip_addr)
    BY <1>1, <1>3
  <2>4. CASE u # t /\ v # t
    BY <2>1, <2>3, <2>4 DEF LoadInv, Lone
  <2>5. CASE u = t \/ v = t
    BY <1>12, <2>1, <2>2, <2>5
  <2> QED
    BY <2>4, <2>5
<1> QED
  BY <1>9, <1>10, <1>11, <1>13 DEF LoadInv

\* Counts that are equal make equal piles.
LEMMA PileSame ==
  ASSUME NEW c, NEW d, NEW s, \A x \in s : d[x] = c[x]
  PROVE  Pile(d, s) = Pile(c, s)
BY DEF Pile

\* The increment: one more leader for a leader, unless another thread counts too.
LEMMA AddLoadAt ==
  ASSUME PlaceInv, LoadInv, NEW t \in Threads, pc[t] = "count", AddLoad(t, work[t].node)
  PROVE  LET n == work[t].node
             r == work[t].replicas
         IN  /\ n \in 1..Len(nodes) /\ Len(nodes') = Len(nodes) /\ Ranked(r) /\ r # <<>>
             /\ \A j \in 1..Len(nodes) : j # n => nodes'[j] = nodes[j]
             /\ nodes'[n].ip_addr = nodes[n].ip_addr /\ r[Len(r)].ip_addr = nodes[n].ip_addr
             /\ Len(r) # 1 => nodes'[n].leader_par_cnt = nodes[n].leader_par_cnt
             /\ Len(r) = 1 /\ Sure(nodes[n].ip_addr) =>
                  nodes'[n].leader_par_cnt = nodes[n].leader_par_cnt + 1
<1> DEFINE r == work[t].replicas
           n == work[t].node
           role == r[Len(r)].role
<1>1. Recent(t) /\ WorkOK(t) /\ NodesOK
  BY DEF LoadInv, PlaceInv, WorksOK
<1>2. /\ r[Len(r)].ip_addr = nodes[n].ip_addr
      /\ Len(r) = 1 /\ Sure(nodes[n].ip_addr) => work[t].seen = nodes[n].leader_par_cnt
      /\ n \in 1..Len(nodes) /\ Ranked(r) /\ r # <<>>
  BY <1>1 DEF Recent, WorkOK, Placers
<1>3. PICK old \in {work[t].seen, Load(n, role)} :
        nodes' = [nodes EXCEPT ![n] = IF Len(r) = 1 THEN [@ EXCEPT !.leader_par_cnt = old + 1]
                                      ELSE [@ EXCEPT !.follower_par_cnt = old + 1]]
  BY DEF AddLoad
<1> DEFINE e == IF Len(r) = 1 THEN [nodes[n] EXCEPT !.leader_par_cnt = old + 1]
                ELSE [nodes[n] EXCEPT !.follower_par_cnt = old + 1]
<1>4. /\ IsSeq(nodes)
      /\ DOMAIN nodes[n] = {"ip_addr", "activate", "leader_par_cnt", "follower_par_cnt"}
  BY <1>1, <1>2 DEF NodesOK, NodeOK
<1>5. Len(r) = 1 => role = Leader
  <2> HIDE DEF r
  <2> QED
    BY <1>2 DEF Ranked
<1>6. Len(r) = 1 /\ Sure(nodes[n].ip_addr) => old = nodes[n].leader_par_cnt
  BY <1>2, <1>3, <1>5 DEF Load
<1>7. nodes' = [nodes EXCEPT ![n] = e]
  BY <1>3
<1> HIDE DEF role
<1>8. /\ e.ip_addr = nodes[n].ip_addr
      /\ Len(r) = 1 => e.leader_par_cnt = old + 1
      /\ Len(r) # 1 => e.leader_par_cnt = nodes[n].leader_par_cnt
  BY <1>4
<1> HIDE DEF e
<1>9. /\ Len(nodes') = Len(nodes) /\ nodes'[n] = e
      /\ \A j \in 1..Len(nodes) : j # n => nodes'[j] = nodes[j]
  BY <1>2, <1>4, <1>7, NodesStaySeq
<1> QED
  BY <1>2, <1>6, <1>8, <1>9

\* In the counts of an address that is sure, it shows once.
LEMMA AddLoadCounts ==
  ASSUME PlaceInv, FileInv, LoadInv, NEW t \in Threads, pc[t] = "count",
         AddLoad(t, work[t].node), UNCHANGED ip_node_map_,
         NEW ip, Sure(ip)
  PROVE  /\ Cardinality(Pile(LeaderCounts', Home(ip)')) =
              Cardinality(Pile(LeaderCounts, Home(ip)))
                + IF Len(work[t].replicas) = 1 /\ ip = work[t].replicas[1].ip_addr THEN 1 ELSE 0
         /\ Cardinality(Pile(LeaderCounts, Home(ip))) \in Nat
<1> DEFINE r == work[t].replicas
           n == work[t].node
           c == LeaderCounts
           d == LeaderCounts'
           h == Home(ip)
<1>1. /\ n \in 1..Len(nodes) /\ \A j \in 1..Len(nodes) : j # n => nodes'[j] = nodes[j]
      /\ r[Len(r)].ip_addr = nodes[n].ip_addr
      /\ Len(r) # 1 => nodes'[n].leader_par_cnt = nodes[n].leader_par_cnt
      /\ Len(r) = 1 /\ Sure(nodes[n].ip_addr) =>
           nodes'[n].leader_par_cnt = nodes[n].leader_par_cnt + 1
  BY AddLoadAt
<1>2. \A x \in DOMAIN ip_node_map_ :
        ip_node_map_[x] \in 1..Len(nodes) /\ nodes[ip_node_map_[x]].ip_addr = Ip[x]
  BY DEF PlaceInv, NodesOK
<1>3. Home(ip)' = h /\ h \in SUBSET DOMAIN c /\ DOMAIN d = DOMAIN c /\ DOMAIN c = DOMAIN ip_node_map_
  BY DEF Home, LeaderCounts
<1>4. Counted(c)
  BY CountsAreCounted
<1>5. \A x \in h : /\ c[x] = nodes[ip_node_map_[x]].leader_par_cnt
                   /\ d[x] = nodes'[ip_node_map_[x]].leader_par_cnt
                   /\ x \in DOMAIN ip_node_map_ /\ Ip[x] = ip
  BY DEF Home, LeaderCounts
<1> HIDE DEF c, d, h, r, n
<1>6. Cardinality(Pile(c, h)) \in Nat
  BY <1>3, <1>4, PileFinite, FS_CardinalityType
<1>7. CASE Len(r) = 1 /\ ip = r[1].ip_addr
  <2>1. ip = nodes[n].ip_addr
    BY <1>1, <1>7
  <2>2. Mapped
    BY DEF LoadInv
  <2>3. PICK s \in DOMAIN ip_node_map_ : ip_node_map_[s] = n
    BY <1>1, <2>1, <2>2 DEF Mapped
  <2>4. s \in h
    BY <1>2, <2>1, <2>3 DEF h, Home
  <2>5. d[s] = c[s] + 1
    BY <1>1, <1>5, <1>7, <2>1, <2>3, <2>4
  <2>6. ASSUME NEW x \in h, x # s PROVE d[x] = c[x]
    <3>1. x \in DOMAIN ip_node_map_
      BY <1>5
    <3>2. ip_node_map_[x] # n
      BY <2>2, <2>3, <2>6, <3>1 DEF Mapped
    <3> QED
      BY <1>1, <1>2, <1>5, <3>1, <3>2
  <2>7. Cardinality(Pile(d, h)) = Cardinality(Pile(c, h)) + 1
    BY <1>3, <1>4, <2>4, <2>5, <2>6, PileUp
  <2> QED
    BY <1>3, <1>6, <1>7, <2>7 DEF c, d, h, r
<1>8. CASE ~(Len(r) = 1 /\ ip = r[1].ip_addr)
  <2>1. ASSUME NEW x \in h PROVE d[x] = c[x]
    <3>1. x \in DOMAIN ip_node_map_ /\ Ip[x] = ip
      BY <1>5
    <3>2. CASE ip_node_map_[x] = n
      <4>1. ip = nodes[n].ip_addr
        BY <1>2, <3>1, <3>2
      <4>2. Len(r) # 1
        BY <1>1, <1>8, <4>1
      <4> QED
        BY <1>1, <1>5, <3>2, <4>2
    <3>3. CASE ip_node_map_[x] # n
      BY <1>1, <1>2, <1>5, <3>1, <3>3
    <3> QED
      BY <3>2, <3>3
  <2>2. Pile(d, h) = Pile(c, h)
    BY <2>1, PileSame
  <2> QED
    BY <1>3, <1>6, <1>8, <2>2 DEF c, d, h, r
<1> QED
  BY <1>7, <1>8

\* A location is added with the last replica: one more placed partition, at
\* the address of its leader.
LEMMA CountReplicaPlaced ==
  ASSUME Inv, PlaceInv, NEW t \in Threads, CountReplica(t), NEW ip
  PROVE  /\ Cardinality(Placed(ip)') = Cardinality(Placed(ip))
              + IF /\ Len(work[t].replicas) >= call[t].arg.replica_cnt
                   /\ ip = work[t].replicas[1].ip_addr
                THEN 1 ELSE 0
         /\ Cardinality(Placed(ip)) \in Nat
<1> DEFINE w == work[t]
           old == tms[tp[t]]
           loc == [p_id |-> w.i - 1, replicas |-> w.replicas]
           new == [old EXCEPT !.table_location = Append(old.table_location, loc)]
           last == Len(w.replicas) >= call[t].arg.replica_cnt
           a == w.replicas[1].ip_addr
           k == Len(old.table_location) + 1
           p == <<tp[t], k>>
<1>1. pc[t] = "count" /\ tms' = IF last THEN [tms EXCEPT ![tp[t]] = new] ELSE tms
  BY DEF CountReplica
<1>2. tp[t] \in 1..Len(tms) /\ TableOK(tp[t]) /\ IsSeq(tms) /\ DOMAIN tms = 1..Len(tms)
  BY <1>1 DEF PlaceInv, TablesOK, Inv, MapInv, Pointed, ThreadsPointed, Makers, IsSeq
<1>3. DOMAIN old = Fields /\ IsSeq(old.table_location)
  BY <1>2 DEF TableOK, Located
<1>4. new.table_location = Append(old.table_location, loc) /\ loc.replicas = w.replicas
  BY <1>3 DEF Fields
<1>5. IsFiniteSet(Placed(ip)) /\ Cardinality(Placed(ip)) \in Nat
  BY PlacedFinite
<1>6. CASE ~last
  <2>1. Placed(ip)' = Placed(ip)
    BY <1>1, <1>6 DEF Placed
  <2> QED
    BY <1>5, <1>6, <2>1
<1>7. CASE last
  <2>1. /\ IsSeq(new.table_location) /\ Len(old.table_location) \in Nat
        /\ Len(new.table_location) = k
        /\ \A l \in 1..Len(old.table_location) : new.table_location[l] = old.table_location[l]
        /\ new.table_location[k] = loc
    <3> HIDE DEF loc
    <3> QED
      BY <1>3, <1>4, AppendIsSeq
  <2>2. tms' = [tms EXCEPT ![tp[t]] = new]
    BY <1>1, <1>7
  <2> HIDE DEF new, loc, last, w
  <2>3. /\ DOMAIN tms' = DOMAIN tms /\ tms'[tp[t]] = new
        /\ \A j \in DOMAIN tms : j # tp[t] => tms'[j] = tms[j]
    BY <1>2, <2>2
  <2>4. /\ DOMAIN old.table_location = 1..Len(old.table_location)
        /\ DOMAIN new.table_location = 1..k
    BY <1>3, <2>1 DEF IsSeq
  <2>5. k \notin DOMAIN old.table_location
        /\ DOMAIN new.table_location = DOMAIN old.table_location \cup {k}
    <3> DEFINE o == Len(old.table_location)
    <3>1. o \in Nat /\ k = o + 1
      BY <2>1
    <3> HIDE DEF o, k
    <3>2. k \notin 1..o /\ 1..k = 1..o \cup {k}
      BY <3>1
    <3> QED
      BY <2>4, <3>2 DEF o
  <2>6. p \notin Placed(ip)
    <3>1. ASSUME NEW i \in DOMAIN tms, NEW m \in DOMAIN tms[i].table_location, p = <<i, m>>
          PROVE  FALSE
      BY <2>5, <3>1
    <3> QED
      BY <3>1, PlacedIs
  <2>7. ASSUME NEW q PROVE q \in Placed(ip)' <=> q \in Placed(ip) \/ (q = p /\ ip = a)
    <3> HIDE DEF k, p, old, a
    <3> DEFINE In(i, m) == tms[i].table_location[m].replicas[1].ip_addr = ip /\ q = <<i, m>>
               Now(i, m) == tms'[i].table_location[m].replicas[1].ip_addr = ip /\ q = <<i, m>>
    <3>1. q \in Placed(ip)' <=> \E i \in DOMAIN tms' : \E m \in DOMAIN tms'[i].table_location : Now(i, m)
      BY DEF Placed
    <3>2. q \in Placed(ip) <=> \E i \in DOMAIN tms : \E m \in DOMAIN tms[i].table_location : In(i, m)
      BY PlacedIs
    <3>3. \A i \in DOMAIN tms : i # tp[t] =>
            /\ DOMAIN tms'[i].table_location = DOMAIN tms[i].table_location
            /\ \A m \in DOMAIN tms[i].table_location : Now(i, m) <=> In(i, m)
      BY <2>3
    <3>4. /\ DOMAIN tms'[tp[t]].table_location = DOMAIN tms[tp[t]].table_location \cup {k}
          /\ \A m \in DOMAIN tms[tp[t]].table_location : Now(tp[t], m) <=> In(tp[t], m)
      BY <2>1, <2>3, <2>4, <2>5 DEF old
    <3>5. Now(tp[t], k) <=> (q = p /\ ip = a)
      BY <1>4, <2>1, <2>3 DEF p, a
    <3>6. tp[t] \in DOMAIN tms /\ DOMAIN tms' = DOMAIN tms
      BY <1>2, <2>3
    <3> HIDE DEF In, Now
    <3> QED
      BY <3>1, <3>2, <3>3, <3>4, <3>5, <3>6
  <2> HIDE DEF p, a
  <2>8. CASE ip = a
    <3>1. Placed(ip)' = Placed(ip) \cup {p}
      BY <2>7, <2>8
    <3>2. Cardinality(Placed(ip)') = Cardinality(Placed(ip)) + 1
      BY <1>5, <2>6, <3>1, FS_AddElement
    <3> QED
      BY <1>5, <1>7, <2>8, <3>2 DEF a, last, w
  <2>9. CASE ip # a
    <3>1. Placed(ip)' = Placed(ip)
      BY <2>7, <2>9
    <3> QED
      BY <1>5, <1>7, <2>9, <3>1 DEF a, last, w
  <2> QED
    BY <2>8, <2>9
<1> QED
  BY <1>6, <1>7

\* Threads that place: this one, from when its leader is counted until the
\* location is added, and the others as before.
LEMMA CountReplicaInPlace ==
  ASSUME Inv, PlaceInv, NEW t \in Threads, CountReplica(t), NEW ip
  PROVE  /\ Cardinality(InPlace(ip)')
              + (IF Len(work[t].replicas) # 1 /\ ip = work[t].replicas[1].ip_addr THEN 1 ELSE 0)
            = Cardinality(InPlace(ip))
              + (IF /\ ~(Len(work[t].replicas) >= call[t].arg.replica_cnt)
                    /\ ip = work[t].replicas[1].ip_addr
                 THEN 1 ELSE 0)
         /\ Cardinality(InPlace(ip)) \in Nat /\ Cardinality(InPlace(ip)') \in Nat
         /\ pc'[t] # "count"
         /\ \A u \in Threads \ {t} : pc'[u] = pc[u] /\ work'[u] = work[u]
<1> DEFINE w == work[t]
           last == Len(w.replicas) >= call[t].arg.replica_cnt
           done == last /\ w.i = Len(tms[tp[t]].partitions)
<1>1. pc[t] = "count"
  BY DEF CountReplica
<1>2. \/ done /\ Return(t)
      \/ /\ ~done /\ Goto(t, "place")
         /\ work' = [work EXCEPT ![t] = IF last THEN [NoWork EXCEPT !.i = w.i + 1] ELSE w]
  BY DEF CountReplica
<1>3. w.replicas # <<>> /\ DOMAIN work = Threads
  BY <1>1 DEF PlaceInv, WorksOK, WorkOK
<1>4. NoWork.replicas = <<>> /\ [NoWork EXCEPT !.i = w.i + 1].replicas = <<>>
  BY DEF NoWork
<1>5. /\ pc'[t] # "count"
      /\ \A u \in Threads \ {t} : pc'[u] = pc[u] /\ work'[u] = work[u]
      /\ work'[t].replicas = IF last THEN <<>> ELSE w.replicas
  <2>1. CASE done /\ Return(t)
    BY <1>4, <2>1, ReturnOthers DEF Others, OnlyMoves
  <2>2. CASE /\ ~done /\ Goto(t, "place")
             /\ work' = [work EXCEPT ![t] = IF last THEN [NoWork EXCEPT !.i = w.i + 1] ELSE w]
    BY <1>3, <1>4, <2>2 DEF Goto, Inv, LatchInv, ThreadTypes
  <2> QED
    BY <1>2, <2>1, <2>2
<1>6. Leads(t, ip) <=> Len(w.replicas) # 1 /\ ip = w.replicas[1].ip_addr
  BY <1>1, <1>3 DEF Leads
<1>7. Leads(t, ip)' <=> ~last /\ ip = w.replicas[1].ip_addr
  BY <1>3, <1>5 DEF Leads
<1>8. \A u \in Threads \ {t} : Leads(u, ip)' <=> Leads(u, ip)
  BY <1>5 DEF Leads
<1> DEFINE B == {u \in Threads \ {t} : Leads(u, ip)}
<1>9. InPlace(ip) = IF Leads(t, ip) THEN B \cup {t} ELSE B
  BY DEF InPlace
<1>10. InPlace(ip)' = IF Leads(t, ip)' THEN B \cup {t} ELSE B
  BY <1>8 DEF InPlace
<1>11. t \notin B /\ B \subseteq Threads
  OBVIOUS
<1> HIDE DEF B
<1>12. IsFiniteSet(B) /\ Cardinality(B) \in Nat /\ Cardinality(B \cup {t}) = Cardinality(B) + 1
  BY <1>11, MetaAssumption, FS_Subset, FS_CardinalityType, FS_AddElement
<1> HIDE DEF last
<1>13. Cardinality(InPlace(ip)) = Cardinality(B)
         + IF Len(w.replicas) # 1 /\ ip = w.replicas[1].ip_addr THEN 1 ELSE 0
  BY <1>6, <1>9, <1>12
<1>14. Cardinality(InPlace(ip)') = Cardinality(B)
         + IF ~last /\ ip = w.replicas[1].ip_addr THEN 1 ELSE 0
  BY <1>7, <1>10, <1>12
<1> HIDE DEF w
<1>15. /\ Cardinality(InPlace(ip)')
            + (IF Len(w.replicas) # 1 /\ ip = w.replicas[1].ip_addr THEN 1 ELSE 0)
          = Cardinality(InPlace(ip)) + (IF ~last /\ ip = w.replicas[1].ip_addr THEN 1 ELSE 0)
       /\ Cardinality(InPlace(ip)) \in Nat /\ Cardinality(InPlace(ip)') \in Nat
  BY <1>12, <1>13, <1>14
<1> QED
  BY <1>5, <1>15 DEF last, w

\* The node counts one leader more exactly when one more is placed: with the
\* first replica of a partition, whether or not it is the last.
LEMMA CountReplicaLoad ==
  ASSUME Inv, PlaceInv, FileInv, LoadInv, NEW t \in Threads, CountReplica(t)
  PROVE  LoadInv'
<1> DEFINE n == work[t].node
<1>1. pc[t] = "count" /\ AddLoad(t, n) /\ UNCHANGED <<ip_node_map_, miscounted>>
  BY DEF CountReplica
<1>2. \A ip : Sure(ip)' <=> Sure(ip)
  BY <1>1 DEF Sure
<1>3. /\ Len(nodes') = Len(nodes) /\ n \in 1..Len(nodes)
      /\ \A j \in 1..Len(nodes) : /\ nodes'[j].ip_addr = nodes[j].ip_addr
                                  /\ j # n => nodes'[j] = nodes[j]
      /\ Len(work[t].replicas) # 1 => nodes'[n].leader_par_cnt = nodes[n].leader_par_cnt
  BY <1>1, AddLoadAt
<1>4. pc'[t] # "count" /\ \A u \in Threads \ {t} : pc'[u] = pc[u] /\ work'[u] = work[u]
  BY CountReplicaInPlace
<1> HIDE DEF n
<1>5. Mapped'
  BY <1>1, <1>2, <1>3 DEF LoadInv, Mapped
<1>6. Lone'
  <2>1. ASSUME NEW j, NEW u \in Threads, CountsLeader(u, j)' PROVE CountsLeader(u, j)
    BY <1>4, <2>1 DEF CountsLeader
  <2> QED
    BY <1>2, <1>3, <2>1 DEF LoadInv, Lone
<1>7. ASSUME NEW u \in Threads PROVE Recent(u)'
  <2> SUFFICES ASSUME pc'[u] = "count" PROVE Recent(u)'
    BY DEF Recent
  <2> DEFINE m == work[u].node
  <2>1. u # t /\ pc[u] = "count" /\ work'[u] = work[u] /\ Recent(u) /\ m \in 1..Len(nodes)
    <3>1. u # t /\ pc[u] = "count" /\ work'[u] = work[u]
      BY <1>4
    <3> QED
      BY <3>1 DEF LoadInv, PlaceInv, WorksOK, WorkOK
  <2>2. ASSUME Len(work[u].replicas) = 1, Sure(nodes[m].ip_addr)
        PROVE  nodes'[m].leader_par_cnt = nodes[m].leader_par_cnt
    <3>1. CASE m # n
      BY <1>3, <2>1, <3>1
    <3>2. CASE m = n
      <4>1. CountsLeader(u, n) /\ (Len(work[t].replicas) = 1 => CountsLeader(t, n))
        BY <1>1, <2>1, <2>2, <3>2 DEF CountsLeader, n
      <4>2. Len(work[t].replicas) # 1
        BY <1>3, <2>1, <2>2, <3>2, <4>1 DEF LoadInv, Lone
      <4> QED
        BY <1>3, <3>2, <4>2
    <3> QED
      BY <3>1, <3>2
  <2> QED
    BY <1>2, <1>3, <2>1, <2>2 DEF Recent
<1>8. ASSUME NEW ip \in {Ip[x] : x \in Servers}, Sure(ip)' PROVE Exact(ip)'
  <2> DEFINE single == Len(work[t].replicas) = 1
             here == ip = work[t].replicas[1].ip_addr
             last == Len(work[t].replicas) >= call[t].arg.replica_cnt
             units == Cardinality(Pile(LeaderCounts, Home(ip)))
             unitsNow == Cardinality(Pile(LeaderCounts', Home(ip)'))
             placed == Cardinality(Placed(ip))
             placedNow == Cardinality(Placed(ip)')
             inPlace == Cardinality(InPlace(ip))
             inPlaceNow == Cardinality(InPlace(ip)')
  <2>0. Sure(ip)
    BY <1>2, <1>8
  <2>1. units = placed + inPlace
    BY <2>0 DEF LoadInv, Exact
  <2>2. unitsNow = units + (IF single /\ here THEN 1 ELSE 0) /\ units \in Nat
    BY <1>1, <2>0, AddLoadCounts DEF n
  <2>3. placedNow = placed + (IF last /\ here THEN 1 ELSE 0) /\ placed \in Nat
    BY CountReplicaPlaced
  <2>4. /\ inPlaceNow + (IF ~single /\ here THEN 1 ELSE 0) = inPlace + (IF ~last /\ here THEN 1 ELSE 0)
        /\ inPlace \in Nat /\ inPlaceNow \in Nat
    BY CountReplicaInPlace
  <2>5. Exact(ip)' <=> unitsNow = placedNow + inPlaceNow
    BY DEF Exact
  <2> HIDE DEF units, unitsNow, placed, placedNow, inPlace, inPlaceNow, single, here, last
  <2>6. unitsNow = placedNow + inPlaceNow
    BY <2>1, <2>2, <2>3, <2>4
  <2> QED
    BY <2>5, <2>6
<1> QED
  BY <1>5, <1>6, <1>7, <1>8 DEF LoadInv

\* A step that only moves threads.
Still == UNCHANGED <<tms, ip_node_map_, nodes, miscounted>>

\* Such a step keeps the invariant.
LEMMA StillLoad ==
  ASSUME Inv, PlaceInv, LoadInv, Still, NEW t \in Threads, pc[t] \notin Placers,
         \/ Return(t)
         \/ UNCHANGED work /\ \E p \in Pcs \ {"count"} : Goto(t, p)
  PROVE  LoadInv'
<1>1. \A u \in Threads : Quiet(u)
  BY QuietBack, QuietOn
<1>2. NodesKept /\ LocationsKept /\ SureKept
  BY NothingKept DEF Still
<1> QED
  BY <1>1, <1>2, SameLoad

\* At the start nothing is placed and nothing counted.
LEMMA FreshLoad ==
  ASSUME Init
  PROVE  LoadInv
<1>1. /\ tms = <<>> /\ ip_node_map_ = <<>> /\ nodes = <<>>
      /\ \A t \in Threads : pc[t] # "count" /\ work[t].replicas = <<>>
  BY DEF Init, Fresh, NoWork
<1>2. Mapped /\ Lone /\ \A t \in Threads : Recent(t)
  BY <1>1, EmptyIsSeq DEF Mapped, Lone, CountsLeader, Recent, IsSeq
<1>3. ASSUME NEW ip PROVE Exact(ip)
  <2>1. Home(ip) = {} /\ Placed(ip) = {}
    BY <1>1 DEF Home, Placed
  <2>2. InPlace(ip) = {}
    BY <1>1 DEF InPlace, Leads
  <2>3. Pile(LeaderCounts, {}) = {}
    BY DEF Pile
  <2> QED
    BY <2>1, <2>2, <2>3, FS_EmptySet DEF Exact
<1> QED
  BY <1>2, <1>3 DEF LoadInv

\* Nor after a stop.
LEMMA StopLoad ==
  ASSUME Stop
  PROVE  LoadInv'
<1>1. /\ tms' = <<>> /\ ip_node_map_' = <<>> /\ nodes' = <<>>
      /\ \A t \in Threads : pc'[t] # "count" /\ work'[t].replicas = <<>>
  BY DEF Stop, Fresh, NoWork
<1>2. Mapped' /\ Lone' /\ \A t \in Threads : Recent(t)'
  BY <1>1, EmptyIsSeq DEF Mapped, Lone, CountsLeader, Recent, IsSeq
<1>3. ASSUME NEW ip PROVE Exact(ip)'
  <2>1. Home(ip)' = {} /\ Placed(ip)' = {}
    BY <1>1 DEF Home, Placed
  <2>2. InPlace(ip)' = {}
    BY <1>1 DEF InPlace, Leads
  <2>3. Pile(LeaderCounts', {}) = {}
    BY DEF Pile
  <2> QED
    BY <2>1, <2>2, <2>3, FS_EmptySet DEF Exact
<1> QED
  BY <1>2, <1>3 DEF LoadInv

\* The handlers keep the invariant.
LEMMA HandlerLoad ==
  ASSUME Inv, PlaceInv, FileInv, LoadInv, NEW t \in Threads, Handler(t), ~Stop
  PROVE  LoadInv'
<1> USE DEF Still
<1>k. {"lookup", "latch_db", "find_tab", "latch_tab", "answer", "create", "excl_db", "check_tab",
       "new_tab", "set_oid", "check_db", "insert_db", "check_node", "insert_node"}
        \subseteq (Pcs \ {"count"}) \ Placers
  BY DEF Placers, Pcs
<1>1. CASE LookupDb(t)
  BY <1>1, <1>k, StillLoad DEF LookupDb, placement, history
<1>2. CASE LookupLatchDb(t)
  BY <1>2, <1>k, StillLoad DEF LookupLatchDb, catalogue, placement, history
<1>3. CASE FindTable(t)
  BY <1>3, <1>k, StillLoad DEF FindTable, placement, history
<1>4. CASE LatchTable(t)
  BY <1>4, <1>k, StillLoad DEF LatchTable, catalogue, placement, history
<1>5. CASE Answer(t)
  BY <1>5, <1>k, StillLoad DEF Answer, catalogue, placement, history
<1>6. CASE CreateEnter(t)
  BY <1>6, <1>k, StillLoad DEF CreateEnter, catalogue, placement, history
<1>7. CASE CreateLatchDb(t)
  BY <1>7, <1>k, StillLoad DEF CreateLatchDb, catalogue, placement, history
<1>8. CASE CheckTable(t)
  BY <1>8, <1>k, StillLoad DEF CheckTable, catalogue, placement, history
<1>9. CASE NewTable(t)
  BY <1>9, NewTableLoad
<1>10. CASE FinishPlain(t)
  BY <1>10, <1>k, StillLoad DEF FinishPlain, placement
<1>11. CASE DescribeTable(t)
  BY <1>11, DescribeTableLoad
<1>12. CASE PlaceReplica(t)
  BY <1>12, PlaceReplicaLoad
<1>13. CASE CountReplica(t)
  BY <1>13, CountReplicaLoad
<1>14. CASE CheckDb(t)
  BY <1>14, <1>k, StillLoad DEF CheckDb, catalogue, placement, history
<1>15. CASE InsertDb(t)
  BY <1>15, <1>k, StillLoad DEF InsertDb, placement
<1>16. CASE CheckNode(t)
  BY <1>16, CheckNodeLoad
<1>17. CASE InsertNode(t)
  BY <1>17, InsertNodeLoad
<1> QED
  BY <1>1, <1>2, <1>3, <1>4, <1>5, <1>6, <1>7, <1>8, <1>9, <1>10, <1>11, <1>12, <1>13,
     <1>14, <1>15, <1>16, <1>17 DEF Handler

\* A call that begins has placed nothing.
LEMMA ReceiveLoad ==
  ASSUME Inv, PlaceInv, LoadInv, NEW t \in Threads, Receive(t)
  PROVE  LoadInv'
<1>1. PICK c : /\ Goto(t, Entry(c.op))
               /\ \/ c \in LookupCalls \/ c \in CreateCalls
                  \/ c \in [op : {"CreateDataBase"}, db : Dbs]
                  \/ c \in [op : {"NodeRegister"}, arg : Servers]
  BY DEF Receive
<1>2. Entry(c.op) \in Pcs \ {"count"}
  BY <1>1 DEF Entry, LookupCalls, CreateCalls, Lookups, Creates, Pcs
<1>3. pc[t] = "idle" /\ Still /\ UNCHANGED work
  BY DEF Receive, Still, catalogue, placement, history
<1> QED
  BY <1>1, <1>2, <1>3, StillLoad DEF Placers

\* Every step keeps the invariant.
LEMMA LoadInvInductive == Inv /\ PlaceInv /\ FileInv /\ LoadInv /\ [Next]_vars => LoadInv'
<1> SUFFICES ASSUME Inv, PlaceInv, FileInv, LoadInv, [Next]_vars PROVE LoadInv'
  OBVIOUS
<1>1. CASE Stop
  BY <1>1, StopLoad
<1>2. ASSUME NEW t \in Threads, Receive(t) PROVE LoadInv'
  BY <1>2, ReceiveLoad
<1>3. ASSUME NEW t \in Threads, Handler(t), ~Stop PROVE LoadInv'
  BY <1>3, HandlerLoad
<1>4. CASE UNCHANGED <<catalogue, placement, thread, history>>
  <2>1. UNCHANGED <<tms, ip_node_map_, nodes, pc, work, miscounted>>
    BY <1>4 DEF catalogue, placement, thread
  <2>2. \A u \in Threads : Quiet(u)
    BY <2>1 DEF Quiet
  <2> QED
    BY <2>1, <2>2, NothingKept, SameLoad
<1> QED
  BY <1>1, <1>2, <1>3, <1>4 DEF Next, vars, SaveLock, SaveFails, SaveOpen, SaveWrite

\* The sum in the property is the pile, and the two sets are Led's.
LEMMA LoadIsExact ==
  ASSUME PlaceInv, FileInv, LoadInv
  PROVE  LeaderLoadExact
<1> SUFFICES ASSUME NEW s \in DOMAIN ip_node_map_, Sure(Ip[s])
             PROVE  MapThenSumSet(LAMBDA x : nodes[ip_node_map_[x]].leader_par_cnt,
                      {x \in DOMAIN ip_node_map_ : Ip[x] = Ip[s]}) = Led(Ip[s])
  BY DEF Sure, LeaderLoadExact
<1> DEFINE ip == Ip[s]
           h == Home(ip)
           c == LeaderCounts
<1>1. h = {x \in DOMAIN ip_node_map_ : Ip[x] = Ip[s]}
  BY DEF Home
<1>2. LeaderSum(h) = Cardinality(Pile(c, h))
  <2>1. /\ Counted(c) /\ h \in SUBSET DOMAIN c
        /\ \A x \in h : c[x] = nodes[ip_node_map_[x]].leader_par_cnt
    BY CountsAreCounted DEF Home, LeaderCounts
  <2> HIDE DEF c, h
  <2> QED
    BY <2>1, SumIsPile
<1>3. ip \in {Ip[x] : x \in Servers}
  BY DEF PlaceInv, NodesOK
<1>4. Exact(ip)
  BY <1>3 DEF LoadInv
<1>5. Led(ip) = Cardinality(Placed(ip)) + Cardinality(InPlace(ip))
  BY DEF Led, Placed, InPlace, Leads
<1>6. LeaderSum(h) = Led(ip)
  BY <1>2, <1>4, <1>5 DEF Exact
<1> QED
  BY <1>1, <1>6 DEF LeaderSum

\* leader_par_cnt over the nodes of an address is the number of leaders that
\* CreatePartitionTable has placed there, however many databases' creators place
\* partitions and nodes register at once, as long as no node of the address was
\* replaced or given leaders by two creators at once.
THEOREM LeaderLoadsExact == Spec => []LeaderLoadExact
<1>1. Init => LoadInv
  BY FreshLoad
<1>2. Inv /\ PlaceInv /\ FileInv /\ LoadInv /\ [Next]_vars => LoadInv'
  BY LoadInvInductive
<1>3. PlaceInv /\ FileInv /\ LoadInv => LeaderLoadExact
  BY LoadIsExact
<1>4. Spec => []FileInv
  BY FileInvAlways
<1> QED
  BY <1>1, <1>2, <1>3, <1>4, PlaceInvAlways, PTL DEF Spec
=============================================================================
