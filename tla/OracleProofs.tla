---------------------------- MODULE OracleProofs ----------------------------
(***************************************************************************)
(* A run of the oracle never repeats a timestamp, never goes back and      *)
(* stays ahead of the clock it was started with, for any number of         *)
(* clients, any width of the logical part, any sequence of clock readings  *)
(* and any number of restarts.                                             *)
(***************************************************************************)
EXTENDS Oracle, TLAPS

\* The timestamp of a drawn pair.
Drawn(c) == ComposeTS(client[c].physical, client[c].logic)

\* c holds a pair drawn after syncTimestamp that its check will not refuse for
\* its logical part.
Pending(c) == client[c].pc = "drawn" /\ client[c].synced /\ client[c].logic <= MaxLogical

\* An upper bound of everything drawn in this run of the server that may be
\* returned.
Top == ComposeTS(physiacl, IF logical <= MaxLogical THEN logical ELSE MaxLogical)

\* The inductive invariant.
IssuedBelow == \A ts \in issued : ts <= highest
Quiet == up = "down" => \A c \in Clients : client[c].pc = "idle"
QuietWhenDown == up = "down" => \A c \in Clients : client[c].floor = 0
PendingWhenRunning == \A c \in Clients : Pending(c) => up = "running"
NoneBeforeSync == up \in {"starting", "synced"} => highest = 0
SyncPastClock == up = "synced" => pending >= started
RunningPastClock == up = "running" => physiacl >= started /\ highest <= Top
FloorReached == \A c \in Clients : client[c].floor <= highest
DrawnFresh ==
  \A c \in Clients : Pending(c) =>
    /\ Drawn(c) <= Top /\ Drawn(c) \notin issued
    /\ Drawn(c) > client[c].floor /\ Drawn(c) > ComposeTS(started, 0)
DrawnDistinct ==
  \A c, d \in Clients : c # d /\ Pending(c) /\ Pending(d) => Drawn(c) # Drawn(d)

Inv ==
  /\ TypeOK /\ IssuedBelow /\ QuietWhenDown /\ PendingWhenRunning /\ NoneBeforeSync
  /\ SyncPastClock /\ RunningPastClock /\ FloorReached /\ DrawnFresh /\ DrawnDistinct

\* A later physical part outweighs any logical part.
LEMMA PhysicalWins ==
  ASSUME NEW p \in Nat, NEW q \in Nat, p < q, NEW l \in Nat, l <= MaxLogical
  PROVE  ComposeTS(p, l) <= ComposeTS(q, 0)
<1>1. MaxLogical \in Nat
  BY OracleAssumption
<1>2. (p + 1) * MaxLogical <= q * MaxLogical
  <2>1. PICK d \in Nat : q = (p + 1) + d
    <3>1. q - (p + 1) \in Nat /\ q = (p + 1) + (q - (p + 1))
      OBVIOUS
    <3> QED
      BY <3>1
  <2>2. q * MaxLogical = (p + 1) * MaxLogical + d * MaxLogical
    BY <1>1, <2>1
  <2>3. d * MaxLogical \in Nat
    BY <1>1
  <2> QED
    BY <1>1, <2>2, <2>3
<1>3. (p + 1) * MaxLogical = p * MaxLogical + MaxLogical
  BY <1>1
<1> QED
  BY <1>1, <1>2, <1>3 DEF ComposeTS

\* Composed timestamps are natural numbers.
LEMMA ComposeType ==
  ASSUME NEW p \in Nat, NEW l \in Nat
  PROVE  ComposeTS(p, l) \in Nat
BY OracleAssumption DEF ComposeTS

\* syncTimestamp never starts below the clock.
LEMMA SyncNotBelowClock ==
  ASSUME TypeOK
  PROVE  SyncNext \in Nat /\ SyncNext >= clock
<1>1. clock \in Nat /\ saved \in Nat /\ clock <= MaxClock /\ MaxClock \in Nat
      /\ Word \in Nat \ {0} /\ MaxClock < Word
  BY OracleAssumption DEF TypeOK
<1>2. CASE clock <= saved
  BY <1>1, <1>2 DEF SyncNext, updateTimestampGuard
<1>3. CASE clock > saved
  <2>1. (clock - saved) \in 0..(Word - 1) /\ clock - saved >= 1
    BY <1>1, <1>3
  <2>2. (clock - saved) % Word = clock - saved
    BY <1>1, <2>1
  <2> QED
    BY <1>1, <2>1, <2>2 DEF SyncNext, updateTimestampGuard
<1> QED
  BY <1>1, <1>2, <1>3

\* Every step keeps the types.
LEMMA NextType == TypeOK /\ [Next]_vars => TypeOK'
<1> SUFFICES ASSUME TypeOK, [Next]_vars PROVE TypeOK'
  OBVIOUS
<1> USE OracleAssumption DEF TypeOK
<1> DEFINE Calls == [pc : {"idle", "loop", "drawn"}, physical : Nat, logic : Nat,
                     synced : BOOLEAN, tries : Nat, floor : Nat]
<1>b. (up = "running") \in BOOLEAN
  OBVIOUS
<1>0. /\ IdleClient \in Calls
      /\ Call("loop", 0, 0, FALSE, 0, highest) \in Calls
      /\ \A c \in Clients : Call("loop", 0, 0, FALSE, client[c].tries + 1, client[c].floor) \in Calls
      /\ \A c \in Clients :
           Call("drawn", physiacl, logical + 1, up = "running", client[c].tries, client[c].floor)
             \in Calls
  BY <1>b DEF IdleClient, Call
<1>1. CASE ClockMoves
  BY <1>1 DEF ClockMoves
<1>2. CASE Start
  BY <1>2 DEF Start
<1>3. CASE Crash \/ TornSave
  <2>1. client' \in [Clients -> Calls]
    BY <1>0, <1>3 DEF Crash, TornSave, Stop
  <2>2. saved' \in Nat
    BY <1>3 DEF Crash, TornSave, Stop
  <2> QED
    BY <1>3, <2>1, <2>2 DEF Crash, TornSave, Stop
<1>4. CASE syncTimestamp
  BY <1>4, SyncNotBelowClock DEF syncTimestamp, saveTimestampInterval
<1>5. CASE syncCurrent
  BY <1>5 DEF syncCurrent
<1>6. CASE updateTimestamp
  <2>1. PICK next \in UpdateTargets :
          /\ physiacl' = next
          /\ saved' = IF Signed(lastTS - next) <= updateTimestampGuard
                      THEN next + saveTimestampInterval ELSE saved
    BY <1>6 DEF updateTimestamp
  <2>2. next \in Nat
    BY <2>1 DEF UpdateTargets
  <2> QED
    BY <1>6, <2>1, <2>2 DEF updateTimestamp, saveTimestampInterval
<1>7. ASSUME NEW c \in Clients, Client(c) PROVE TypeOK'
  <2>1. CASE getTimeStamp(c)
    BY <1>0, <2>1 DEF getTimeStamp
  <2>2. CASE Draw(c)
    <3>1. client' \in [Clients -> Calls]
      BY <1>0, <2>2 DEF Draw
    <3> QED
      BY <2>2, <3>1 DEF Draw
  <2>3. CASE Return(c)
    <3>1. ComposeTS(client[c].physical, client[c].logic) \in Nat
      BY ComposeType
    <3>2. client' \in [Clients -> Calls]
      BY <1>0, <2>3 DEF Return
    <3> QED
      BY <2>3, <3>1, <3>2 DEF Return
  <2>4. CASE Retry(c)
    BY <1>0, <2>4 DEF Retry
  <2>5. CASE GiveUp(c)
    BY <1>0, <2>5 DEF GiveUp
  <2> QED
    BY <1>7, <2>1, <2>2, <2>3, <2>4, <2>5 DEF Client
<1>8. CASE UNCHANGED vars
  BY <1>8 DEF vars
<1> QED
  BY <1>1, <1>2, <1>3, <1>4, <1>5, <1>6, <1>7, <1>8 DEF Next

\* The bound on what was drawn is a number and does not shrink when physiacl
\* moves on.
LEMMA TopType == (TypeOK => Top \in Nat) /\ (TypeOK' => Top' \in Nat)
BY OracleAssumption, ComposeType DEF Top, TypeOK

LEMMA UpdateRaisesTop == TypeOK /\ updateTimestamp => Top <= Top'
<1> SUFFICES ASSUME TypeOK, updateTimestamp PROVE Top <= Top'
  OBVIOUS
<1> DEFINE l == IF logical <= MaxLogical THEN logical ELSE MaxLogical
<1>1. l \in Nat /\ l <= MaxLogical /\ 0 <= MaxLogical /\ MaxLogical \in Nat
  BY OracleAssumption DEF TypeOK
<1>2. physiacl' \in Nat /\ physiacl < physiacl' /\ logical' = 0 /\ physiacl \in Nat
  BY DEF updateTimestamp, UpdateTargets, updateTimestampGuard, TypeOK
<1>3. Top = ComposeTS(physiacl, l)
  BY DEF Top
<1>4. Top' = ComposeTS(physiacl', 0)
  BY <1>1, <1>2 DEF Top, ComposeTS
<1> QED
  BY <1>1, <1>2, <1>3, <1>4, PhysicalWins

\* A draw whose logical part is not refused is above everything drawn before.
LEMMA DrawAboveTop ==
  ASSUME TypeOK, logical + 1 <= MaxLogical, logical' = logical + 1, physiacl' = physiacl
  PROVE  ComposeTS(physiacl, logical + 1) = Top + 1 /\ Top' = Top + 1
BY OracleAssumption DEF TypeOK, Top, ComposeTS

LEMMA DrawKeepsTop ==
  ASSUME TypeOK, logical' = logical + 1, physiacl' = physiacl
  PROVE  Top <= Top'
BY OracleAssumption DEF TypeOK, Top, ComposeTS

\* A pair drawn after syncTimestamp is past the clock it started from.
LEMMA DrawPastClock ==
  ASSUME TypeOK, physiacl >= started
  PROVE  ComposeTS(physiacl, logical + 1) > ComposeTS(started, 0)
<1>0. physiacl \in Nat /\ started \in Nat /\ logical \in Nat /\ MaxLogical \in Nat
  BY OracleAssumption DEF TypeOK
<1>1. ComposeTS(physiacl, 0) >= ComposeTS(started, 0)
  <2>1. CASE physiacl = started
    BY <1>0, <2>1 DEF ComposeTS
  <2>2. CASE started < physiacl
    BY <1>0, <2>2, PhysicalWins
  <2> QED
    BY <1>0, <2>1, <2>2
<1>2. ComposeTS(physiacl, logical + 1) = ComposeTS(physiacl, 0) + logical + 1
  BY <1>0 DEF ComposeTS
<1>3. ComposeTS(physiacl, 0) \in Nat /\ ComposeTS(started, 0) \in Nat
  BY <1>0, ComposeType
<1> QED
  BY <1>0, <1>1, <1>2, <1>3

\* A step that gives no client a new pair and issues nothing.
LEMMA NoDraw ==
  ASSUME Inv, TypeOK', UNCHANGED <<up, pending, physiacl, logical, started, issued, highest>>,
         up # "down",
         \A d \in Clients : /\ Pending(d)' => Pending(d) /\ client'[d] = client[d]
                            /\ client'[d].floor \in {0, client[d].floor, highest}
  PROVE  Inv'
<1> USE DEF Inv
<1>1. /\ \A d \in Clients : Drawn(d) \in Nat /\ client[d].floor \in Nat
      /\ highest \in Nat /\ Top \in Nat
  BY ComposeType, TopType DEF Drawn, TypeOK
<1>2. Top' = Top /\ \A d \in Clients : Pending(d)' => Drawn(d)' = Drawn(d)
  BY DEF Top, Drawn
<1>3. IssuedBelow' /\ QuietWhenDown' /\ NoneBeforeSync' /\ SyncPastClock' /\ RunningPastClock'
  BY <1>2 DEF IssuedBelow, QuietWhenDown, NoneBeforeSync, SyncPastClock, RunningPastClock
<1>4. PendingWhenRunning' /\ FloorReached'
  BY <1>1 DEF PendingWhenRunning, FloorReached
<1>5. DrawnFresh' /\ DrawnDistinct'
  BY <1>2 DEF DrawnFresh, DrawnDistinct
<1> QED
  BY <1>3, <1>4, <1>5

\* The steps of one client.
LEMMA ClientInv ==
  ASSUME Inv, NEW c \in Clients, Client(c), TypeOK', up # "down"
  PROVE  Inv'
<1> USE DEF Inv
<1>t. /\ \A d \in Clients : Drawn(d) \in Nat /\ client[d].logic \in Nat /\ client[d].floor \in Nat
      /\ highest \in Nat /\ Top \in Nat
  BY ComposeType, TopType DEF Drawn, TypeOK
<1>1. CASE getTimeStamp(c) \/ Retry(c) \/ GiveUp(c)
  <2>1. /\ client'[c].pc \in {"idle", "loop"}
        /\ client'[c].floor \in {0, client[c].floor, highest}
        /\ \A d \in Clients : d # c => client'[d] = client[d]
        /\ UNCHANGED <<up, pending, physiacl, logical, started, issued, highest>>
    BY <1>1 DEF getTimeStamp, Retry, GiveUp, IdleClient, Call, TypeOK
  <2> QED
    BY <2>1, NoDraw DEF Pending
<1>2. CASE Draw(c)
  <2>1. /\ client'[c].pc = "drawn" /\ client'[c].floor = client[c].floor
        /\ client'[c].physical = physiacl /\ client'[c].logic = logical + 1
        /\ \A d \in Clients : d # c => client'[d] = client[d]
        /\ UNCHANGED <<physiacl, pending, started, issued, highest, up>>
        /\ logical' = logical + 1
    BY <1>2 DEF Draw, TypeOK, Call
  <2>s. client'[c].synced <=> up = "running"
    BY <1>2 DEF Draw, TypeOK, Call
  <2>2. /\ \A d \in Clients : d # c => (Pending(d)' <=> Pending(d))
        /\ \A d \in Clients : d # c => Drawn(d)' = Drawn(d)
        /\ Drawn(c)' = ComposeTS(physiacl, logical + 1)
        /\ Pending(c)' => logical + 1 <= MaxLogical /\ up = "running"
    BY <2>1, <2>s DEF Pending, Drawn
  <2>3. Top <= Top' /\ Top' \in Nat
    BY <2>1, DrawKeepsTop, TopType
  <2>4. Pending(c)' => Drawn(c)' = Top + 1 /\ Top' = Top + 1
    BY <2>1, <2>2, DrawAboveTop
  <2>5. Pending(c)' => Drawn(c)' > ComposeTS(started, 0)
    BY <2>2, DrawPastClock DEF RunningPastClock
  <2>6. DrawnFresh'
    <3> SUFFICES ASSUME NEW d \in Clients, Pending(d)'
                 PROVE  /\ Drawn(d)' <= Top' /\ Drawn(d)' \notin issued
                        /\ Drawn(d)' > client'[d].floor /\ Drawn(d)' > ComposeTS(started, 0)
      BY <2>1 DEF DrawnFresh
    <3>1. CASE d = c
      <4>1. highest <= Top
        BY <2>2, <3>1 DEF RunningPastClock
      <4>2. \A ts \in issued : ts <= Top
        BY <1>t, <4>1 DEF IssuedBelow, TypeOK
      <4>3. Top + 1 \notin issued
        BY <1>t, <4>2
      <4>4. client[c].floor <= Top
        BY <1>t, <4>1 DEF FloorReached
      <4> QED
        BY <1>t, <2>1, <2>4, <2>5, <3>1, <4>3, <4>4
    <3>2. CASE d # c
      BY <1>t, <2>1, <2>2, <2>3, <3>2 DEF DrawnFresh
    <3> QED
      BY <3>1, <3>2
  <2>7. DrawnDistinct'
    BY <1>t, <2>2, <2>4 DEF DrawnDistinct, DrawnFresh
  <2>8. /\ RunningPastClock' /\ FloorReached' /\ IssuedBelow' /\ QuietWhenDown'
        /\ NoneBeforeSync' /\ SyncPastClock'
    BY <1>t, <2>1, <2>3
       DEF IssuedBelow, QuietWhenDown, NoneBeforeSync, SyncPastClock, RunningPastClock, FloorReached
  <2>9. PendingWhenRunning'
    BY <2>1, <2>2 DEF PendingWhenRunning
  <2> QED
    BY <2>6, <2>7, <2>8, <2>9
<1>3. CASE Return(c) /\ ~client[c].synced
  <2>1. /\ client'[c].pc = "idle" /\ client'[c].floor = 0
        /\ \A d \in Clients : d # c => client'[d] = client[d]
        /\ UNCHANGED <<up, pending, physiacl, logical, started, issued, highest>>
    BY <1>3 DEF Return, IdleClient, Call, TypeOK
  <2> QED
    BY <2>1, NoDraw DEF Pending
<1>4. CASE Return(c) /\ client[c].synced
  <2>1. /\ client'[c].pc = "idle" /\ client'[c].floor = 0
        /\ \A d \in Clients : d # c => client'[d] = client[d]
        /\ UNCHANGED <<physiacl, logical, pending, started, up>>
        /\ issued' = issued \cup {Drawn(c)}
        /\ highest' = IF Drawn(c) > highest THEN Drawn(c) ELSE highest
        /\ Pending(c)
    BY <1>4 DEF Return, IdleClient, Call, TypeOK, Pending, Acceptable, Drawn
  <2>2. Top' = Top /\ ~Pending(c)' /\ (\A d \in Clients : d # c => (Pending(d)' <=> Pending(d)))
        /\ (\A d \in Clients : d # c => Drawn(d)' = Drawn(d)) /\ up = "running"
    BY <2>1 DEF Top, Pending, Drawn, PendingWhenRunning
  <2>3. IssuedBelow' /\ FloorReached'
    BY <1>t, <2>1 DEF IssuedBelow, FloorReached, TypeOK
  <2>4. DrawnFresh'
    BY <2>1, <2>2 DEF DrawnFresh, DrawnDistinct
  <2>5. DrawnDistinct' /\ PendingWhenRunning'
    BY <2>1, <2>2 DEF DrawnDistinct, PendingWhenRunning
  <2>6. RunningPastClock' /\ QuietWhenDown' /\ NoneBeforeSync' /\ SyncPastClock'
    BY <1>t, <2>1, <2>2
       DEF RunningPastClock, QuietWhenDown, NoneBeforeSync, SyncPastClock, DrawnFresh
  <2> QED
    BY <2>3, <2>4, <2>5, <2>6
<1> QED
  BY <1>1, <1>2, <1>3, <1>4 DEF Client

\* Clients call only a process that is up.
LEMMA ClientUp ==
  ASSUME Quiet, NEW c \in Clients, Client(c)
  PROVE  up # "down"
BY DEF Quiet, Client, getTimeStamp, Draw, Return, Retry, GiveUp

\* Every step keeps the inductive invariant.
LEMMA NextInv == Inv /\ Quiet /\ [Next]_vars => Inv' /\ Quiet'
<1> SUFFICES ASSUME Inv, Quiet, [Next]_vars PROVE Inv' /\ Quiet'
  OBVIOUS
<1> USE DEF Inv
<1>0. TypeOK'
  BY NextType
<1>t. highest \in Nat /\ pending \in Nat /\ clock \in Nat
  BY OracleAssumption DEF TypeOK
<1>1. CASE ClockMoves \/ UNCHANGED vars
  <2>1. UNCHANGED <<up, pending, physiacl, logical, client, started, issued, highest>>
    BY <1>1 DEF ClockMoves, vars
  <2> QED
    BY <1>0, <2>1
       DEF IssuedBelow, QuietWhenDown, PendingWhenRunning, NoneBeforeSync, SyncPastClock,
           RunningPastClock, FloorReached, DrawnFresh, DrawnDistinct, Top, Pending, Drawn, Quiet
<1>2. CASE Start
  <2>1. /\ up = "down" /\ up' = "starting" /\ issued' = {} /\ highest' = 0
        /\ UNCHANGED <<client, pending, started>>
    BY <1>2 DEF Start
  <2>2. \A c \in Clients : ~Pending(c)' /\ client'[c].floor = 0
    BY <2>1 DEF Quiet, Pending, QuietWhenDown
  <2> QED
    BY <1>0, <2>1, <2>2
       DEF IssuedBelow, QuietWhenDown, PendingWhenRunning, NoneBeforeSync, SyncPastClock,
           RunningPastClock, FloorReached, DrawnFresh, DrawnDistinct, Quiet
<1>3. CASE Crash \/ TornSave
  <2>1. /\ up' = "down" /\ UNCHANGED <<issued, highest>>
        /\ \A c \in Clients : client'[c].pc = "idle" /\ client'[c].floor = 0
    BY <1>3 DEF Crash, TornSave, Stop, IdleClient, Call
  <2>2. \A c \in Clients : ~Pending(c)'
    BY <2>1 DEF Pending
  <2> QED
    BY <1>0, <1>t, <2>1, <2>2
       DEF IssuedBelow, QuietWhenDown, PendingWhenRunning, NoneBeforeSync, SyncPastClock,
           RunningPastClock, FloorReached, DrawnFresh, DrawnDistinct, Quiet
<1>4. CASE syncTimestamp
  <2>1. /\ up = "starting" /\ up' = "synced" /\ pending' = SyncNext /\ started' = clock
        /\ UNCHANGED <<client, issued, highest>>
    BY <1>4 DEF syncTimestamp
  <2>2. pending' >= started'
    BY <2>1, SyncNotBelowClock
  <2>3. \A c \in Clients : ~Pending(c)'
    BY <2>1 DEF Pending, PendingWhenRunning
  <2> QED
    BY <1>0, <1>t, <2>1, <2>2, <2>3
       DEF IssuedBelow, QuietWhenDown, PendingWhenRunning, NoneBeforeSync, SyncPastClock,
           RunningPastClock, FloorReached, DrawnFresh, DrawnDistinct, Quiet
<1>5. CASE syncCurrent
  <2>1. /\ up = "synced" /\ up' = "running" /\ physiacl' = pending /\ logical' = 0
        /\ UNCHANGED <<client, started, issued, highest, pending>>
    BY <1>5 DEF syncCurrent
  <2>2. Top' \in Nat
    BY <1>0, TopType
  <2>3. \A c \in Clients : ~Pending(c)'
    BY <2>1 DEF Pending, PendingWhenRunning
  <2>4. RunningPastClock'
    BY <2>1, <2>2 DEF RunningPastClock, SyncPastClock, NoneBeforeSync
  <2> QED
    BY <1>0, <1>t, <2>1, <2>3, <2>4
       DEF IssuedBelow, QuietWhenDown, PendingWhenRunning, NoneBeforeSync, SyncPastClock,
           FloorReached, DrawnFresh, DrawnDistinct, Quiet
<1>6. CASE updateTimestamp
  <2>1. up = "running" /\ UNCHANGED <<up, pending, client, started, issued, highest>>
    BY <1>6 DEF updateTimestamp
  <2>2. Top <= Top' /\ Top \in Nat /\ Top' \in Nat
    BY <1>0, <1>6, UpdateRaisesTop, TopType
  <2>3. \A c \in Clients : (Pending(c)' <=> Pending(c)) /\ Drawn(c)' = Drawn(c) /\ Drawn(c) \in Nat
    BY <2>1, ComposeType DEF Pending, Drawn, TypeOK
  <2>4. physiacl' >= physiacl
    BY <1>6 DEF updateTimestamp, UpdateTargets, updateTimestampGuard, TypeOK
  <2>5. RunningPastClock'
    BY <1>0, <1>t, <2>1, <2>2, <2>4 DEF RunningPastClock, TypeOK
  <2>6. DrawnFresh' /\ DrawnDistinct'
    BY <2>1, <2>2, <2>3 DEF DrawnFresh, DrawnDistinct
  <2> QED
    BY <1>0, <2>1, <2>3, <2>5, <2>6
       DEF IssuedBelow, QuietWhenDown, PendingWhenRunning, NoneBeforeSync, SyncPastClock,
           FloorReached, Quiet
<1>7. ASSUME NEW c \in Clients, Client(c) PROVE Inv' /\ Quiet'
  <2>1. up # "down"
    BY <1>7, ClientUp
  <2>2. up' = up
    BY <1>7 DEF Client, getTimeStamp, Draw, Return, Retry, GiveUp
  <2> QED
    BY <1>0, <1>7, <2>1, <2>2, ClientInv DEF Quiet
<1> QED
  BY <1>1, <1>2, <1>3, <1>4, <1>5, <1>6, <1>7 DEF Next

\* TypeOK is an invariant of the oracle.
THEOREM TypeCorrect == Spec => []TypeOK
<1>1. Init => TypeOK
  BY OracleAssumption DEF Init, TypeOK, IdleClient, Call
<1> QED
  BY <1>1, NextType, PTL DEF Spec

\* A run of the oracle never returns a timestamp twice, none below one it
\* returned before the request arrived, and none that the clock had passed when
\* the run was synchronised: whatever the clock does, however often the server
\* is stopped and started, and with requests that come before syncTimestamp.
THEOREM TimestampsFreshAndIncreasing == Spec => FreshAndIncreasing
<1>1. Init => Inv /\ Quiet
  <2>1. Init => TypeOK
    BY OracleAssumption DEF Init, TypeOK, IdleClient, Call
  <2>2. Init => \A c \in Clients : client[c].pc = "idle" /\ client[c].floor = 0
    BY DEF Init, IdleClient, Call
  <2> QED
    BY <2>1, <2>2
       DEF Init, Inv, Quiet, IssuedBelow, QuietWhenDown, PendingWhenRunning, NoneBeforeSync,
           SyncPastClock, RunningPastClock, FloorReached, DrawnFresh, DrawnDistinct, Pending
<1>2. Inv /\ [Next]_vars =>
        [\A c \in Clients : Return(c) /\ client[c].synced =>
           LET ts == ComposeTS(client[c].physical, client[c].logic)
           IN  /\ ts \notin issued
               /\ ts > client[c].floor
               /\ ts > ComposeTS(started, 0)]_vars
  BY DEF Inv, DrawnFresh, Pending, Drawn, Return, Acceptable
<1> QED
  BY <1>1, <1>2, NextInv, PTL DEF Spec, FreshAndIncreasing
=============================================================================
