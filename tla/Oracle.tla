------------------------------- MODULE Oracle -------------------------------
(***************************************************************************)
(* The timestamp oracle of the meta server, src/meta_server/timestamp.h.   *)
(* A background thread loads the last saved time, takes the larger part of *)
(* the timestamps (physiacl) from the system clock and moves it on every   *)
(* updateTimestampStep; RPC threads draw timestamps by counting the        *)
(* logical part under the latch of current_ and check what they drew after *)
(* releasing it.  The process may stop at any time and be started again.   *)
(***************************************************************************)
EXTENDS Integers, FiniteSets

CONSTANTS Clients,       \* RPC threads in getTimeStamp
          MaxLogical,    \* maxLogical, 2^18 in the code
          MaxRetry,      \* maxRetryCount, 100 in the code
          Word,          \* uint64_t arithmetic is modulo Word
          IntHalf,       \* an int holds -IntHalf .. IntHalf - 1
          Uninit,        \* what a field without initializer may hold
          MaxClock,      \* bound: largest value of the system clock
          MaxPhysical,   \* bound: largest value of physiacl
          MaxDraw        \* bound: largest value of logical

ASSUME OracleAssumption ==
  /\ MaxLogical \in Nat \ {0}
  /\ MaxRetry \in Nat \ {0}
  /\ Word \in Nat \ {0}
  /\ IntHalf \in Nat \ {0}
  /\ Uninit \in SUBSET Nat
  /\ MaxClock \in Nat /\ MaxClock < Word
  /\ MaxPhysical \in Nat
  /\ MaxDraw \in Nat

saveTimestampInterval == 1
updateTimestampGuard == 1

VARIABLES
  clock,     \* GetPhysical(), in milliseconds
  saved,     \* the number in the file last_timestamp, 0 when there is none
  up,        \* the meta server process
  lastTS,    \* Oracle::lastTS
  pending,   \* next of syncTimestamp, between the save and the latch
  physiacl,  \* current_.physiacl
  logical,   \* current_.logical
  client,    \* the getTimeStamp call of each RPC thread
  started,   \* history: the clock when the last syncTimestamp read it
  issued,    \* history: the timestamps of this run of the process that were
             \* drawn after syncTimestamp and returned
  highest    \* history: the largest of them, 0 when there is none

vars == <<clock, saved, up, lastTS, pending, physiacl, logical, client, started, issued, highest>>

\* synced says that the pair was drawn after syncTimestamp.
Call(where, physical, logic, synced, tries, floor) ==
  [pc |-> where, physical |-> physical, logic |-> logic, synced |-> synced,
   tries |-> tries, floor |-> floor]

IdleClient == Call("idle", 0, 0, FALSE, 0, 0)

ComposeTS(physical, logic) == physical * MaxLogical + logic

Init ==
  /\ clock \in 1..MaxClock
  /\ saved = 0
  /\ up = "down"
  /\ lastTS = 0
  /\ pending = 0
  /\ physiacl = 0
  /\ logical = 0
  /\ client = [c \in Clients |-> IdleClient]
  /\ started = 0
  /\ issued = {}
  /\ highest = 0

-----------------------------------------------------------------------------
(* The clock and the process *)

\* The system clock shows another time; it may be set back.
ClockMoves ==
  /\ clock' \in 1..MaxClock
  /\ UNCHANGED <<saved, up, lastTS, pending, physiacl, logical, client, started, issued, highest>>

\* The process starts: Oracle() sets lastTS, current_ has no initializer.
Start ==
  /\ up = "down"
  /\ up' = "starting"
  /\ lastTS' = 0
  /\ physiacl' \in Uninit
  /\ logical' \in Uninit
  /\ issued' = {}
  /\ highest' = 0
  /\ UNCHANGED <<clock, saved, pending, client, started>>

\* The process stops; the calls in it are lost.
Stop(file) ==
  /\ up' = "down"
  /\ saved' = file
  /\ client' = [c \in Clients |-> IdleClient]
  /\ UNCHANGED <<clock, lastTS, pending, physiacl, logical, started, issued, highest>>

Crash == up # "down" /\ Stop(saved)

-----------------------------------------------------------------------------
(* The background thread *)

\* Mutated: takes the difference for the time.
SyncNext_Difference ==
  IF (clock - saved) % Word < updateTimestampGuard
  THEN saved + updateTimestampGuard
  ELSE clock - saved

\* The time syncTimestamp starts from: unsigned subtraction, so only a clock
\* that shows exactly the saved time is corrected.
SyncNext ==
  IF (clock - saved) % Word < updateTimestampGuard
  THEN saved + updateTimestampGuard
  ELSE clock

\* syncTimestamp up to the latch: read the file, read the clock, write the file.
syncTimestamp ==
  /\ up = "starting"
  /\ lastTS' = saved
  /\ pending' = SyncNext
  /\ saved' = SyncNext + saveTimestampInterval
  /\ started' = clock
  /\ up' = "synced"
  /\ UNCHANGED <<clock, physiacl, logical, client, issued, highest>>

\* The rest of syncTimestamp, under the latch.
syncCurrent ==
  /\ up = "synced"
  /\ physiacl' = pending
  /\ logical' = 0
  /\ up' = "running"
  /\ UNCHANGED <<clock, saved, lastTS, pending, client, started, issued, highest>>

\* signed(x): the value of x as an int.
Signed(x) == ((x + IntHalf) % (2 * IntHalf)) - IntHalf

\* The times updateTimestamp may move to: the clock when it is ahead, else the
\* next millisecond when half of the logical part is used, else none.
UpdateTargets ==
  IF clock - physiacl > updateTimestampGuard THEN {clock}
  ELSE IF logical > MaxLogical \div 2 THEN {physiacl + 1}
  ELSE {}

updateTimestamp ==
  /\ up = "running"
  /\ \E next \in UpdateTargets :
       /\ next <= MaxPhysical
       /\ physiacl' = next
       /\ saved' = IF Signed(lastTS - next) <= updateTimestampGuard
                   THEN next + saveTimestampInterval ELSE saved
  /\ logical' = 0
  /\ UNCHANGED <<clock, up, lastTS, pending, client, started, issued, highest>>

\* The process stops inside saveTimeStampToPath: the file was truncated when
\* it was opened and nothing is in it yet.
TornSave ==
  /\ up = "starting" \/ (up = "running" /\ UpdateTargets # {})
  /\ Stop(0)

-----------------------------------------------------------------------------
(* getTimeStamp *)

\* A request arrives, perhaps before syncTimestamp is done: the server listens
\* while the background thread starts.  floor remembers the timestamps returned
\* before it.
getTimeStamp(c) ==
  /\ up # "down"
  /\ client[c].pc = "idle"
  /\ client' = [client EXCEPT ![c] = Call("loop", 0, 0, FALSE, 0, highest)]
  /\ UNCHANGED <<clock, saved, up, lastTS, pending, physiacl, logical, started, issued, highest>>

\* The part of an iteration under the latch.
Draw(c) ==
  /\ client[c].pc = "loop"
  /\ client[c].tries < MaxRetry
  /\ logical < MaxDraw
  /\ logical' = logical + 1
  /\ client' = [client EXCEPT ![c] = Call("drawn", physiacl, logical + 1,
                                           up = "running", @.tries, @.floor)]
  /\ UNCHANGED <<clock, saved, up, lastTS, pending, physiacl, started, issued, highest>>

\* Mutated: no check of the logical part.
Acceptable_Overrun(c) == physiacl # 0

\* After the latch: physiacl is read again, and the drawn pair returned unless
\* the oracle has not been synchronised or the logical part ran over.
Acceptable(c) == physiacl # 0 /\ client[c].logic <= MaxLogical

Return(c) ==
  LET ts == ComposeTS(client[c].physical, client[c].logic) IN
  /\ client[c].pc = "drawn"
  /\ Acceptable(c)
  /\ IF client[c].synced
     THEN /\ issued' = issued \cup {ts}
          /\ highest' = IF ts > highest THEN ts ELSE highest
     ELSE UNCHANGED <<issued, highest>>
  /\ client' = [client EXCEPT ![c] = IdleClient]
  /\ UNCHANGED <<clock, saved, up, lastTS, pending, physiacl, logical, started>>

Retry(c) ==
  /\ client[c].pc = "drawn"
  /\ ~Acceptable(c)
  /\ client' = [client EXCEPT ![c] = Call("loop", 0, 0, FALSE, @.tries + 1, @.floor)]
  /\ UNCHANGED <<clock, saved, up, lastTS, pending, physiacl, logical, started, issued, highest>>

\* The retries are used up: 0 is returned, which is no timestamp.
GiveUp(c) ==
  /\ client[c].pc = "loop"
  /\ client[c].tries = MaxRetry
  /\ client' = [client EXCEPT ![c] = IdleClient]
  /\ UNCHANGED <<clock, saved, up, lastTS, pending, physiacl, logical, started, issued, highest>>

-----------------------------------------------------------------------------

Client(c) == getTimeStamp(c) \/ Draw(c) \/ Return(c) \/ Retry(c) \/ GiveUp(c)

Next ==
  \/ ClockMoves
  \/ Start
  \/ Crash
  \/ TornSave
  \/ syncTimestamp
  \/ syncCurrent
  \/ updateTimestamp
  \/ \E c \in Clients : Client(c)

Spec == Init /\ [][Next]_vars

-----------------------------------------------------------------------------
(* Properties *)

\* Every variable has its type.
TypeOK ==
  /\ clock \in 1..MaxClock /\ saved \in Nat /\ lastTS \in Nat /\ pending \in Nat
  /\ physiacl \in Nat /\ logical \in Nat /\ started \in Nat /\ highest \in Nat
  /\ up \in {"down", "starting", "synced", "running"}
  /\ client \in [Clients -> [pc : {"idle", "loop", "drawn"}, physical : Nat, logic : Nat,
                             synced : BOOLEAN, tries : Nat, floor : Nat]]
  /\ issued \in SUBSET Nat

\* A run of the process hands out every timestamp once, and one that is larger
\* than all it returned before the request arrived: txn_id_ is "globally
\* unique, strictly increasing".  Draws, updates of physiacl and the check
\* after the latch interleave freely.  It is also past the clock that
\* syncTimestamp read, so that a timestamp of an earlier run comes back only if
\* it is ahead of that clock: the clock was set back, or the earlier run had
\* counted beyond it.  Nothing is said of a pair drawn before syncTimestamp:
\* current_ has no initializer.
FreshAndIncreasing ==
  [][\A c \in Clients : Return(c) /\ client[c].synced =>
       LET ts == ComposeTS(client[c].physical, client[c].logic)
       IN  /\ ts \notin issued
           /\ ts > client[c].floor
           /\ ts > ComposeTS(started, 0)]_vars
=============================================================================
