----------------------------- MODULE MetaServer -----------------------------
(***************************************************************************)
(* The catalogue of the meta server (src/meta_server): databases, tables,  *)
(* partitions and the nodes their replicas are placed on.  RPC threads     *)
(* read and create tables with latch coupling (the server's latch, then    *)
(* the database's, then the table's), create databases and register nodes  *)
(* without any latch, and a background thread saves everything.            *)
(*                                                                         *)
(* Objects are allocated and never freed.  tabs and next_oid are the       *)
(* fields of the DbMetaServer objects in the order of their allocation,    *)
(* tms and nodes are the TabMetaServer and Node objects, a pointer is an   *)
(* index, and 0 is nullptr.  One access to a map is one step.  An exception that leaves *)
(* a handler ends the call; whether it also ends the process is up to the  *)
(* RPC library, and Stop allows it.                                        *)
(***************************************************************************)
EXTENDS TableMeta

CONSTANTS Threads,            \* RPC threads
          Dbs, Tables,        \* names
          Servers,            \* names the nodes register with
          Ip,                 \* address of each server
          ColumnLists,        \* column lists of CreateTable
          PartitionRequests,  \* requests of CreatePartitionTable
          Updates, Saves,     \* whether UpdateLeader is called, whether the data directory exists
          MaxDms, MaxTms, MaxNodes   \* bounds on the objects of one life of the process

None == "none"
Saver == "saver"   \* the background thread

ASSUME MetaAssumption ==
  /\ Saver \notin Threads /\ IsFiniteSet(Threads)
  /\ NoName \notin Dbs \cup Tables
  /\ ColumnLists \subseteq Seq([name : STRING, type : Nat])
  /\ MaxDms \in Nat /\ MaxTms \in Nat /\ MaxNodes \in Nat
  /\ \A r \in PartitionRequests :
       /\ r.partition_cnt \in Nat \ {0} /\ r.replica_cnt \in Nat
       /\ r.columns \in Seq([name : STRING, type : Nat])
       /\ r.range \in Seq([min_range : Nat, max_range : Nat])
       /\ Len(r.range) \in {0, r.partition_cnt}   \* a hash table needs none
  /\ \A s \in Servers : Ip[s] \notin {NoReplica, NoName}   \* ip2str is never empty

VARIABLES
  db_map_,        \* MetaServer::db_map_, names to databases
  tabs, next_oid, \* the DbMetaServer objects: names to tables, and the next table's oid
  tms,            \* the TabMetaServer objects
  ip_node_map_,   \* MetaServer::ip_node_map_, server names to nodes
  nodes,          \* the Node objects
  held,           \* latches: <<thread, latch, mode>>
  pc, call,       \* where a thread is, and the request it serves
  dp, tp,         \* its pointers to a database and to a table
  work,           \* its locals while it places replicas
  saver,          \* where the background thread is
  meta_file,      \* the file, as far as this life of the process wrote it
  whole, guessed, \* history: tables finished, tables placed through an uninitialised pointer
  asked,          \* history: the type of partition asked for, per table
  replaced,       \* history: databases whose object another one took the place of
  miscounted      \* history: servers whose Node another one took the place of, or was
                  \* given leaders by two threads at once

catalogue == <<db_map_, tabs, next_oid, tms>>
history == <<whole, guessed, asked, replaced>>
placement == <<ip_node_map_, nodes, miscounted>>
thread == <<pc, call, dp, tp, work>>
vars == <<catalogue, placement, held, thread, saver, meta_file, history>>

Actors == Threads \cup {Saver}
MS == <<"ms", 0>>
DMS(i) == <<"dms", i>>
TMS(i) == <<"tms", i>>
Shared(t, l) == <<t, l, "shared">>
Exclusive(t, l) == <<t, l, "exclusive">>
CanShare(l) == \A t \in Actors : Exclusive(t, l) \notin held
CanExclude(l) == \A t \in Actors : Exclusive(t, l) \notin held /\ Shared(t, l) \notin held

NoCall == [op |-> None]
NoWork == [i |-> 1, replicas |-> <<>>, node |-> 0, seen |-> 0]
Torn == <<>>   \* not written yet, or cut short
With(f, k, v) == [x \in DOMAIN f \cup {k} |-> IF x = k THEN v ELSE f[x]]

NewNode(s) == [ip_addr |-> Ip[s], activate |-> TRUE, leader_par_cnt |-> 0, follower_par_cnt |-> 0]

\* main: empty maps.  Nothing calls open_meta_server.
Fresh ==
  [db_map_ |-> <<>>, tabs |-> <<>>, next_oid |-> <<>>, tms |-> <<>>, ip_node_map_ |-> <<>>, nodes |-> <<>>,
   pc |-> [t \in Threads |-> "idle"], call |-> [t \in Threads |-> NoCall],
   zero |-> [t \in Threads |-> 0], work |-> [t \in Threads |-> NoWork]]

Init ==
  /\ db_map_ = Fresh.db_map_ /\ tabs = Fresh.tabs /\ next_oid = Fresh.next_oid /\ tms = Fresh.tms
  /\ ip_node_map_ = Fresh.ip_node_map_ /\ nodes = Fresh.nodes
  /\ held = {} /\ saver = "sleep" /\ meta_file = Torn
  /\ pc = Fresh.pc /\ call = Fresh.call /\ dp = Fresh.zero /\ tp = Fresh.zero /\ work = Fresh.work
  /\ whole = {} /\ guessed = {} /\ asked = <<>> /\ replaced = {} /\ miscounted = {}

\* The process stops and main runs again.  The file is left, but nothing
\* reads what an earlier life wrote.
Stop ==
  /\ db_map_' = Fresh.db_map_ /\ tabs' = Fresh.tabs /\ next_oid' = Fresh.next_oid
  /\ tms' = Fresh.tms
  /\ ip_node_map_' = Fresh.ip_node_map_ /\ nodes' = Fresh.nodes
  /\ held' = {} /\ saver' = "sleep" /\ meta_file' = Torn
  /\ pc' = Fresh.pc /\ call' = Fresh.call /\ dp' = Fresh.zero /\ tp' = Fresh.zero
  /\ work' = Fresh.work
  /\ whole' = {} /\ guessed' = {} /\ asked' = <<>> /\ replaced' = {} /\ miscounted' = {}

(***************************************************************************)
(* Steps of a thread.                                                      *)
(***************************************************************************)

Goto(t, p) == pc' = [pc EXCEPT ![t] = p]

\* The call ends, by an answer or by an exception; its latches are given back.
Return(t) ==
  /\ Goto(t, "idle")
  /\ call' = [call EXCEPT ![t] = NoCall]
  /\ dp' = [dp EXCEPT ![t] = 0] /\ tp' = [tp EXCEPT ![t] = 0]
  /\ work' = [work EXCEPT ![t] = NoWork]
  /\ held' = {h \in held : h[1] # t}

InProgress(ops) == Cardinality({t \in Threads : call[t].op \in ops})
Lookups == {"Lookup", "UpdateLeader"}
Creates == {"CreateTable", "CreatePartitionTable"}

\* The requests the server may get, as far as the bounds allow.
LookupCalls == [op : {"Lookup"} \cup (IF Updates THEN {"UpdateLeader"} ELSE {}), db : Dbs, tab : Tables]
CreateCalls ==
  [op : {"CreateTable"}, db : Dbs, tab : Tables, arg : ColumnLists]
    \cup [op : {"CreatePartitionTable"}, db : Dbs, tab : Tables, arg : PartitionRequests]
Entry(op) ==
  CASE op \in Lookups -> "lookup"
    [] op \in Creates -> "create"
    [] op = "CreateDataBase" -> "check_db"
    [] op = "NodeRegister" -> "check_node"

Receive(t) ==
  /\ pc[t] = "idle"
  /\ \E c \in LookupCalls
          \cup (IF Len(tms) + InProgress(Creates) < MaxTms THEN CreateCalls ELSE {})
          \cup (IF Len(tabs) + InProgress({"CreateDataBase"}) < MaxDms
                THEN [op : {"CreateDataBase"}, db : Dbs] ELSE {})
          \cup (IF Len(nodes) + InProgress({"NodeRegister"}) < MaxNodes
                THEN [op : {"NodeRegister"}, arg : Servers] ELSE {}) :
       /\ call' = [call EXCEPT ![t] = c]
       /\ Goto(t, Entry(c.op))
  /\ UNCHANGED <<catalogue, placement, held, dp, tp, work, saver, meta_file, history>>

(***************************************************************************)
(* getPartitionKey, GetColInfor, getReplicaLocationList and                *)
(* UpdatePartitionLeader.  The first three take the same steps and differ  *)
(* in what they answer.  operator[] puts a null pointer into the map when  *)
(* the name is not there, under a shared latch.                            *)
(***************************************************************************)

LookupDb(t) ==
  /\ pc[t] = "lookup" /\ CanShare(MS)
  /\ LET db == call[t].db
         p == IF db \in DOMAIN db_map_ THEN db_map_[db] ELSE 0
     IN  /\ db_map_' = With(db_map_, db, p)
         /\ \/ p = 0 /\ Return(t)   \* NO_DATABASE
            \/ /\ p # 0
               /\ held' = held \cup {Shared(t, MS)}
               /\ dp' = [dp EXCEPT ![t] = p]
               /\ Goto(t, "latch_db")
               /\ UNCHANGED <<call, tp, work>>
  /\ UNCHANGED <<tabs, next_oid, tms, placement, saver, meta_file, history>>

LookupLatchDb(t) ==
  /\ pc[t] = "latch_db" /\ CanShare(DMS(dp[t]))
  /\ held' = (held \cup {Shared(t, DMS(dp[t]))}) \ {Shared(t, MS)}
  /\ Goto(t, "find_tab")
  /\ UNCHANGED <<catalogue, placement, call, dp, tp, work, saver, meta_file, history>>

FindTable(t) ==
  /\ pc[t] = "find_tab"
  /\ LET tab == call[t].tab
         p == IF tab \in DOMAIN tabs[dp[t]] THEN tabs[dp[t]][tab] ELSE 0
     IN  /\ tabs' = [tabs EXCEPT ![dp[t]] = With(@, tab, p)]
         /\ \/ p = 0 /\ Return(t)   \* NO_TABLE
            \/ /\ p # 0
               /\ tp' = [tp EXCEPT ![t] = p]
               /\ Goto(t, "latch_tab")
               /\ UNCHANGED <<held, call, dp, work>>
  /\ UNCHANGED <<db_map_, next_oid, tms, placement, saver, meta_file, history>>

LatchTable(t) ==
  /\ pc[t] = "latch_tab"
  /\ LET l == TMS(tp[t])
     IN  \/ /\ call[t].op = "Lookup" /\ CanShare(l)
            /\ held' = (held \cup {Shared(t, l)}) \ {Shared(t, DMS(dp[t]))}
         \/ /\ call[t].op = "UpdateLeader" /\ CanExclude(l)
            /\ held' = (held \cup {Exclusive(t, l)}) \ {Shared(t, DMS(dp[t]))}
  /\ Goto(t, "answer")
  /\ UNCHANGED <<catalogue, placement, call, dp, tp, work, saver, meta_file, history>>

\* The answer is read from tms[tp[t]].  UpdatePartitionLeader sets the roles
\* in a copy of table_location_ and drops it: nothing changes.
Answer(t) ==
  /\ pc[t] = "answer"
  /\ Return(t)
  /\ UNCHANGED <<catalogue, placement, saver, meta_file, history>>

(***************************************************************************)
(* CreateTable and CreatePartitionTable.  After the database's latch is    *)
(* taken every access goes through db_map_ again.                          *)
(***************************************************************************)

CreateEnter(t) ==
  /\ pc[t] = "create" /\ CanShare(MS)
  /\ LET db == call[t].db
     IN  \/ /\ db \notin DOMAIN db_map_ /\ Return(t)   \* success is false
            /\ UNCHANGED <<catalogue, placement, saver, meta_file, history>>
         \/ /\ db \in DOMAIN db_map_ /\ db_map_[db] = 0 /\ Stop   \* get_mutex() of nullptr
         \/ /\ db \in DOMAIN db_map_ /\ db_map_[db] # 0
            /\ held' = held \cup {Shared(t, MS)}
            /\ dp' = [dp EXCEPT ![t] = db_map_[db]]
            /\ Goto(t, "excl_db")
            /\ UNCHANGED <<catalogue, placement, call, tp, work, saver, meta_file, history>>

\* Mutated: the latch is not waited for.
CreateLatchDb_NoWait(t) ==
  /\ pc[t] = "excl_db"
  /\ held' = (held \cup {Exclusive(t, DMS(dp[t]))}) \ {Shared(t, MS)}
  /\ Goto(t, "check_tab")
  /\ UNCHANGED <<catalogue, placement, call, dp, tp, work, saver, meta_file, history>>

\* Mutated: the latch is taken as readers take it.
CreateLatchDb_Shared(t) ==
  /\ pc[t] = "excl_db" /\ CanShare(DMS(dp[t]))
  /\ held' = (held \cup {Shared(t, DMS(dp[t]))}) \ {Shared(t, MS)}
  /\ Goto(t, "check_tab")
  /\ UNCHANGED <<catalogue, placement, call, dp, tp, work, saver, meta_file, history>>

CreateLatchDb(t) ==
  /\ pc[t] = "excl_db" /\ CanExclude(DMS(dp[t]))
  /\ held' = (held \cup {Exclusive(t, DMS(dp[t]))}) \ {Shared(t, MS)}
  /\ Goto(t, "check_tab")
  /\ UNCHANGED <<catalogue, placement, call, dp, tp, work, saver, meta_file, history>>

\* As in the code, a replica count below the number of nodes is refused.
Refused(t) ==
  \/ call[t].tab \in DOMAIN tabs[db_map_[call[t].db]]
  \/ /\ call[t].op = "CreatePartitionTable"
     /\ \/ call[t].arg.partition_type = NONE_PARTITION
        \/ call[t].arg.replica_cnt < Cardinality(DOMAIN ip_node_map_)

CheckTable(t) ==
  /\ pc[t] = "check_tab"
  /\ \/ Refused(t) /\ Return(t)
     \/ ~Refused(t) /\ Goto(t, "new_tab") /\ UNCHANGED <<held, call, dp, tp, work>>
  /\ UNCHANGED <<catalogue, placement, saver, meta_file, history>>

\* new TabMetaServer() is all zeros and empty strings.
NewTable(t) ==
  /\ pc[t] = "new_tab"
  /\ LET c == call[t]
         p == db_map_[c.db]
         i == Len(tms) + 1
     IN  /\ tms' = Append(tms, [oid |-> next_oid[p], name |-> c.tab,
                    columns |-> IF c.op = "CreateTable" THEN c.arg ELSE c.arg.columns,
                    partition_type |-> NONE_PARTITION, partition_key_name |-> NoName,
                    partition_key_type |-> 0, partition_cnt |-> 0, partitions |-> <<>>,
                    duplicate_type |-> NOT_DUPLICATE, table_location |-> <<>>])
         /\ tabs' = [tabs EXCEPT ![p] = With(@, c.tab, i)]
         /\ asked' = Append(asked,
                       IF c.op = "CreateTable" THEN NONE_PARTITION ELSE c.arg.partition_type)
         /\ tp' = [tp EXCEPT ![t] = i]
  /\ Goto(t, "set_oid")
  /\ UNCHANGED <<db_map_, next_oid, placement, held, call, dp, work, saver, meta_file,
                 whole, guessed, replaced>>

\* Mutated: the oid is not counted on.
SetNextOid_Kept(t) ==
  next_oid' = [next_oid EXCEPT ![db_map_[call[t].db]] = tms[tp[t]].oid]

SetNextOid(t) ==
  next_oid' = [next_oid EXCEPT ![db_map_[call[t].db]] = tms[tp[t]].oid + 1]

\* set_next_oid; a table that is not partitioned is finished with it.
FinishPlain(t) ==
  /\ pc[t] = "set_oid" /\ call[t].op = "CreateTable"
  /\ SetNextOid(t)
  /\ whole' = whole \cup {tp[t]}
  /\ Return(t)
  /\ UNCHANGED <<db_map_, tabs, tms, placement, saver, meta_file, guessed, asked, replaced>>

\* The first switch has the values of PartitionType but looks at the type of
\* the key: TYPE_FLOAT is RANGE_PARTITION, TYPE_STRING is HASH_PARTITION.
TypeStored(req) ==
  CASE req.partition_key_type = RANGE_PARTITION -> RANGE_PARTITION
    [] req.partition_key_type = HASH_PARTITION -> HASH_PARTITION
    [] OTHER -> NONE_PARTITION

DescribeTable(t) ==
  /\ pc[t] = "set_oid" /\ call[t].op = "CreatePartitionTable"
  /\ LET req == call[t].arg
     IN  \/ /\ req.range = <<>> /\ Stop   \* range()[0] of an empty field
         \/ /\ req.range # <<>>
            /\ SetNextOid(t)
            /\ tms' = [tms EXCEPT ![tp[t]] = [@ EXCEPT
                  !.partition_key_name = "key",
                  !.partition_cnt = req.partition_cnt,
                  !.partition_type = TypeStored(req),
                  !.partition_key_type = req.partition_key_type,
                  !.partitions = [i \in 1..req.partition_cnt |->
                     [p_id |-> i - 1, min_range |-> req.range[i].min_range,
                      max_range |-> req.range[i].max_range]],
                  !.duplicate_type = IF req.has_replica THEN DUPLICATE ELSE NOT_DUPLICATE]]
            /\ Goto(t, "place")
            /\ UNCHANGED <<db_map_, tabs, placement, held, call, dp, tp, work, saver, meta_file, history>>

(***************************************************************************)
(* Placing the replicas of partition work[t].i: the first is the leader,   *)
(* on an active node that leads least; each other one is a follower, on an *)
(* active node that follows least and has an address not used yet.         *)
(***************************************************************************)

Load(n, role) == IF role = Leader THEN nodes[n].leader_par_cnt ELSE nodes[n].follower_par_cnt
RoleOf(replicas) == IF replicas = <<>> THEN Leader ELSE Follower

\* Mutated: addresses are used again.
Candidates_Reused(replicas) ==
  LET role == RoleOf(replicas)
      free == {n \in {ip_node_map_[s] : s \in DOMAIN ip_node_map_} : nodes[n].activate}
  IN  {n \in free : \A m \in free : Load(n, role) <= Load(m, role)}

Candidates(replicas) ==
  LET role == RoleOf(replicas)
      free == {n \in {ip_node_map_[s] : s \in DOMAIN ip_node_map_} :
                 /\ nodes[n].activate
                 /\ \A j \in DOMAIN replicas : replicas[j].ip_addr # nodes[n].ip_addr}
  IN  {n \in free : \A m \in free : Load(n, role) <= Load(m, role)}

\* Of the history: another thread is about to count a leader on the node.
CountsLeader(t, n) == pc[t] = "count" /\ work[t].node = n /\ Len(work[t].replicas) = 1
Behind(n) == {s \in Servers : s \in DOMAIN ip_node_map_ /\ ip_node_map_[s] = n}

\* Without a candidate the pointer is not initialised: the process stops, or
\* it happens to point to a node.
PlaceReplica(t) ==
  /\ pc[t] = "place"
  /\ LET c == Candidates(work[t].replicas)
         role == RoleOf(work[t].replicas)
     IN  \/ c = {} /\ Stop
         \/ /\ \E n \in (IF c = {} THEN DOMAIN nodes ELSE c) :
                 /\ work' = [work EXCEPT ![t] = [@ EXCEPT !.node = n, !.seen = Load(n, role),
                               !.replicas = Append(work[t].replicas,
                                                   [ip_addr |-> nodes[n].ip_addr, role |-> role])]]
                 /\ miscounted' =
                      IF role = Leader /\ \E u \in Threads : CountsLeader(u, n)
                      THEN miscounted \cup Behind(n) ELSE miscounted
            /\ guessed' = IF c = {} THEN guessed \cup {tp[t]} ELSE guessed
            /\ Goto(t, "count")
            /\ UNCHANGED <<catalogue, ip_node_map_, nodes, held, call, dp, tp, saver, meta_file,
                           whole, asked, replaced>>

\* Mutated: every replica is counted as a leader.
AddLoad_Leader(t, n) ==
  nodes' = [nodes EXCEPT ![n].leader_par_cnt = @ + 1]

\* leader_par_cnt++ or follower_par_cnt++; another thread's increment may be lost.
AddLoad(t, n) ==
  \E old \in {work[t].seen, Load(n, work[t].replicas[Len(work[t].replicas)].role)} :
    nodes' = [nodes EXCEPT ![n] =
                IF Len(work[t].replicas) = 1 THEN [@ EXCEPT !.leader_par_cnt = old + 1]
                ELSE [@ EXCEPT !.follower_par_cnt = old + 1]]

\* Then the next replica, the next partition, or the answer.
CountReplica(t) ==
  /\ pc[t] = "count"
  /\ AddLoad(t, work[t].node)
  /\ LET w == work[t]
         last == Len(w.replicas) >= call[t].arg.replica_cnt
         done == last /\ w.i = Len(tms[tp[t]].partitions)
     IN  /\ tms' = IF last THEN [tms EXCEPT ![tp[t]] = [@ EXCEPT !.table_location =
                            Append(tms[tp[t]].table_location, [p_id |-> w.i - 1, replicas |-> w.replicas])]]
                   ELSE tms
         /\ \/ done /\ Return(t) /\ whole' = whole \cup {tp[t]}
            \/ /\ ~done /\ Goto(t, "place")
               /\ work' = [work EXCEPT ![t] = IF last THEN [NoWork EXCEPT !.i = w.i + 1] ELSE w]
               /\ UNCHANGED <<held, call, dp, tp, whole>>
  /\ UNCHANGED <<db_map_, tabs, next_oid, ip_node_map_, miscounted, saver, meta_file,
                 guessed, asked, replaced>>

(***************************************************************************)
(* CreateDataBase and NodeRegister look and then insert, without a latch.  *)
(***************************************************************************)

CheckDb(t) ==
  /\ pc[t] = "check_db"
  /\ \/ call[t].db \in DOMAIN db_map_ /\ Return(t)
     \/ /\ call[t].db \notin DOMAIN db_map_ /\ Goto(t, "insert_db")
        /\ UNCHANGED <<held, call, dp, tp, work>>
  /\ UNCHANGED <<catalogue, placement, saver, meta_file, history>>

\* Mutated: the pointer is put into the map before the object is counted.
InsertDb_Early(t) ==
  /\ pc[t] = "insert_db"
  /\ db_map_' = With(db_map_, call[t].db, Len(tabs) + 1)
  /\ Return(t)
  /\ UNCHANGED <<tabs, next_oid, tms, placement, saver, meta_file, history>>

InsertDb(t) ==
  /\ pc[t] = "insert_db"
  /\ LET db == call[t].db
     IN  /\ tabs' = Append(tabs, <<>>) /\ next_oid' = Append(next_oid, 0)
         /\ db_map_' = With(db_map_, db, Len(tabs) + 1)
         /\ replaced' = IF db \in DOMAIN db_map_ /\ db_map_[db] # 0
                        THEN replaced \cup {db} ELSE replaced
  /\ Return(t)
  /\ UNCHANGED <<tms, placement, saver, meta_file, whole, guessed, asked>>

CheckNode(t) ==
  /\ pc[t] = "check_node"
  /\ LET s == call[t].arg
     IN  \/ /\ s \in DOMAIN ip_node_map_ /\ Return(t)
            /\ nodes' = [nodes EXCEPT ![ip_node_map_[s]] = [@ EXCEPT !.activate = TRUE]]
         \/ /\ s \notin DOMAIN ip_node_map_ /\ Goto(t, "insert_node")
            /\ UNCHANGED <<nodes, held, call, dp, tp, work>>
  /\ UNCHANGED <<catalogue, ip_node_map_, miscounted, saver, meta_file, history>>

InsertNode(t) ==
  /\ pc[t] = "insert_node"
  /\ LET s == call[t].arg
     IN  /\ nodes' = Append(nodes, NewNode(s))
         /\ ip_node_map_' = With(ip_node_map_, s, Len(nodes) + 1)
         /\ miscounted' = IF s \in DOMAIN ip_node_map_ THEN miscounted \cup {s} ELSE miscounted
  /\ Return(t)
  /\ UNCHANGED <<catalogue, saver, meta_file, history>>

(***************************************************************************)
(* The background thread: the server's latch alone, the file emptied by    *)
(* opening it, every database and table written.                           *)
(***************************************************************************)

SaveLock ==
  /\ saver = "sleep" /\ CanExclude(MS)
  /\ held' = held \cup {Exclusive(Saver, MS)}
  /\ saver' = "open"
  /\ UNCHANGED <<catalogue, placement, thread, meta_file, history>>

SaveUnlock ==
  /\ held' = held \ {Exclusive(Saver, MS)}
  /\ saver' = "sleep"

\* Mutated: the latch is kept when the file cannot be opened.
SaveFails_KeepsLatch ==
  /\ saver = "open"
  /\ saver' = "sleep"
  /\ UNCHANGED <<catalogue, placement, held, thread, meta_file, history>>

\* NO_META_DIR or UnixError, caught by the thread.
SaveFails ==
  /\ saver = "open"
  /\ SaveUnlock
  /\ UNCHANGED <<catalogue, placement, thread, meta_file, history>>

SaveOpen ==
  /\ saver = "open" /\ Saves
  /\ meta_file' = Torn
  /\ saver' = "write"
  /\ UNCHANGED <<catalogue, placement, held, thread, history>>

NullEntry ==
  \E db \in DOMAIN db_map_ :
    db_map_[db] # 0 => \E x \in DOMAIN tabs[db_map_[db]] : tabs[db_map_[db]][x] = 0

Catalogue ==
  [db \in DOMAIN db_map_ |->
     LET d == db_map_[db]
     IN  [next_oid |-> next_oid[d], tabs |-> [x \in DOMAIN tabs[d] |-> tms[tabs[d][x]]]]]
NodeMap == [s \in DOMAIN ip_node_map_ |-> nodes[ip_node_map_[s]]]

SaveWrite ==
  /\ saver = "write"
  /\ \/ NullEntry /\ Stop   \* operator<< of nullptr
     \/ /\ ~NullEntry
        /\ meta_file' = WriteMeta(Catalogue, NodeMap)
        /\ SaveUnlock
        /\ UNCHANGED <<catalogue, placement, thread, history>>

Handler(t) ==
  \/ LookupDb(t) \/ LookupLatchDb(t) \/ FindTable(t) \/ LatchTable(t) \/ Answer(t)
  \/ CreateEnter(t) \/ CreateLatchDb(t) \/ CheckTable(t) \/ NewTable(t)
  \/ FinishPlain(t) \/ DescribeTable(t) \/ PlaceReplica(t) \/ CountReplica(t)
  \/ CheckDb(t) \/ InsertDb(t) \/ CheckNode(t) \/ InsertNode(t)

Next ==
  \/ \E t \in Threads : Receive(t) \/ Handler(t)
  \/ SaveLock \/ SaveFails \/ SaveOpen \/ SaveWrite
  \/ Stop

Spec == Init /\ [][Next]_vars

\* A handler that can go on does.  A reader waiting for a latch gets it if it
\* is free of writers again and again: std::shared_mutex is a
\* pthread_rwlock_t, which lets waiting readers in before writers.  The
\* background thread finishes a save it has begun.
Fairness ==
  /\ \A t \in Threads :
       /\ WF_vars(Handler(t))
       /\ SF_vars(LookupDb(t)) /\ SF_vars(LookupLatchDb(t))
       /\ SF_vars(call[t].op = "Lookup" /\ LatchTable(t))
  /\ WF_vars(SaveFails \/ SaveOpen) /\ WF_vars(SaveWrite)

FairSpec == Spec /\ Fairness

(***************************************************************************)
(* Properties.                                                             *)
(***************************************************************************)

Pcs == {"idle", "lookup", "latch_db", "find_tab", "latch_tab", "answer",
        "create", "excl_db", "check_tab", "new_tab", "set_oid", "place", "count",
        "check_db", "insert_db", "check_node", "insert_node"}
Latches == {MS} \cup {DMS(i) : i \in DOMAIN tabs} \cup {TMS(i) : i \in DOMAIN tms}

\* Pointers point to objects, and there are as many of each field as objects.
TypeOK ==
  /\ DOMAIN db_map_ \subseteq Dbs
  /\ \A db \in DOMAIN db_map_ : db_map_[db] \in 0..Len(tabs)
  /\ next_oid \in Seq(Nat) /\ Len(next_oid) = Len(tabs)
  /\ \A i \in DOMAIN tabs :
       /\ DOMAIN tabs[i] \subseteq Tables
       /\ \A x \in DOMAIN tabs[i] : tabs[i][x] \in 0..Len(tms)
  /\ \A i \in DOMAIN tms : tms[i].oid \in Nat
  /\ DOMAIN asked = DOMAIN tms /\ whole \cup guessed \subseteq DOMAIN tms
  /\ \A s \in DOMAIN ip_node_map_ : s \in Servers /\ ip_node_map_[s] \in DOMAIN nodes
  /\ pc \in [Threads -> Pcs] /\ saver \in {"sleep", "open", "write"}
  /\ \A t \in Threads : dp[t] \in 0..Len(tabs) /\ tp[t] \in 0..Len(tms)
  /\ \A h \in held : h[1] \in Actors /\ h[2] \in Latches
  /\ replaced \subseteq Dbs /\ miscounted \subseteq Servers

\* A latch has one writer or only readers, and every call gives back all the
\* latches it took, whichever of its returns and exceptions it leaves by.
LatchesSound ==
  /\ \A h, g \in held : h[2] = g[2] /\ h[3] = "exclusive" => h = g
  /\ \A h \in held : h[1] \in Threads => pc[h[1]] # "idle"

\* The table of a name in a database that was not replaced.
Current(db) == IF db \in replaced THEN <<>> ELSE tabs[db_map_[db]]

\* Two tables of a database never have the same oid, and next_oid is above
\* them all once they are finished: taking the oid and counting it on are
\* separate calls, kept together by the database's latch alone.  (A database
\* created twice at once loses that latch.)
OidsUnique ==
  \A db \in DOMAIN db_map_ : db_map_[db] # 0 =>
    \A x, y \in DOMAIN Current(db) :
      LET i == Current(db)[x]
          j == Current(db)[y]
      IN  i # 0 /\ j # 0 =>
            /\ x # y => tms[i].oid # tms[j].oid
            /\ i \in whole => tms[i].oid < next_oid[db_map_[db]]

\* A table is in the map long before it is finished; a reader that found it
\* there still never answers from an unfinished one.
ReadersSeeWholeTables ==
  \A t \in Threads :
    pc[t] \in {"latch_tab", "answer"} /\ call[t].db \notin replaced => tp[t] \in whole

KeyValues(tab) == 0..(1 + tab.partitions[Len(tab.partitions)].max_range)

\* The partition that holds a key, by the type of partition asked for.
Holds(tab, type, p, k) ==
  IF type = RANGE_PARTITION
  THEN /\ tab.partitions[p + 1].min_range <= k
       /\ k <= tab.partitions[p + 1].max_range
  ELSE p = HashPartition(tab, k)

\* A lookup answers a leader for every partition that may hold a key of the
\* range, on either side of every boundary, unless the table was stored with
\* another type of partition than the one asked for.
LookupCovers ==
  \A t \in Threads :
    LET tab == tms[tp[t]]
        type == asked[tp[t]]
    IN  /\ pc[t] = "answer" /\ tp[t] \in whole
        /\ tab.partition_type \in {type, NONE_PARTITION}
        => \A p \in AllPartitions(tab) : \A lo, hi \in KeyValues(tab) :
             (\E k \in lo..hi : Holds(tab, type, p, k)) =>
               /\ p \in Selected(tab, lo, hi)
               /\ getReplicaLocationList(tab, lo, hi)[p] # NoReplica

\* The replicas of a partition have different addresses and one leader, as
\* long as no uninitialised pointer was used.
DistinctReplicas ==
  \A i \in DOMAIN tms \ guessed :
    \A l \in DOMAIN tms[i].table_location :
      LET r == tms[i].table_location[l].replicas
      IN  /\ \A j, k \in DOMAIN r : j # k => r[j].ip_addr # r[k].ip_addr
          /\ Cardinality({j \in DOMAIN r : r[j].role = Leader}) = 1

\* Leaders at an address, of placed partitions and of the one being placed.
Led(ip) ==
  Cardinality(UNION {{<<i, l>> : l \in
      {m \in DOMAIN tms[i].table_location : tms[i].table_location[m].replicas[1].ip_addr = ip}} :
      i \in DOMAIN tms})
  + Cardinality({t \in Threads :
      LET r == work[t].replicas
      IN  r # <<>> /\ r[1].ip_addr = ip /\ ~(pc[t] = "count" /\ Len(r) = 1)})

\* leader_par_cnt, by which the next leaders are placed, is the number of
\* partitions led at the address: no placement is lost and none counted twice,
\* however many databases' creators place partitions without the server's latch,
\* as long as no two of them counted a leader on one node at once and no node of
\* the address was replaced by a second registration.
LeaderLoadExact ==
  \A s \in DOMAIN ip_node_map_ :
    (\A x \in miscounted : Ip[x] # Ip[s]) =>
      MapThenSumSet(LAMBDA x : nodes[ip_node_map_[x]].leader_par_cnt,
                    {x \in DOMAIN ip_node_map_ : Ip[x] = Ip[s]}) = Led(Ip[s])

\* Every database and table that was finished, with a partition key and names
\* for its columns, and every node: what a save writes is what
\* open_meta_server would read.
Readable ==
  \A db \in DOMAIN db_map_ : \A x \in DOMAIN tabs[db_map_[db]] :
    LET i == tabs[db_map_[db]][x]
    IN  /\ i \in whole /\ tms[i].partition_key_name # NoName
        /\ \A c \in DOMAIN tms[i].columns : tms[i].columns[c].name # NoName
FileReadsBack ==
  [][ (~NullEntry /\ Readable /\ saver = "write" /\ saver' = "sleep" /\ meta_file' # Torn) =>
        ReadMeta(meta_file') =
          [kind |-> "read", dbs |-> Catalogue,
           servers |-> [s \in DOMAIN NodeMap |-> [NodeMap[s] EXCEPT !.activate = FALSE]]] ]_vars

\* A lookup comes to its end whatever creators, updates and saves do: no
\* thread waits for a latch while it keeps another one that is waited for.
LookupReturns ==
  \A t \in Threads : (call[t].op = "Lookup") ~> (call[t].op # "Lookup")
=============================================================================
