------------------------------ MODULE TableMeta ------------------------------
(***************************************************************************)
(* What the meta server knows of a table (TabMetaServer, ParMeta,          *)
(* PhyTableLocation, PhyPartitionLocation, ReplicaLocation), which         *)
(* partitions a lookup answers for a range of the partition key, and the   *)
(* file operator<< writes and operator>> reads.                            *)
(*                                                                         *)
(* Key values are ranks in the order of their type (stoi for numbers,      *)
(* operator< for strings).  Ports are left out: a replica is its address.  *)
(* So are copies of another field (the oid in every location, replica_cnt).*)
(***************************************************************************)
EXTENDS Naturals, Sequences, FiniteSets, FiniteSetsExt

CONSTANT Hash(_)   \* std::hash of a key value

NONE_PARTITION == 0
RANGE_PARTITION == 1
HASH_PARTITION == 2
TYPE_INT == 0
TYPE_FLOAT == 1
TYPE_STRING == 2
NOT_DUPLICATE == 0
DUPLICATE == 1
Leader == 1
Follower == 2

NoName == "noname"           \* the empty string
NoReplica == "nullptr"

(***************************************************************************)
(* Lookups.                                                                *)
(***************************************************************************)

\* The first replica of the first location of the partition that is Leader.
getReplicaLocation(tab, p_id) ==
  LET locs == {l \in DOMAIN tab.table_location : tab.table_location[l].p_id = p_id}
      replicas == tab.table_location[Min(locs)].replicas
      leaders == {r \in DOMAIN replicas : replicas[r].role = Leader}
  IN  IF locs = {} \/ leaders = {} THEN NoReplica ELSE replicas[Min(leaders)].ip_addr

AllPartitions(tab) == {tab.partitions[i].p_id : i \in DOMAIN tab.partitions}

\* Mutated: a partition that begins where the range ends is left out.
ByRange_Strict(tab, min_range, max_range) ==
  {par.p_id : par \in {tab.partitions[i] : i \in
     {j \in DOMAIN tab.partitions : /\ tab.partitions[j].min_range < max_range
                                    /\ tab.partitions[j].max_range >= min_range}}}

ByRange(tab, min_range, max_range) ==
  {par.p_id : par \in {tab.partitions[i] : i \in
     {j \in DOMAIN tab.partitions : /\ tab.partitions[j].min_range <= max_range
                                    /\ tab.partitions[j].max_range >= min_range}}}

HashPartition(tab, val) == Hash(val) % tab.partition_cnt

ByHash(tab, min_range, max_range) ==
  IF min_range = max_range THEN {HashPartition(tab, min_range)} ELSE AllPartitions(tab)

\* The partitions of getReplicaLocationList, before their leaders are fetched.
Selected(tab, min_range, max_range) ==
  CASE tab.partition_type = RANGE_PARTITION -> ByRange(tab, min_range, max_range)
    [] tab.partition_type = HASH_PARTITION  -> ByHash(tab, min_range, max_range)
    [] OTHER                                -> AllPartitions(tab)

\* Partition ids to leaders; a partition without one is NO_PARTITION_OR_REPLICA.
getReplicaLocationList(tab, min_range, max_range) ==
  [p \in Selected(tab, min_range, max_range) |-> getReplicaLocation(tab, p)]

(***************************************************************************)
(* The file, as the sequence of the tokens operator>> tells apart.  An     *)
(* empty string is no token.  The number of columns has no space behind    *)
(* it: before a name it can still be read, but without columns and         *)
(* partitions it runs into the table id of the location, 0 and 5 being 05. *)
(***************************************************************************)

Number(n) == <<"number", n>>
Text(w) == <<"word", w>>
Word(w) == IF w = NoName THEN <<>> ELSE <<Text(w)>>
PartitionName == Text("p")   \* "p" with the partition's number

\* The tokens of the elements of a sequence, one after the other.
Each(Write(_), s) ==
  LET upto[i \in 0..Len(s)] == IF i = 0 THEN <<>> ELSE upto[i - 1] \o Write(s[i])
  IN  upto[Len(s)]

WriteColumn(c) == Word(c.name) \o <<Number(c.type)>>
WriteColumns(cols) == <<Number(Len(cols))>> \o Each(WriteColumn, cols)
WritePartition(par) ==
  <<PartitionName, Number(par.p_id), Text(par.min_range), Text(par.max_range)>>
WriteReplica(r) == Word(r.ip_addr) \o <<Number(r.role)>>
WriteLocation(l) ==
  <<Number(l.p_id), Number(Len(l.replicas))>> \o Each(WriteReplica, l.replicas)
WriteTable(tab) ==
  <<Number(tab.oid)>> \o Word(tab.name) \o <<Number(tab.partition_type)>>
    \o Word(tab.partition_key_name)
    \o <<Number(tab.partition_key_type), Number(tab.partition_cnt),
         Number(Len(tab.partitions))>>
    \o (IF tab.columns = <<>> /\ tab.partitions = <<>> THEN <<>> ELSE WriteColumns(tab.columns))
    \o Each(WritePartition, tab.partitions)
    \o <<Number(tab.oid), Number(tab.duplicate_type), Number(Len(tab.table_location))>>
    \o Each(WriteLocation, tab.table_location)

\* The entries of a map in the order its iterator happens to have.
Entries(f) ==
  LET keys == CHOOSE s \in [1..Cardinality(DOMAIN f) -> DOMAIN f] :
                {s[i] : i \in DOMAIN s} = DOMAIN f
  IN  [i \in DOMAIN keys |-> <<keys[i], f[keys[i]]>>]

WriteDb(e) ==   \* a database is written with the name it has in the map
  <<Number(e[2].next_oid), Text(e[1]), Number(Cardinality(DOMAIN e[2].tabs))>>
    \o Each(LAMBDA x : WriteTable(x[2]), Entries(e[2].tabs))
WriteNode(e) ==
  <<Text(e[1]), Text(e[2].ip_addr), Number(e[2].leader_par_cnt), Number(e[2].follower_par_cnt)>>

\* MetaServer's operator<<: databases, then nodes.
WriteMeta(dbs, servers) ==
  <<Number(Cardinality(DOMAIN dbs))>> \o Each(WriteDb, Entries(dbs))
    \o <<Number(Cardinality(DOMAIN servers))>> \o Each(WriteNode, Entries(servers))

(***************************************************************************)
(* Reading.  A reader takes the file and a position and gives a value and  *)
(* the next position, or Failed once the stream is in its failed state.    *)
(***************************************************************************)

Failed == 0
Got(v, i) == [v |-> v, i |-> i]
CanRead(f, i) == i # Failed /\ i <= Len(f)

ReadNumber(f, i) ==
  IF CanRead(f, i) /\ f[i][1] = "number" THEN Got(f[i][2], i + 1) ELSE Got(0, Failed)

\* A string takes whatever comes next, a number too.
ReadWord(f, i) ==
  IF CanRead(f, i) THEN Got(IF f[i][1] = "word" THEN f[i][2] ELSE "digits", i + 1)
  ELSE Got(NoName, Failed)

\* n elements, one after the other.
ReadMany(Read(_, _), f, i, n) ==
  LET upto[k \in 0..n] ==
        IF k = 0 THEN Got(<<>>, i)
        ELSE LET r == Read(f, upto[k - 1].i) IN Got(Append(upto[k - 1].v, r.v), r.i)
  IN  upto[n]

ReadColumn(f, i) ==
  LET name == ReadWord(f, i)
      type == ReadNumber(f, name.i)
  IN  Got([name |-> name.v, type |-> type.v], type.i)
ReadColumns(f, i) ==
  LET size == ReadNumber(f, i) IN ReadMany(ReadColumn, f, size.i, size.v)
ReadPartition(f, i) ==
  LET name == ReadWord(f, i)
      p_id == ReadNumber(f, name.i)
      range == ReadMany(ReadWord, f, p_id.i, 2)
  IN  Got([p_id |-> p_id.v, min_range |-> range.v[1], max_range |-> range.v[2]], range.i)
ReadReplica(f, i) ==
  LET ip == ReadWord(f, i)
      role == ReadNumber(f, ip.i)
  IN  Got([ip_addr |-> ip.v, role |-> role.v], role.i)
ReadLocation(f, i) ==
  LET n == ReadMany(ReadNumber, f, i, 2)
      replicas == ReadMany(ReadReplica, f, n.i, n.v[2])
  IN  Got([p_id |-> n.v[1], replicas |-> replicas.v], replicas.i)
ReadTable(f, i) ==
  LET oid == ReadNumber(f, i)
      name == ReadWord(f, oid.i)
      type == ReadNumber(f, name.i)
      key == ReadWord(f, type.i)
      n == ReadMany(ReadNumber, f, key.i, 3)   \* key type, count, number of partitions
      columns == ReadColumns(f, n.i)
      partitions == ReadMany(ReadPartition, f, columns.i, n.v[3])
      l == ReadMany(ReadNumber, f, partitions.i, 3)   \* oid, duplicate type, size
      location == ReadMany(ReadLocation, f, l.i, l.v[3])
  IN  Got([oid |-> oid.v, name |-> name.v, columns |-> columns.v,
           partition_type |-> type.v, partition_key_name |-> key.v,
           partition_key_type |-> n.v[1], partition_cnt |-> n.v[2],
           partitions |-> partitions.v, duplicate_type |-> l.v[2],
           table_location |-> location.v], location.i)

\* The map of the entries read, the last one of a name winning.
MapOf(pairs) ==
  [k \in {pairs[i][1] : i \in DOMAIN pairs} |->
     pairs[CHOOSE i \in DOMAIN pairs :
             /\ pairs[i][1] = k
             /\ \A j \in DOMAIN pairs : pairs[j][1] = k => j <= i][2]]

ReadDb(f, i) ==
  LET next_oid == ReadNumber(f, i)
      name == ReadWord(f, next_oid.i)
      n == ReadNumber(f, name.i)
      tables == ReadMany(ReadTable, f, n.i, n.v)
  IN  Got(<<name.v, [next_oid |-> next_oid.v,
                     tabs |-> MapOf([j \in DOMAIN tables.v |-> <<tables.v[j].name, tables.v[j]>>])]>>,
          tables.i)

\* Mutated: the counts are read in the wrong order.
ReadNode_Swapped(f, i) ==
  LET names == ReadMany(ReadWord, f, i, 2)
      cnts == ReadMany(ReadNumber, f, names.i, 2)
  IN  Got(<<names.v[1], [ip_addr |-> names.v[2], activate |-> FALSE,
                         leader_par_cnt |-> cnts.v[2], follower_par_cnt |-> cnts.v[1]]>>, cnts.i)

\* A node that is read is not active until it registers again.
ReadNode(f, i) ==
  LET names == ReadMany(ReadWord, f, i, 2)
      cnts == ReadMany(ReadNumber, f, names.i, 2)
  IN  Got(<<names.v[1], [ip_addr |-> names.v[2], activate |-> FALSE,
                         leader_par_cnt |-> cnts.v[1], follower_par_cnt |-> cnts.v[2]]>>, cnts.i)

\* MetaServer's operator>>; Garbled if the stream fails on the way.
Garbled == "garbled"
ReadMeta(f) ==
  LET ndbs == ReadNumber(f, 1)
      dbs == ReadMany(ReadDb, f, ndbs.i, ndbs.v)
      nservers == ReadNumber(f, dbs.i)
      servers == ReadMany(ReadNode, f, nservers.i, nservers.v)
  IN  IF servers.i = Failed THEN [kind |-> Garbled]
      ELSE [kind |-> "read", dbs |-> MapOf(dbs.v), servers |-> MapOf(servers.v)]
=============================================================================
