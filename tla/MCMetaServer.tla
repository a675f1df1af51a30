---------------------------- MODULE MCMetaServer ----------------------------
(* Small instances of MetaServer. *)
EXTENDS MetaServer, TLC
CONSTANTS h1, h2
OwnIp == [s \in Servers |-> s]
MCHash(k) == k + 1
Column == [name |-> "c", type |-> TYPE_INT]
Columns == {<<Column>>}
Request(type, key, range, replicas) ==
  [partition_type |-> type, partition_key_type |-> key, partition_cnt |-> 2,
   range |-> range, has_replica |-> TRUE, replica_cnt |-> replicas, columns |-> <<Column>>]
TwoRanges == << [min_range |-> 0, max_range |-> 1], [min_range |-> 2, max_range |-> 2] >>
Mixed == {Request(RANGE_PARTITION, TYPE_FLOAT, TwoRanges, 2),
          Request(HASH_PARTITION, TYPE_STRING, TwoRanges, 1),
          Request(HASH_PARTITION, TYPE_INT, <<>>, 2)}
One == {Request(RANGE_PARTITION, TYPE_FLOAT, TwoRanges, 1)}
Symmetric == Permutations({h1, h2})
=============================================================================
