SPECIFICATION Spec
CONSTANTS
  h1 = h1
  h2 = h2
  Threads = {h1, h2}
  Dbs = {"d"}
  Tables = {"x", "y"}
  Servers = {"s1", "s2"}
  Ip <- OwnIp
  Hash <- MCHash
  ColumnLists <- Columns
  PartitionRequests <- Mixed
  Updates = FALSE
  Saves = FALSE
  MaxDms = 1
  MaxTms = 2
  MaxNodes = 3
SYMMETRY Symmetric
INVARIANTS OidsUnique LookupCovers DistinctReplicas LeaderLoadExact
