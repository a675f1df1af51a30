SPECIFICATION FairSpec
CONSTANTS
  h1 = h1
  h2 = h2
  Threads = {h1, h2}
  Dbs = {"d"}
  Tables = {"x"}
  Servers = {"s"}
  Ip <- OwnIp
  Hash <- MCHash
  ColumnLists = {}
  PartitionRequests <- One
  Updates = TRUE
  Saves = TRUE
  MaxDms = 2
  MaxTms = 1
  MaxNodes = 1
INVARIANTS TypeOK LatchesSound ReadersSeeWholeTables
PROPERTIES FileReadsBack LookupReturns
