SPECIFICATION FairSpec
CONSTANTS
  t1 = t1
  t2 = t2
  t3 = t3
  c1 = c1
  c2 = c2
  c3 = c3
  c4 = c4
  a = a
  b = b
  Txns = {t1, t2, t3}
  Threads = {t1, t2, t3}
  TxnOf <- OwnThread
  Tables = {}
  Partitions = {}
  Rows = {a, b}
  AskedModes <- ReadOrWriteA
  NoWait = FALSE
INVARIANTS GrantedCompatible UpgradingMeansUpgrade
PROPERTIES LockCallReturns GrantOnlyWhileGrowing
