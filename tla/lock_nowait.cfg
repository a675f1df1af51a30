SPECIFICATION Spec
CONSTANTS
  t1 = t1
  t2 = t2
  t3 = t3
  c1 = c1
  c2 = c2
  c3 = c3
  c4 = c4
  a = a
  b = b
  Txns = {t1, t2}
  Threads = {t1, t2}
  TxnOf <- OwnThread
  Tables = {a}
  Partitions = {}
  Rows = {b}
  AskedModes <- AllModes
  NoWait = TRUE
INVARIANTS TypeOK LockSetsBacked GrantsRecorded AcquiredStaysProtected
PROPERTIES TwoPhaseLocking
