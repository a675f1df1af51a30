SPECIFICATION Spec
CONSTANTS
  t1 = t1
  t2 = t2
  t3 = t3
  c1 = c1
  c2 = c2
  c3 = c3
  c4 = c4
  a = a
  b = b
  Txns = {t1, t2}
  Threads = {c1, c2, c3, c4}
  TxnOf <- SharedThread
  Tables = {}
  Partitions = {a}
  Rows = {b}
  AskedModes <- ReadOrWriteA
  NoWait = FALSE
PROPERTY ConflictsOnlyByOrphans
CHECK_DEADLOCK FALSE
SYMMETRY TxnSymmetry
