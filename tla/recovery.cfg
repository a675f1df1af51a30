SPECIFICATION FairSpec
CONSTANTS
  t1 = t1
  t2 = t2
  x = x
  y = y
  v = v
  Txns = {t1, t2}
  Keys = {x, y}
  Values = {v}
  BufferSize = 3
  MaxLsn = 5
  MaxCrashes = 2
INVARIANTS TypeOK RecoveredState LsnsConsecutive
PROPERTIES RecoveryEnds
CHECK_DEADLOCK FALSE
