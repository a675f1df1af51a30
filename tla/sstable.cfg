SPECIFICATION Spec
CONSTANTS
  MaxKey = 6
  ValueSizes = {0, 2}
  Word = 1
  BLOCK_SPACE = 15
  RESTART_INTERVAL = 2
  CompressedSizes = {1, 2}
INVARIANTS FileIsMemtable BlocksContiguous RestartsUsable
CHECK_DEADLOCK FALSE
