SPECIFICATION Spec
CONSTANTS
  Clients = {c1, c2}
  MaxLogical = 2
  MaxRetry = 2
  Word = 64
  IntHalf = 2
  Uninit = {0, 1}
  MaxClock = 3
  MaxPhysical = 4
  MaxDraw = 4
SYMMETRY ClientSymmetry
INVARIANT TypeOK
PROPERTIES FreshAndIncreasing
