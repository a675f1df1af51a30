SPECIFICATION Spec
CONSTANTS
  Threads = {h1}
  Keys = {x, y}
  Values = {v}
  TableSpace = 1
  MaxNo = 3
SYMMETRY Symmetric
INVARIANT ResetClears
