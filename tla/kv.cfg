SPECIFICATION Spec
CONSTANTS
  Threads = {h1, h2}
  Keys = {x, y}
  Values = {v}
  TableSpace = 1
  MaxNo = 3
SYMMETRY Symmetric
INVARIANTS TypeOK OnDiskSound OnceWrittenReadBack
