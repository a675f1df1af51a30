SPECIFICATION FairSpec
CONSTANTS
  Workers = {w1, w2}
  Sizes = {1, 2}
  BufferSize = 4
  MaxLsn = 5
INVARIANTS TypeOK PersistentUnlessFailed BufferNotOverrun
PROPERTIES ImplementsDurableLog AppendsProgress FlushReturns
