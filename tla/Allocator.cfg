SPECIFICATION Spec
CONSTANTS
  WordBits = 2
  BitLimit = 4
  Region = {A, B}
  Bin = {0, 1}
  BinPages <- MCBinPages
  CounterMod = 8
  PageBytes = 6
  BinBytes <- MCBinBytes
  BinCount <- MCBinCount
  SmallMax = 4
  RoundMask = 3
  HugeHeader = 2
  Sizes = {2, 6, 13, 19}
  MaxLive = 2
SYMMETRY Areas
INVARIANTS TypeOK RunsBacked RunsDisjoint ChunksSeparate Accounting
PROPERTIES ImplementsHeap
CHECK_DEADLOCK FALSE
