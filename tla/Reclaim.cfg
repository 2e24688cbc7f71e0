SPECIFICATION FairSpec
CONSTANTS
  WordBits = 2
  BitLimit = 3
  Region = {A, B}
  Bin = {0, 1}
  BinPages <- MCBinPages
  CounterMod = 4
  PageBytes = 6
  BinBytes <- MCBinBytes
  BinCount <- MCBinCount
  SmallMax = 4
  RoundMask = 3
  HugeHeader = 2
  Sizes = {2, 4, 6}
  MaxLive = 4
INVARIANTS SmallBlocksBacked NoBlockTwice
PROPERTIES ImplementsPages CallsEnd
CHECK_DEADLOCK FALSE
