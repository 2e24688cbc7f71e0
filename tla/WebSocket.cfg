SPECIFICATION Spec
CONSTANTS
  Lengths = {2, 5, 17}
  MaxMessages = 2
  BufLength = 15
  SendLength = 8
  Room = 3
  Keep = 2
  ShortMax = 3
  WordMax = 12
INVARIANTS BuffersHold Delivered
PROPERTY ImplementsMessages
CHECK_DEADLOCK FALSE
