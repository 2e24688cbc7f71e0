SPECIFICATION FairSpec
CONSTANTS
  Obj = {1, 2, 3, 4}
  Atom = {x}
  Holder = {p, q}
  MaxLen = 2
INVARIANTS CountsExact NothingLost
PROPERTIES ImplementsHolders FreeEnds
CHECK_DEADLOCK FALSE
