SPECIFICATION FairSpec
CONSTANTS
  Node = {n1, n2, n3, n4}
  Value = {x, y}
INVARIANT WellLinked
PROPERTIES ImplementsList InPlace FreeEmpties
