SPECIFICATION Spec
CONSTANTS
  Obj = {1, 2, 3}
  Var = {p, q}
  Literal <- MCLiteral
  MinLength = 1
  Page = 3
  CacheMax = 1
  HashRange = 256
  MaxLen = 3
INVARIANTS OwnersCounted HashHonest RoomEnough CacheExact
PROPERTIES ImplementsTexts
CHECK_DEADLOCK FALSE
SYMMETRY Alike
