SPECIFICATION Spec
CONSTANTS
  Key <- MCKey
  Val = {x, y}
  MinSize = 2
  MaxSize = 8
  MaxMerge = 1
  MaxSysSize = 4
INVARIANTS ChainsExact FrozenKept
PROPERTY ImplementsMap
