SPECIFICATION Spec
CONSTANTS
  W = 4
  Len0 = 3
INVARIANTS MasksAgree FindsFirst HighbitRight
