CONSTANTS
  Offsets = {0, 8, 16, 24}
  MaxNew = 4
  MaxOld = 0
SPECIFICATION Spec
CHECK_DEADLOCK FALSE
INVARIANT ReducesAll
