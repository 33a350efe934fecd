CONSTANTS
  a = a
  b = b
  c = c
  d = d
  u = u
  NoEntry = NoEntry
  Names = {a, b, c}
  Unnamed = a
  Pays = {0, 1, 2}
  Handed <- RefsOnly
  Emitted <- None
  Patched <- None
  Hash <- SpreadHash
  MaxSyms = 3
  Referred = {}
  MaxRelocs = 0
  MaxGiven = 4
  DynTable = FALSE
SPECIFICATION Spec
CHECK_DEADLOCK FALSE
INVARIANT StrongRefKept
