CONSTANTS
  a = a
  b = b
  c = c
  d = d
  u = u
  NoEntry = NoEntry
  Names = {a, b}
  Unnamed = b
  Pays = {0, 1, 2}
  Handed <- Everything
  Emitted <- References
  Patched <- LaterDefinitions
  Hash <- SpreadHash
  MaxSyms = 3
  Referred = {a, b}
  MaxRelocs = 1
  MaxGiven = 4
  DynTable = FALSE
SPECIFICATION InScenes
CHECK_DEADLOCK FALSE
INVARIANT ReadsIntact
INVARIANT TrKeepsSymbol
INVARIANT RelocsKeepName
PROPERTY EntriesOnlyStrengthen
PROPERTY ImplementsSymbolTable
INVARIANT OrderFree
INVARIANT ClashReported
