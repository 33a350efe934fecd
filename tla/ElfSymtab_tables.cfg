CONSTANTS
  a = a
  b = b
  c = c
  d = d
  u = u
  NoEntry = NoEntry
  Names = {a, b, c, d, u}
  Unnamed = c
  Pays = {0, 1, 2}
  Handed <- OneLocal
  Emitted <- OneDefinition
  Patched <- None
  Hash <- SpreadHash
  MaxSyms = 5
  Referred = {u}
  MaxRelocs = 1
  MaxGiven = 1
  DynTable = FALSE
SPECIFICATION FairSpec
CHECK_DEADLOCK FALSE
INVARIANT TypeOK
INVARIANT ChainsExact
INVARIANT OnePerName
PROPERTY LoopsEnd
