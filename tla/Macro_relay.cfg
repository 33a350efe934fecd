CONSTANTS
  main = main
  h = h
  g = g
  A = A
  B = B
  NoMacro = NoMacro
  Files = {main, h, g}
  Macros = {A, B}
  Programs <- IncludedHeaders
  Units <- IncludingUnits
  MaxDepth = 3
  MaxIfs = 3
  MacroSets <- Relays
  Parts = {"expand"}
  X = X
  BuiltIn = BuiltIn
  Names = {X, BuiltIn}
  Builtins = {BuiltIn}
  Bodies = {1, 2}
  NoBody = NoBody
  MaxStack = 4
  MaxFiles = 2
SPECIFICATION PartSpec
CHECK_DEADLOCK FALSE
INVARIANT TextAsMeant
