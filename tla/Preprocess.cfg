CONSTANTS
  main = main
  h = h
  g = g
  A = A
  B = B
  NoMacro = NoMacro
  Files = {main, h, g}
  Macros = {A, B}
  Programs <- IncludedHeaders
  Units <- IncludingUnits
  MaxDepth = 3
  MaxIfs = 3
  MacroSets <- PairsOfMacros
  Parts = {"include", "expand", "define"}
  X = X
  BuiltIn = BuiltIn
  Names = {X, BuiltIn}
  Builtins = {BuiltIn}
  Bodies = {1, 2}
  NoBody = NoBody
  MaxStack = 4
  MaxFiles = 2
SPECIFICATION PartSpec
CHECK_DEADLOCK FALSE
INVARIANT IncludedText
INVARIANT IncludeAsUncached
INVARIANT IncludeGuards
INVARIANT IncludeConditionals
INVARIANT TextAsMeant
INVARIANT StackBalanced
INVARIANT MacrosAsMeant
INVARIANT NoDangling
