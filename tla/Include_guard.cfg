CONSTANTS
  main = main
  h = h
  g = g
  A = A
  B = B
  NoMacro = NoMacro
  Files = {main, h, g}
  Macros = {A, B}
  Programs <- BorrowedGuards
  Units <- OneUnit
  MaxDepth = 3
  MaxIfs = 3
SPECIFICATION Spec
CHECK_DEADLOCK FALSE
INVARIANT GuardsSound
