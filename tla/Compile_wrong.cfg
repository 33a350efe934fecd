CONSTANTS
  Parts = {"scopes", "fields", "flow", "values"}
  IntBits = 3
  LongBits = 4
  Labels = {"A"}
  Fuel = 60
  Programs <- UnreachedStart
  CharWidth = 2
  IntWidth = 4
  LongWidth = 8
  Functions <- Misvalued
  Frames <- VariousFrames
  Answers = {3, 10}
  Offsets = {0, 8, 16, 24}
  MaxNew = 5
  MaxOld = 1
  Names = {"x", "memset"}
  Locals = {"x", "memset"}
  Helpers = {"memset"}
  NoName = "none"
  ReuseKept = TRUE
  MaxSyms = 5
  MaxOpen = 3
  Kinds <- FieldKinds
  Styles <- AllStyles
  LooseZero = TRUE
  MaxFields = 4
SPECIFICATION PartSpec
CHECK_DEADLOCK FALSE
INVARIANT CodeAsMeant
