CONSTANTS
  Parts = {"scopes", "fields", "flow", "values", "squeeze"}
  IntBits = 3
  LongBits = 4
  Labels = {"A"}
  Fuel = 60
  Programs <- RegularFunctions
  CharWidth = 2
  IntWidth = 4
  LongWidth = 8
  Functions <- RegularExpressions
  Frames <- VariousFrames
  Answers = {3, 10}
  Offsets = {0, 8, 16, 24}
  MaxNew = 5
  MaxOld = 1
  Names = {"x", "memset"}
  Locals = {"x"}
  Helpers = {"memset"}
  NoName = "none"
  ReuseKept = FALSE
  MaxSyms = 5
  MaxOpen = 3
  Kinds <- FieldKinds
  Styles <- AllStyles
  LooseZero = FALSE
  MaxFields = 4
SPECIFICATION PartSpec
CHECK_DEADLOCK FALSE
INVARIANT FlowLands
INVARIANT FlowAsMeant
INVARIANT ValuesHold
INVARIANT NamesAsMeant
INVARIANT SymbolsLive
INVARIANT FieldsSound
INVARIANT SqueezeKeepsPlaces
INVARIANT SqueezeReduces
PROPERTY SqueezeStops
