CONSTANTS
  Commands <- AllCommands
  Links <- AllLinks
  Parts = {"load"}
  Dlls = {1, 2}
  Exportable <- Names
  Ordinals = {0, 7}
  Referable <- Refs
  LeadingUnderscore = FALSE
  TextSize = 8
  MaxExports = 2
  MaxRefs = 3
  Programs <- SharedReference
  OnceNames = {".gnu.linkonce.t.f"}
  MaxLoads = 6
  Images <- AllImages
  Span = 4
SPECIFICATION PartSpec
CHECK_DEADLOCK FALSE
INVARIANT RelocsFollow
