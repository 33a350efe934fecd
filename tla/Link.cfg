CONSTANTS
  Commands <- AllCommands
  Links <- AllLinks
  Parts = {"import", "load", "image", "drive"}
  Dlls = {1, 2}
  Exportable <- Names
  Ordinals = {0, 7}
  Referable <- Refs
  LeadingUnderscore = FALSE
  TextSize = 8
  MaxExports = 2
  MaxRefs = 3
  Programs <- LinkedFiles
  OnceNames = {".gnu.linkonce.t.f"}
  MaxLoads = 6
  Images <- AllImages
  Span = 4
SPECIFICATION PartSpec
CHECK_DEADLOCK FALSE
INVARIANT ImportsReach
INVARIANT ImportsFailRightly
INVARIANT ImportSlots
INVARIANT ImportOwner
INVARIANT RelocsFollow
INVARIANT MembersAsNeeded
INVARIANT ImageSound
INVARIANT SuccessIsComplete
INVARIANT FailureIsLast
INVARIANT CleanImages
INVARIANT TestsInOrder
PROPERTY LinkingEnds
