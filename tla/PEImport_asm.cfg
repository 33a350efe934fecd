CONSTANTS
  Dlls = {1, 2}
  Exportable <- Names
  Ordinals = {0, 7}
  Referable <- AsmRefs
  LeadingUnderscore = FALSE
  TextSize = 8
  MaxExports = 1
  MaxRefs = 1
SPECIFICATION Spec
CHECK_DEADLOCK FALSE
INVARIANT AsmCallsReachCode
