\* A share of a removed connection.
SPECIFICATION Spec
CONSTANTS
  Downstream = {d1}
  MaxChannelId = 1
  MaxTemplate = 1
  MaxStandardPrefix = 1
  MaxExtendedPrefix = 1
  Target = {easy}
CHECK_DEADLOCK FALSE
INVARIANTS
  NeverPanics
