SPECIFICATION MCSpec
CONSTANTS
  Programs <- NoProgram
  DataMems <- NoData
  PinLevels = {FALSE, TRUE}
  MaxCycles = 26
  MaxResets = 1
  MaxDetour = 1
  Files <- AllFiles
INVARIANTS TimeIsAccountedFor ReplayFollows TransfersArrive VariableIsRead
PROPERTY NoStaleResults
CHECK_DEADLOCK FALSE
