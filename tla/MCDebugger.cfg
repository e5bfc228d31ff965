SPECIFICATION DSpec
CONSTANTS
  Programs <- DebuggedPrograms
  DataMems <- NoData
  PinLevels = {FALSE}
  MaxCycles = 300
  MaxResets = 1
  Addresses = {2, 3}
  StepCounts = {1, 4}
  BatchSize = 16
  MaxTotal = 60
  MaxCommands = 4
INVARIANTS DrainedWhenHalted
PROPERTIES BreakpointsHaltSequence WatchedAccessStops StepsMove HaltedStands ContinueEnds
CHECK_DEADLOCK FALSE
