SPECIFICATION FairSpec
CONSTANTS
  MaxSessions = 2
  MaxCommands = 4
  MaxDamage = 1
  Shared = TRUE
INVARIANTS
  RepliesInStep
PROPERTIES
  CommandsAnswered
CHECK_DEADLOCK FALSE
