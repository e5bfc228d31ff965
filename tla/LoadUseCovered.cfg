SPECIFICATION MCSpec
CONSTANTS
  Kinds = {"memory"}
  Programs <- MCPrograms
  DataMems <- SomeData
  PinLevels = {FALSE}
  MaxCycles = 14
  Discipline = {"link", "hiLo", "moveToHiLo", "branchInSlot", "exceptionRegs",
                "quietDecode"}
PROPERTY ImplementsISA
CHECK_DEADLOCK FALSE
