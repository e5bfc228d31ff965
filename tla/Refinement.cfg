SPECIFICATION MCSpec
CONSTANTS
  Kinds = {"control", "memory", "hilo", "handler"}
  Programs <- MCPrograms
  DataMems <- SomeData
  PinLevels = {FALSE, TRUE}
  MaxCycles = 18
  Discipline = {"loadUse", "link", "hiLo", "moveToHiLo", "branchInSlot", "exceptionRegs",
                "quietDecode"}
PROPERTY ImplementsISA
CHECK_DEADLOCK FALSE
