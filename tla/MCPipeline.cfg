SPECIFICATION Spec
CONSTANTS
  Programs <- ExceptionPrograms
  DataMems <- SomeData
  PinLevels = {TRUE, FALSE}
  MaxCycles = 11
INVARIANTS TypeOK BubblesAreInert ReturnAddressIsCurrent StallsAreShort
PROPERTIES FetchedIsDecoded TransfersRedirect
CHECK_DEADLOCK FALSE
