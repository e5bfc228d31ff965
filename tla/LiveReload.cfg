SPECIFICATION FairReloadSpec
CONSTANTS
  Browsers = {c1, c2}
  MaxEdits = 2
  Chunks <- SomeChunks
INVARIANTS PagesAreWhole
PROPERTIES EditsArrive StalePagesReload
CHECK_DEADLOCK FALSE
