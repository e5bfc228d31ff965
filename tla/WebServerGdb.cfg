SPECIFICATION FairSpec
CONSTANTS
  Clients = {c1}
  MaxRequests = 2
  MaxConnects = 1
  MaxGdb = 2
INVARIANTS
  StoppedOnlyAlone
PROPERTIES
  PauseAnswered
