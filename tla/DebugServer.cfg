SPECIFICATION FairSpec
CONSTANTS
  MaxRequests = 5
  CycleMod = 2
INVARIANTS StoppedOnlyAlone
PROPERTIES AssuredStandsStill ImplementsSession RequestsAnswered StopsAreHeard
CHECK_DEADLOCK FALSE
