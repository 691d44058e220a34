SPECIFICATION FairSpec
CONSTANTS
  Depth = 3
  MaxBatch = 5
  MaxCalls = 3
INVARIANTS
  Inv
  NoOverrun
  OkMeansLanded
  OkLeavesNothingInFlight
PROPERTIES
  CleanReadReturns
CHECK_DEADLOCK FALSE
