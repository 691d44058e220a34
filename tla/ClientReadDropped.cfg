SPECIFICATION Spec
CONSTANTS
  Depth = 2
  MaxBatch = 5
  MaxCalls = 1
INVARIANTS
  FailedChunkIsReported
CHECK_DEADLOCK FALSE
