CONSTANTS
  N = 3
  OfV1 = {1, 3}
  MaxAddrs = 2
  MaxMoves = 1
  Faults = {"heap", "call", "memory"}
SPECIFICATION GatherSpec
INVARIANTS GatherInv ListsAreComplete
CHECK_DEADLOCK FALSE
