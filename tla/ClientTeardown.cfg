CONSTANTS
  Makes  <- ClientRegisters
  Zeroed = {}
  MaxCalls = 4
SPECIFICATION FairSpec
INVARIANTS Inv MisusesAreKnown BufferIsFree OnlyKnownLeaks
PROPERTY Returns
CHECK_DEADLOCK FALSE
