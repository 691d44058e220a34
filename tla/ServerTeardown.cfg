CONSTANTS
  Makes  <- ServerMakes
  Zeroed <- ServerZeroed
  MaxCalls = 4
SPECIFICATION Spec
INVARIANTS Inv MisusesAreKnown OnlyKnownLeaks AllGivenBack
CHECK_DEADLOCK FALSE
