CONSTANTS
  t1 = t1 t2 = t2 p1 = p1 p2 = p2
  Threads = {t1, t2}
  Providers = {p1, p2}
  V1Providers = {}
  MaxChanges = 2
  Faults = {"call", "note", "rearm"}
SPECIFICATION Spec
INVARIANTS Inv NothingIsMissed CodeStaysLoaded
PROPERTY AnotherProviderIsTried
CHECK_DEADLOCK FALSE
SYMMETRY Symmetry
