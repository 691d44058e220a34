CONSTANTS
  Threads = {t1, t2}
  Providers = {p1}
  V1Providers = {}
  MaxChanges = 2
  Faults = {"call", "note", "rearm", "memory"}
SPECIFICATION Spec
PROPERTY UpdatesEnd
CHECK_DEADLOCK FALSE
