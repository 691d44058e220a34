CONSTANTS
  Threads = {t1, t2, t3, t4}
  Faults = {"heap", "memory", "init"}
SPECIFICATION Spec
INVARIANTS Inv CallsMeetAFramework AssertsHold
PROPERTIES CountsItsUsers LockIsReturned
CHECK_DEADLOCK FALSE
