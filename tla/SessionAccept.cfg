SPECIFICATION Spec
CONSTANTS
  Faults = {"link"}
INVARIANTS
  AcceptFailureReported
CHECK_DEADLOCK FALSE
