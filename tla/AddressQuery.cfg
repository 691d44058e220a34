CONSTANTS
  MaxList = 2
  MaxChanges = 1
  Offered = {0, 24, 40, 52, 72, 84, 200}
  IntMax = 3
SPECIFICATION Spec
INVARIANTS Inv AnswerIsWhole
PROPERTY CallerGetsAnswer
CHECK_DEADLOCK FALSE
