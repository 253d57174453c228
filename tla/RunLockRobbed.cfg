\* The parent's release of its hold meets an operator's call.
SPECIFICATION Spec
CONSTANTS
  parent = parent
  Tasks = {t1}
  Operators = {o1}
  None = None
  MaxAttempts = 2
  MaxWrites = 1
  MaxRecords = 1
  WorkersStop = TRUE
INVARIANT NobodyRobbed
CHECK_DEADLOCK FALSE
