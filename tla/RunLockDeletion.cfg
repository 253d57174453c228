\* A deletion meets the acquisition of a run just created.
SPECIFICATION Spec
CONSTANTS
  parent = parent
  Tasks = {t1}
  Operators = {o1}
  None = None
  MaxAttempts = 2
  MaxWrites = 1
  MaxRecords = 1
  WorkersStop = TRUE
PROPERTY DeletionExcludesAcquisition
CHECK_DEADLOCK FALSE
