\* The parent and two workers, and an operator who forces, deletes and takes over.
SPECIFICATION FairSpec
CONSTANTS
  parent = parent
  Tasks = {t1, t2}
  Operators = {o1}
  None = None
  MaxAttempts = 3
  MaxWrites = 1
  MaxRecords = 1
  WorkersStop = TRUE
INVARIANTS ExclusiveSection MutationUnderOwnership PublicationUnderOwner RobbedOnlyAtRelease
PROPERTY ParentTerminates
CHECK_DEADLOCK FALSE
