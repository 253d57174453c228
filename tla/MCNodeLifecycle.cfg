\* Every request, and the records of one run while it is read.
SPECIFICATION StoredSpec
CONSTANTS
  left = left
  right = right
  join = join
  tail = tail
  None = None
  Tasks <- MCTasks
  Needs <- MCNeeds
  Asked <- MCAsked
  Requests <- MCRequests
  Followed <- MCFollowed
  Profiles = {"worker", "reviewer"}
  MaxTasks = 4
  MaxNeeds = 2
  MaxConcurrency = 2
  MaxPayload = 2
  MaxRounds = 1
  MaxCommands = 1
  MaxRecord = 5
INVARIANTS SettledFrontierProgresses ReaderAgrees SpendNeverHidden AdmittedIsRunnable
PROPERTY SettlementIsOrderFree
SYMMETRY MCSymmetry
CHECK_DEADLOCK FALSE
