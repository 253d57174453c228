\* Every policy of up to two check rounds and two reviews; a check of two commands.
SPECIFICATION FairSpec
CONSTANTS
  None = None
  Passed = Passed
  Uncounted = Uncounted
  Commands = 2
  MaxCount = 2
  MaxRounds = 2
  MaxRuns = 2
  MaxReviews = 2
  MaxUse = 1
  Limit = 2
INVARIANTS SuccessIsJudged SpendExact OneLife
PROPERTIES LiveNeverFalls CycleEnds
CHECK_DEADLOCK FALSE
