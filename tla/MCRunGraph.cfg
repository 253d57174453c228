\* One graph under every interleaving of its executions, an abort, a forced
\* release, a refused store call and a crash.
SPECIFICATION FairSpec
CONSTANTS
  left = left
  right = right
  join = join
  root = root
  alone = alone
  NoTask = NoTask
  Concurrency = 2
  Tasks <- MCTasks
  Needs <- MCNeeds
INVARIANTS NeverMisschedules ResultIsTrue ReleaseWaitsForExecutions
PROPERTIES NoStartAfterAbort RecordsFollowProtocol RunEnds
CHECK_DEADLOCK FALSE
