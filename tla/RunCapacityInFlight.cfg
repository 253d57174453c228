\* A creation meets the deletion of the slot it just claimed.
SPECIFICATION Spec
CONSTANTS
  Creators = {c1, c2}
  Deleters = {d1}
  None = None
  MaxRuns = 1
  CreatorsGone = FALSE
INVARIANT RetainedHoldsSlot
CHECK_DEADLOCK FALSE
