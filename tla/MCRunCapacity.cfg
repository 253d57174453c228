\* More creators than slots, with limits of their own, and one operator.
SPECIFICATION Spec
CONSTANTS
  Creators = {c1, c2, c3}
  Deleters = {d1}
  None = None
  MaxRuns = 2
  CreatorsGone = TRUE
SYMMETRY Interchangeable
INVARIANTS CapacityBound RetainedHoldsSlot StrandedByInterruption
CHECK_DEADLOCK FALSE
