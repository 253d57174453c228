\* A child that writes three lines, in up to two turns that tell their usage.
SPECIFICATION FairSpec
CONSTANTS
  None = None
  MaxLines = 3
  MaxSpend = 2
  MaxProgress = 3
INVARIANTS SpendExact VerdictIsReport TreeCollected EndIsObserved
PROPERTY StopSettles
CHECK_DEADLOCK FALSE
