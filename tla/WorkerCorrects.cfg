\* A child that calls its report beside another tool, is rejected, and corrects it.
SPECIFICATION Spec
CONSTANTS
  None = None
  MaxLines = 4
  MaxSpend = 0
  MaxProgress = 1
INVARIANT CorrectedReportCounts
CHECK_DEADLOCK FALSE
