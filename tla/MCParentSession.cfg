\* A session with one edit and one mishap, two calls of a graph of two tasks, a ceiling or none.
SPECIFICATION Spec
CONSTANTS
  Broken = Broken
  None = None
  Profiles = {p, q}
  MaxCost = 1
  MaxMishaps = 1
  MaxEdits = 1
  Own = Own
  Orchestrator = Orchestrator
  Calls = {c1, c2}
  Tasks = {a, b}
  MaxUse = 1
  MaxUpdates = 1
  MaxBytes = 6
  Shapes <- MCShapes
INVARIANTS ToolsFollowMode ModelReturns RecordIsMode OneGraph BudgetStops ReportFits DivergenceEnds
SYMMETRY Symmetry
CHECK_DEADLOCK FALSE
