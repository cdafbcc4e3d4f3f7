CONSTANTS
  MaxRuns = 2
  MaxCrashes = 0
SPECIFICATION Spec
INVARIANT
  EndedRunsHaveARow
CHECK_DEADLOCK FALSE
