CONSTANTS
  MaxRuns = 3
  MaxCrashes = 1
SPECIFICATION Spec
INVARIANTS
  TypeOK
  OneRowPerRun
  SettledRowsAreTrue
  InProgressRowsAreLive
PROPERTY
  LiveRunGetsARow
CHECK_DEADLOCK FALSE
