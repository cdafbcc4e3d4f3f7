CONSTANTS
  Names = {log, archive}
  Existing = {log}
  None = None
  QueueMax = 20
  MaxPieces = 4
  MaxReplaced = 1
SPECIFICATION Spec
INVARIANT
  MovedLogsAreRead
CHECK_DEADLOCK FALSE
