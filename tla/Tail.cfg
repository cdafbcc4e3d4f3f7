CONSTANTS
  Names = {log, archive}
  Existing = {log}
  None = None
  QueueMax = 4
  MaxPieces = 5
  MaxReplaced = 1
SPECIFICATION Spec
INVARIANTS
  TypeOK
  NothingMissedWhenIdle
PROPERTIES
  LogsAreTailed
  TailCatchesUp
CHECK_DEADLOCK FALSE
