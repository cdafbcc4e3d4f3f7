CONSTANTS
  Names = {log, archive}
  Existing = {}
  None = None
  QueueMax = 20
  MaxPieces = 4
  MaxReplaced = 1
SPECIFICATION Spec
INVARIANT
  NoLineTwice
CHECK_DEADLOCK FALSE
