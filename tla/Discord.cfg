CONSTANTS
  Activities = {raid, dungeon}
  Null = Null
  Nothing = Nothing
  MaxRequests = 3
  MaxDrops = 3
  MaxPings = 1
SPECIFICATION Spec
INVARIANTS
  TypeOK
  AlwaysReconnecting
  ReadyOnThisConnection
  PendingIsAwaited
  NewestIsKept
  ShownIsNewest
  NoTornFrames
  OneUpdatePerInterval
PROPERTY
  PendingIsWritten
CHECK_DEADLOCK FALSE
