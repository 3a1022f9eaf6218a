SPECIFICATION RecorderFairSpec
CONSTANTS
  Legs = {op, peer}
  MaxFrames = 3
  MaxPending = 2
  Chunk = 1
  MaxFed = 3
  MaxTime = 4
INVARIANT Faithful
PROPERTY CloseReturns
CHECK_DEADLOCK FALSE
