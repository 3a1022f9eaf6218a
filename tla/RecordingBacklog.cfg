SPECIFICATION BacklogSpec
CONSTANTS
  Calls = {c1, c2}
  Workers = {w1, w2}
  NoCall = NoCall
  Recoveries = {r1}
  QueueCap = 1
  MaxAttempts = 2
  MaxPauses = 0
  MaxCrashes = 0
  MaxFaults = 0
INVARIANTS OneWorkerPerCall
PROPERTIES HandoffEnds
CHECK_DEADLOCK FALSE
