SPECIFICATION Spec
CONSTANTS
  Calls = {c1}
  Workers = {w1}
  NoCall = NoCall
  Recoveries = {r1, r2}
  QueueCap = 1
  MaxAttempts = 1
  MaxPauses = 1
  MaxCrashes = 1
  MaxFaults = 1
PROPERTIES SalvagedOnceIsFinal
CHECK_DEADLOCK FALSE
