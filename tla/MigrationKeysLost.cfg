SPECIFICATION Spec
CONSTANTS
  Ids = {m1, m2}
  NoId = NoId
  MaxLocks = 2
  MaxCrashes = 1
  MaxFaults = 1
  AbortTries = 2
  AdminForce = FALSE
  Duplicates = FALSE
INVARIANT ErasedMeansArrived
CHECK_DEADLOCK FALSE
