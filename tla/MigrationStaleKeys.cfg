SPECIFICATION Spec
CONSTANTS
  Ids = {m1, m2}
  NoId = NoId
  MaxLocks = 2
  MaxCrashes = 1
  MaxFaults = 0
  AbortTries = 2
  AdminForce = FALSE
  Duplicates = FALSE
INVARIANT NotedLoginKeepsClone
CHECK_DEADLOCK FALSE
