SPECIFICATION FairSpec
CONSTANTS
  Ids = {m1, m2}
  NoId = NoId
  MaxLocks = 2
  MaxCrashes = 2
  MaxFaults = 0
  AbortTries = 2
  AdminForce = TRUE
  Duplicates = TRUE
PROPERTIES CustodySpec MigrationEnds CommitReachesSource
CHECK_DEADLOCK FALSE
