SPECIFICATION FairSpec
CONSTANTS
  Ids = {s1}
  Requests = {r1, r2}
  NoHolder = NoHolder
  MaxRequests = 2
  MaxClients = 2
  MaxDevices = 2
  MaxFaults = 1
  MaxLocks = 1
INVARIANT OpenSurvivesRestart
PROPERTY MigrationQuiet
CHECK_DEADLOCK FALSE
