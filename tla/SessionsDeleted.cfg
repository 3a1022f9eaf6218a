SPECIFICATION Spec
CONSTANTS
  Ids = {s1}
  Requests = {r1}
  NoHolder = NoHolder
  MaxRequests = 1
  MaxClients = 1
  MaxDevices = 1
  MaxFaults = 0
  MaxLocks = 0
INVARIANT DeletedIsOff
CHECK_DEADLOCK FALSE
