SPECIFICATION Spec
CONSTANTS
  Clients = {q1, q2}
  Dialer = q1
  NoOwner = NoOwner
  MaxEvents = 1
  MaxRequests = 2
INVARIANT OneClaim
CHECK_DEADLOCK FALSE
