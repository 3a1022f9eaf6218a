SPECIFICATION Spec
CONSTANTS
  Clients = {q1, q2}
  Dialer = q1
  NoOwner = NoOwner
  MaxEvents = 1
  MaxRequests = 1
INVARIANT EndedFreesOwner
CHECK_DEADLOCK FALSE
