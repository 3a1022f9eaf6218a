SPECIFICATION FairSpec
CONSTANTS
  Clients = {q1, q2}
  Dialer = q1
  NoOwner = NoOwner
  MaxEvents = 1
  MaxRequests = 1
INVARIANTS ReservationFollowsCall LiveIsRegistered EndedOnce
PROPERTIES EndedIsFinal RingingEnds EndedLeavesPanel
CHECK_DEADLOCK FALSE
