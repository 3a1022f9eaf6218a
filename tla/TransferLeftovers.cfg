SPECIFICATION Spec
CONSTANTS
  Last = 2
  Attempts = 3
  MaxFaults = 0
  Sites <- MCSites
  Earlier <- NoEarlier
INVARIANT NothingLeft
CHECK_DEADLOCK FALSE
