SPECIFICATION Spec
CONSTANTS
  Last = 2
  Attempts = 3
  MaxFaults = 3
  Sites <- MCSites
  Earlier <- MCEarlier
INVARIANTS DownloadSurvives AllOrNothing
CHECK_DEADLOCK FALSE
