SPECIFICATION FairSpec
CONSTANTS
  Calls = {c1}
  Workers = {w1}
  NoCall = NoCall
  Recoveries = {r1, r2}
  QueueCap = 1
  MaxAttempts = 1
  MaxPauses = 1
  MaxCrashes = 1
  MaxFaults = 1
INVARIANTS AudioNotLost NotifiedMeansStored PauseQuiesces
PROPERTIES DeliveredIsFinal RecordingCloses
CHECK_DEADLOCK FALSE
