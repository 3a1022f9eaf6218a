SPECIFICATION Spec
CONSTANTS
  Ids = {m1, m2}
  NoId = NoId
  MaxLocks = 2
  MaxCrashes = 2
  MaxFaults = 2
  AbortTries = 2
  AdminForce = TRUE
  Duplicates = TRUE
INVARIANTS GoldenRule KeysNeverLost PhaseTellsData CommitNeverRefused SeenLoginKeepsClone
PROPERTY WipeOnlyCloned
CHECK_DEADLOCK FALSE
