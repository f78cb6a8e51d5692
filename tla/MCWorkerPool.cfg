SPECIFICATION Spec
CONSTANTS
  MaxFiles = 3
  Requested = 0
  Cores = 3
  Display = "Tui"
  Outcomes <- AllOutcomes
  SpawnMayFail = TRUE
INVARIANTS
  OkIsComplete
  FinishIsLast
  FinishIsSent
  ResultHasCause
PROPERTIES
  CancelIsNotLost
  BatchSpec
