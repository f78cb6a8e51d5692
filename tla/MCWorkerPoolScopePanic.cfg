SPECIFICATION Spec
CONSTANTS
  MaxFiles = 3
  Requested = 2
  Cores = 3
  Display = "Tui"
  Outcomes <- AllOutcomes
  SpawnMayFail = FALSE
INVARIANT PanicIsReported
