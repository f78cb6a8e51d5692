SPECIFICATION Spec
CONSTANTS
  MaxEvents = 3
INVARIANTS
  SummaryIsComplete
  TerminalIsRestored
  CancelHasCause
PROPERTIES
  RunEnds
  CancelClosesDisplay
CHECK_DEADLOCK FALSE
