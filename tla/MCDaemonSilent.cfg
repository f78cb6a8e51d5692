SPECIFICATION Spec
CONSTANTS
  TERM = TERM
  INT = INT
  Modes = {"wait"}
  Pidfiles = {TRUE}
  Signals <- TermSignals
PROPERTIES
  SilentDeathIsNoticed
CHECK_DEADLOCK FALSE
