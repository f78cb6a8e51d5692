SPECIFICATION Spec
CONSTANTS
  TERM = TERM
  INT = INT
  Modes <- AllModes
  Pidfiles = {TRUE, FALSE}
  Signals <- TermSignals
INVARIANTS
  AnswerIsTrue
  PidfileMeansLocked
  NoStalePidfile
  ErrorIsShownOnce
PROPERTIES
  WaitingIsAnswered
  SignalEndsIt
CHECK_DEADLOCK FALSE
