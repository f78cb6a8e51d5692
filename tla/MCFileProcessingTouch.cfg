SPECIFICATION Spec
CONSTANTS
  NPages = 2
  Ops = {"Touch"}
  Displays = {"Cli"}
  Interval = 2
  ReclaimAt <- BeforeTheWalk
INVARIANTS
  TouchGuaranteesResidency
CHECK_DEADLOCK FALSE
