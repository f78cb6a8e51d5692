SPECIFICATION Spec
CONSTANTS
  NPages = 4
  Ops <- AllOps
  Displays = {"Cli", "Tui"}
  Interval = 2
  ReclaimAt <- Anywhere
INVARIANTS
  StatsBounded
  StatsSettle
  ProgressIsHonest
  EventProtocol
  LockGuarantee
CHECK_DEADLOCK FALSE
