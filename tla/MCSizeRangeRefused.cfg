SPECIFICATION TextSpec
CONSTANTS
  PageSize = 4
  Max = 25
  UsizeMax = 19
  ExpMax = 99
  Cutoff = 2
  Decimal = 10
  Binary = 11
  Inputs <- AllInputs
INVARIANTS
  TooLargeIsTooLarge
CHECK_DEADLOCK FALSE
