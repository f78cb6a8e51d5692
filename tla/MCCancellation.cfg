SPECIFICATION Spec
CONSTANTS
  Cancels = {c1, c2}
  Waits = {w1, w2, w3}
  NoCall = NoCall
  MaxSpurious = 2
INVARIANTS
  NoLostWakeup
  ReturnMeansNotified
PROPERTIES
  LatchSpec
CHECK_DEADLOCK FALSE
