SPECIFICATION Spec
CONSTANTS
  r = r
  a = a
  d = d
  b = b
  l = l
  e = e
  c = c
  Nodes = {r, a, d, b, l, e, c}
  Nowhere = Nowhere
  FileSystems <- ManyTrees
  Configs <- AllConfigs
  Arguments <- SomeArguments
INVARIANTS
  EmitsExactly
PROPERTIES
  DrainIsSilent
  WalkTerminates
CHECK_DEADLOCK FALSE
