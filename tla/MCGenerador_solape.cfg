SPECIFICATION Spec
CONSTANTS
  n = 2
  m = 8
  h = 3
  z = 120
  l = 3
CHECK_DEADLOCK FALSE
INVARIANT
  BloquesSinSolape
