SPECIFICATION Spec
CONSTANTS
  Calls = {a, b, c}
  MaxConcurrent = 1
  MaxQueue = 1
  Threshold = 1
  Window = 2
  Cooldown = 1
  Limit = 2
  MaxTime = 2
SYMMETRY Symmetry
INVARIANT
  Capped
CHECK_DEADLOCK FALSE
