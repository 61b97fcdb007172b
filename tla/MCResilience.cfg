SPECIFICATION Spec
CONSTANTS
  Calls = {a, b, c, d}
  MaxConcurrent = 2
  MaxQueue = 1
  Threshold = 1
  Window = 2
  Cooldown = 1
  Limit = 2
  MaxTime = 2
SYMMETRY Symmetry
INVARIANTS
  TypeOK
  SingleProbe
  NoIdleSlot
PROPERTIES
  ProbeExclusive
  NoWorkAfterAbort
CHECK_DEADLOCK FALSE
