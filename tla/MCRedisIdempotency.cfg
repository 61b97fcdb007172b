SPECIFICATION Spec
CONSTANTS
  Keys = {k1}
  Prints = {f1, f2}
  Callers = {a, b, c}
  Lease = 1
  Ttl = 2
  MaxTime = 3
SYMMETRY Symmetry
INVARIANT
  TypeOK
PROPERTIES
  RetainedForTtl
  Implements
CHECK_DEADLOCK FALSE
