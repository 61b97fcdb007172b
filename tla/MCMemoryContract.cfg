SPECIFICATION Spec
CONSTANTS
  scopeA = scopeA
  Keys = {k1, k2, k3}
  Scopes = {scopeA}
  ScopeOf <- MCScopeOf
  Prints = {f1, f2}
  Callers = {a, b, c}
  Lease = 1
  Ttl = 2
  MaxPerScope = 3
  MaxEntries = 2
  MaxBytes = 3
  RecordBytes = 1
  SweepThrottle = 1
  MaxTime = 4
SYMMETRY Symmetry
PROPERTIES
  Implements
CHECK_DEADLOCK FALSE
