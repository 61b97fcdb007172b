SPECIFICATION Spec
CONSTANTS
  k1 = k1
  k2 = k2
  k3 = k3
  k4 = k4
  scopeA = scopeA
  scopeB = scopeB
  Keys = {k1, k2, k3, k4}
  Scopes = {scopeA, scopeB}
  ScopeOf <- MCScopeOf
  Prints = {f1}
  Callers = {a, b, c, d}
  Lease = 1
  Ttl = 2
  MaxPerScope = 1
  MaxEntries = 2
  MaxBytes = 4
  RecordBytes = 2
  SweepThrottle = 1
  MaxTime = 4
SYMMETRY Symmetry
INVARIANTS
  TypeOK
  Accounting
PROPERTIES
  RetainedForTtl
  RefusalIgnoresTheDead
CHECK_DEADLOCK FALSE
