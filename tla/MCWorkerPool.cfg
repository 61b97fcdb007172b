SPECIFICATION FairSpec
CONSTANTS
  modA = modA
  modB = modB
  modC = modC
  t1 = t1
  t2 = t2
  t3 = t3
  t4 = t4
  t5 = t5
  Pools = {modA, modB, modC}
  Tasks = {t1, t2, t3, t4, t5}
  PoolOf <- MCPoolOf
  Uncloneable = {t4}
  Timed = {t1, t5}
  Limit = 2
  Size = 2
  MaxQueue = 2
  SpawnFaults = {{}, {1}}
INVARIANTS
  TypeOK
  Conservation
  DemandIsQueued
PROPERTIES
  NobodyWaitsForever
CHECK_DEADLOCK FALSE
