CONSTANTS
  None = None
  replicaA = replicaA
  replicaB = replicaB
  Jobs = {job1}
  Replicas = {replicaA, replicaB}
  Skew <- Drift
  Concurrency = 1
  MaxAttempts = 2
  Visibility = 2
  Delays = {0}
  MaxTime = 2
  MaxFaults = 1
SPECIFICATION Spec
INVARIANTS TypeOK Placed AttemptsCount Exclusive WithinConcurrency
PROPERTIES ClaimRespected ClosedForGood
CHECK_DEADLOCK FALSE
