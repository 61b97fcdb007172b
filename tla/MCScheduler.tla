----------------------------- MODULE MCScheduler -----------------------------
EXTENDS Scheduler
CONSTANTS r1, r2
MCOwner == [j \in Jobs |-> IF j = 3 THEN r2 ELSE r1]
MCOffset == [r \in Replicas |-> IF r = r2 THEN 1 ELSE 0]
=============================================================================
