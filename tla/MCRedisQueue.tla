---------------------------- MODULE MCRedisQueue ----------------------------
(* Two replicas, the clock of the second ahead of the server's. *)
EXTENDS RedisQueue
CONSTANTS replicaA, replicaB
Drift == [r \in Replicas |-> IF r = replicaB THEN 1 ELSE 0]
=============================================================================
