----------------------------- MODULE MCWorkerPool -----------------------------
(* WorkerPool with more modules than workers. *)
EXTENDS WorkerPool, TLC

CONSTANTS modA, modB, modC, t1, t2, t3, t4, t5

MCPoolOf == t1 :> modA @@ t2 :> modA @@ t3 :> modA @@ t4 :> modB @@ t5 :> modC
=============================================================================
