----------------------------- MODULE MCWorkerPool -----------------------------
(* An instance of WorkerPool: three bundles over a pool of two workers.  One *)
(* export makes as many calls as a worker may serve, the others fewer.       *)
EXTENDS WorkerPool

CONSTANTS b1, b2, b3

MCImages == [b \in Bundles |-> CASE b = b1 -> 2 [] b = b2 -> 1 [] OTHER -> 0]
===============================================================================
