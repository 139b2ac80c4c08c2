---------------------------- MODULE MCWorkerBudget ----------------------------
(* Small instances of WorkerBudget: two brokers of different size, or one  *)
(* broker whose permits are fewer than its threads.                        *)
EXTENDS WorkerBudget, TLC

CONSTANTS b1, b2

MCTwoLimits == b1 :> 1 @@ b2 :> 2
MCSingle == b1 :> 1
Symmetry == Permutations(Thread)
===============================================================================
