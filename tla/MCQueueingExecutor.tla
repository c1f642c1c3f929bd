------------------------- MODULE MCQueueingExecutor -------------------------
(* Instances of QueueingExecutor: every request its own task, and several  *)
(* requests of one task.                                                   *)
EXTENDS QueueingExecutor

CONSTANTS r1, r2, r3

(* A task id per request (Tasks = Requests), and one for r1 and another    *)
(* that r2 and r3 share.                                                   *)
OwnTask    == [r \in Requests |-> r]
SharedTask == [r \in Requests |-> IF r = r1 THEN r1 ELSE r2]

Symmetry == Permutations(Requests)
=============================================================================
