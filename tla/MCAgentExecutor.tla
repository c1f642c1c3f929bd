--------------------------- MODULE MCAgentExecutor ---------------------------
(* Instances of AgentExecutor. The tasks are alike.                        *)
EXTENDS AgentExecutor

Symmetry == Permutations(Tasks)
==============================================================================
