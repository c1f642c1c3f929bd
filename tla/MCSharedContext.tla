--------------------------- MODULE MCSharedContext ---------------------------
(* Instances of SharedContext. The calls are alike.                        *)
EXTENDS SharedContext, TLC

Symmetry == Permutations(Calls)
==============================================================================
