--------------------------- MODULE MCOutboundSend ---------------------------
(* Instances of OutboundSend. The sends, and the probes, are alike.        *)
EXTENDS OutboundSend, TLC

Symmetry == Permutations(Sends) \cup Permutations(Probes)
=============================================================================
