--------------------------- MODULE MCHubHandshake ---------------------------
(* Instances of HubHandshake.                                              *)
EXTENDS HubHandshake
=============================================================================
