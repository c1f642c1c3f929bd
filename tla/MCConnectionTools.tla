------------------------- MODULE MCConnectionTools -------------------------
(* This gateway publishes an A2A endpoint and the other one does not.      *)
EXTENDS ConnectionTools

Published == [g \in {"me", "other"} |-> IF g = "me" THEN "a2a" ELSE "generic"]
=============================================================================
