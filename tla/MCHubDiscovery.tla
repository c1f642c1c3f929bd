--------------------------- MODULE MCHubDiscovery ---------------------------
(* Two agents, one with an action of high risk, and an input that is fine  *)
(* or fails two checks.                                                    *)
EXTENDS HubDiscovery

CONSTANTS a1, a2

OneRisky  == [a \in Agents |-> IF a = a2 THEN {"action_not_low_risk"} ELSE {}]
TwoInputs == {{}, {"sensitive_input_blocked", "input_too_large"}}
=============================================================================
