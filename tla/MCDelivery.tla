----------------------------- MODULE MCDelivery -----------------------------
EXTENDS Delivery, TLC

(* Two messages that use one idempotency key; the second may also be too   *)
(* large.                                                                  *)
MCEnvelopesOf ==
    LET base == [wellFormed |-> TRUE, timestamp |-> 0, ttl_seconds |-> 1, route_path |-> {},
                 hop_count |-> 0, size |-> 1, key |-> "k1", payload |-> "p1"] IN
    "e1" :> {base} @@
    "e2" :> {[base EXCEPT !.payload = "p2"],
             [base EXCEPT !.payload = "p2", !.size = 4]}

MCNonces == {"e1", "e2"} \X (1..maxRetries)
=============================================================================
