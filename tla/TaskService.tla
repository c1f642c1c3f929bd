---------------------------- MODULE TaskService ----------------------------
(***************************************************************************)
(* What the inbound task executor promises its caller, the A2A SDK's       *)
(* request handler, about every request it is given: the request waits or  *)
(* runs, at most Capacity of them run at a time, it runs at most once, and *)
(* its promise is settled exactly once, from then on for good.             *)
(***************************************************************************)
EXTENDS Naturals, FiniteSets

CONSTANTS Requests,     \* the calls of execute()
          Capacity      \* how many may run at a time

VARIABLE stage          \* stage[r]: how far the executor has taken r

Running(s) == {r \in Requests : s[r] = "running"}

Init == stage = [r \in Requests |-> "new"]

(* A call of execute(): refused at once, parked, or started. *)
Submit(r) ==
    /\ stage[r] = "new"
    /\ \E s \in {"settled", "waiting", "running"} : stage' = [stage EXCEPT ![r] = s]

(* A parked request is started, or settled without running (canceled). *)
Leave(r) ==
    /\ stage[r] = "waiting"
    /\ \E s \in {"settled", "running"} : stage' = [stage EXCEPT ![r] = s]

Finish(r) ==
    /\ stage[r] = "running"
    /\ stage' = [stage EXCEPT ![r] = "settled"]

Next ==
    /\ \E r \in Requests : Submit(r) \/ Leave(r) \/ Finish(r)
    /\ Cardinality(Running(stage')) <= Capacity

Spec == Init /\ [][Next]_stage
=============================================================================
