----------------------------- MODULE PeerHealth -----------------------------
(***************************************************************************)
(* PeerHealthManager (src/src/peer-health.ts): the circuit breaker of one  *)
(* configured peer. States are kept per peer name and never mixed, so one  *)
(* peer stands for all. The module gives the breaker's state and what each *)
(* of its methods does to it; OutboundSend composes them with the callers  *)
(* and the health checks.                                                  *)
(***************************************************************************)
EXTENDS Integers

CONSTANTS failureThreshold,   \* circuitBreaker.failureThreshold
          resetTimeout        \* circuitBreaker.resetTimeoutMs, in clock ticks

ASSUME ThresholdAssumption == failureThreshold \in Nat \ {0}
ASSUME TimeoutAssumption   == resetTimeout \in Nat

VARIABLES
    circuit,                \* state.circuit
    health,                 \* state.health
    consecutiveFailures,    \* state.consecutiveFailures
    sinceFailure,           \* Date.now() - lastFailureAt; -1 for null
    halfOpenInFlight        \* the peer's name is in halfOpenInFlight

breakerVars == <<circuit, health, consecutiveFailures, sinceFailure, halfOpenInFlight>>

(* The counter saturates: only its comparison with the threshold matters.  *)
FailureCap == failureThreshold + 1

BreakerInit ==
    /\ circuit = "closed"
    /\ health = "unknown"
    /\ consecutiveFailures = 0
    /\ sinceFailure = -1
    /\ halfOpenInFlight = FALSE

(* The cooldown of an open circuit has elapsed. *)
CooledDown == sinceFailure # -1 /\ sinceFailure >= resetTimeout

(* Mutant: the request that turns the circuit half-open is not remembered. *)
isAvailableForgetful ==
    \/ circuit = "closed" /\ UNCHANGED breakerVars
    \/ /\ circuit = "open"
       /\ CooledDown
       /\ circuit' = "half-open"
       /\ UNCHANGED <<health, consecutiveFailures, sinceFailure, halfOpenInFlight>>
    \/ /\ circuit = "half-open"
       /\ ~halfOpenInFlight
       /\ halfOpenInFlight' = TRUE
       /\ UNCHANGED <<circuit, health, consecutiveFailures, sinceFailure>>

(* isAvailable() returns true. *)
isAvailable ==
    \/ circuit = "closed" /\ UNCHANGED breakerVars
    \/ /\ circuit = "open"
       /\ CooledDown
       /\ circuit' = "half-open"
       /\ halfOpenInFlight' = TRUE
       /\ UNCHANGED <<health, consecutiveFailures, sinceFailure>>
    \/ /\ circuit = "half-open"
       /\ ~halfOpenInFlight
       /\ halfOpenInFlight' = TRUE
       /\ UNCHANGED <<circuit, health, consecutiveFailures, sinceFailure>>

(* isAvailable() returns false, which changes nothing. *)
isUnavailable ==
    \/ circuit = "open" /\ ~CooledDown
    \/ circuit = "half-open" /\ halfOpenInFlight

(* Mutant: the failures are not forgotten. *)
recordSuccessKeepingCount ==
    /\ health' = "healthy"
    /\ halfOpenInFlight' = FALSE
    /\ circuit' = "closed"
    /\ UNCHANGED <<consecutiveFailures, sinceFailure>>

(* Mutant: only the half-open trial may close the circuit. *)
recordSuccessHalfOpenOnly ==
    /\ consecutiveFailures' = 0
    /\ health' = "healthy"
    /\ halfOpenInFlight' = FALSE
    /\ circuit' = IF circuit = "half-open" THEN "closed" ELSE circuit
    /\ UNCHANGED sinceFailure

recordSuccess ==
    /\ consecutiveFailures' = 0
    /\ health' = "healthy"
    /\ halfOpenInFlight' = FALSE
    /\ circuit' = "closed"
    /\ UNCHANGED sinceFailure

Trips == circuit = "closed" /\ consecutiveFailures' >= failureThreshold

(* recordFailure(); `seen` is the health its caller has just stored. *)
recordFailure(seen) ==
    /\ consecutiveFailures' = IF consecutiveFailures < FailureCap
                              THEN consecutiveFailures + 1 ELSE FailureCap
    /\ sinceFailure' = 0
    /\ halfOpenInFlight' = FALSE
    /\ circuit' = IF circuit = "half-open" \/ Trips THEN "open" ELSE circuit
    /\ health' = IF Trips THEN "unhealthy" ELSE seen

(* Time passes, up to what the cooldown can tell apart. *)
Tick ==
    /\ sinceFailure \in 0..(resetTimeout - 1)
    /\ sinceFailure' = sinceFailure + 1
    /\ UNCHANGED <<circuit, health, consecutiveFailures, halfOpenInFlight>>
=============================================================================
