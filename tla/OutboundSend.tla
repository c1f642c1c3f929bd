---------------------------- MODULE OutboundSend ----------------------------
(***************************************************************************)
(* A2AClient.sendMessage (src/src/client.ts) over the circuit breaker,     *)
(* withRetry (src/src/peer-retry.ts) and the transport fallback loop, with *)
(* the periodic health checks of PeerHealthManager beside it.              *)
(*                                                                         *)
(* Sends are concurrent calls of sendMessage() to one peer; an action runs *)
(* from one await to the next. The peer is the environment: it is up, down *)
(* (every call throws a transport error) or denying (calls throw an auth   *)
(* or protocol error), and changes at any time; a call it left in flight   *)
(* may still end in any way. The calls of a send have no deadline and may  *)
(* hang for ever; a health check is aborted after its timeout.             *)
(***************************************************************************)
EXTENDS PeerHealth, FiniteSets

CONSTANTS Sends,            \* concurrent callers of sendMessage()
          Probes,           \* health checks that may overlap; {}: disabled
          maxRetries,       \* retry.maxRetries
          MaxTransports     \* most interfaces an agent card lists

ASSUME SendsAssumption == IsFiniteSet(Sends) /\ Sends # {}
ASSUME RetryAssumption == maxRetries \in Nat /\ MaxTransports \in Nat \ {0}

VARIABLES
    pc,         \* what the send awaits, or how it ended
    attempt,    \* withRetry's attempt
    ifaces,     \* number of transports found on the agent card
    hop,        \* the transport being tried, 1..ifaces
    trial,      \* the send was admitted by turning the circuit half-open
    denied,     \* the peer answered it with an auth or protocol error
    again,      \* a call was made after such an answer
    late,       \* the peer has changed since the send's call was made
    probe,      \* health checks in flight
    peer        \* the peer's condition

sendVars == <<pc, attempt, ifaces, hop, trial, denied, again, late>>
vars == <<breakerVars, sendVars, probe, peer>>

Calling  == {"card", "factory", "transport"}
Awaiting == Calling \cup {"backoff"}
Ended    == {"idle", "ok", "failed", "refused", "threw"}
Conditions == {"up", "down", "denying"}

Init ==
    /\ BreakerInit
    /\ pc = [s \in Sends |-> "idle"]
    /\ attempt = [s \in Sends |-> 0]
    /\ ifaces = [s \in Sends |-> 0]
    /\ hop = [s \in Sends |-> 0]
    /\ trial = [s \in Sends |-> FALSE]
    /\ denied = [s \in Sends |-> FALSE]
    /\ again = [s \in Sends |-> FALSE]
    /\ late = [s \in Sends |-> FALSE]
    /\ probe = [p \in Probes |-> "idle"]
    /\ peer = "up"

-----------------------------------------------------------------------------
(* sendMessage() *)

(* The breaker lets the message through: doSendMessage resolves the card.  *)
Start(s) ==
    /\ pc[s] \in Ended
    /\ isAvailable
    /\ pc' = [pc EXCEPT ![s] = "card"]
    /\ attempt' = [attempt EXCEPT ![s] = 0]
    /\ trial' = [trial EXCEPT ![s] = circuit' = "half-open"]
    /\ denied' = [denied EXCEPT ![s] = FALSE]
    /\ again' = [again EXCEPT ![s] = FALSE]
    /\ late' = [late EXCEPT ![s] = FALSE]
    /\ UNCHANGED <<ifaces, hop, probe, peer>>

(* The breaker refuses: 503 at once. *)
Refuse(s) ==
    /\ pc[s] \in Ended
    /\ isUnavailable
    /\ pc' = [pc EXCEPT ![s] = "refused"]
    /\ UNCHANGED <<breakerVars, attempt, ifaces, hop, trial, denied, again, late, probe, peer>>

(* sendMessage() has a result: it tells the breaker and returns. *)
Conclude(s, ok) ==
    /\ IF ok THEN recordSuccess ELSE recordFailure(health)
    /\ pc' = [pc EXCEPT ![s] = IF ok THEN "ok" ELSE "failed"]
    /\ attempt' = [attempt EXCEPT ![s] = 0]

(* Mutant: the last failure is returned without telling the breaker. *)
FailAttemptLosingResult(s) ==
    /\ pc' = [pc EXCEPT ![s] = IF attempt[s] < maxRetries THEN "backoff" ELSE "failed"]
    /\ UNCHANGED <<attempt, breakerVars>>

(* doSendMessage() returns a failed result or throws a retryable error:    *)
(* withRetry waits for the next attempt or gives up.                       *)
FailAttempt(s) ==
    IF attempt[s] < maxRetries
    THEN /\ pc' = [pc EXCEPT ![s] = "backoff"]
         /\ UNCHANGED <<attempt, breakerVars>>
    ELSE Conclude(s, FALSE)

(* doSendMessage() throws on the single-transport path. Without retries    *)
(* nobody catches it: sendMessage() throws past the breaker.               *)
ThrowAttempt(s, error) ==
    CASE maxRetries = 0 -> /\ pc' = [pc EXCEPT ![s] = "threw"]
                           /\ UNCHANGED <<attempt, breakerVars>>
      [] maxRetries > 0 /\ error = "denied" -> Conclude(s, FALSE)
      [] OTHER -> FailAttempt(s)

(* What a call to the peer may answer. A transport other than the last one *)
(* on the card may not work even when the peer is up.                      *)
Answers(s) ==
    CASE late[s] -> {"ok", "unreachable", "denied"}
      [] ~late[s] /\ peer = "up" -> IF pc[s] = "transport" /\ hop[s] < ifaces[s]
                        THEN {"ok", "unreachable"} ELSE {"ok"}
      [] ~late[s] /\ peer = "down" -> {"unreachable"}
      [] OTHER -> {"denied"}

(* The agent card arrives with n usable interfaces, or not at all (n = 0). *)
ResolveCard(s, n) ==
    /\ pc[s] = "card"
    /\ ~late[s] /\ peer = "up" => n > 0
    /\ ~late[s] /\ peer = "down" => n = 0
    /\ pc' = [pc EXCEPT ![s] = IF n <= 1 THEN "factory" ELSE "transport"]
    /\ ifaces' = [ifaces EXCEPT ![s] = n]
    /\ hop' = [hop EXCEPT ![s] = IF n <= 1 THEN 0 ELSE 1]
    /\ again' = [again EXCEPT ![s] = denied[s]]
    /\ late' = [late EXCEPT ![s] = FALSE]
    /\ UNCHANGED <<breakerVars, attempt, trial, denied, probe, peer>>

(* Clears what the attempt kept about transports. *)
LeaveTransports(s) ==
    /\ ifaces' = [ifaces EXCEPT ![s] = 0]
    /\ hop' = [hop EXCEPT ![s] = 0]

(* doSendViaFactory() ends: the SDK picked the only transport. *)
FactoryAnswers(s, a) ==
    /\ pc[s] = "factory"
    /\ a \in Answers(s)
    /\ denied' = [denied EXCEPT ![s] = @ \/ a = "denied"]
    /\ IF a = "ok" THEN Conclude(s, TRUE) ELSE ThrowAttempt(s, a)
    /\ LeaveTransports(s)
    /\ late' = [late EXCEPT ![s] = FALSE]
    /\ UNCHANGED <<trial, again, probe, peer>>

(* doSendViaTransport() ends: a retryable error moves on to the next       *)
(* transport, another one ends the attempt with a result of status 500.    *)
TransportAnswers(s, a) ==
    /\ pc[s] = "transport"
    /\ a \in Answers(s)
    /\ denied' = [denied EXCEPT ![s] = @ \/ a = "denied"]
    /\ IF a = "unreachable" /\ hop[s] < ifaces[s]
       THEN /\ hop' = [hop EXCEPT ![s] = @ + 1]
            /\ UNCHANGED <<breakerVars, pc, attempt, ifaces>>
       ELSE /\ IF a = "ok" THEN Conclude(s, TRUE) ELSE FailAttempt(s)
            /\ LeaveTransports(s)
    /\ late' = [late EXCEPT ![s] = FALSE]
    /\ UNCHANGED <<trial, again, probe, peer>>

(* The backoff is over: the next attempt starts from the card. *)
Retry(s) ==
    /\ pc[s] = "backoff"
    /\ pc' = [pc EXCEPT ![s] = "card"]
    /\ attempt' = [attempt EXCEPT ![s] = @ + 1]
    /\ UNCHANGED <<breakerVars, ifaces, hop, trial, denied, again, late, probe, peer>>

-----------------------------------------------------------------------------
(* Health checks: runHealthChecks() starts one at every interval, whether  *)
(* or not the one before has ended.                                        *)

CheckPeer(p) ==
    /\ probe[p] = "idle"
    /\ probe' = [probe EXCEPT ![p] = "waiting"]
    /\ UNCHANGED <<breakerVars, sendVars, peer>>

(* The agent card answers, or not, within the timeout of the check; a      *)
(* denying peer may serve it.                                              *)
ProbeAnswers(p, healthy) ==
    /\ probe[p] \in {"waiting", "late"}
    /\ probe[p] = "waiting" /\ peer = "up" => healthy
    /\ probe[p] = "waiting" /\ peer = "down" => ~healthy
    /\ IF healthy THEN recordSuccess ELSE recordFailure("unhealthy")
    /\ probe' = [probe EXCEPT ![p] = "idle"]
    /\ UNCHANGED <<sendVars, peer>>

PeerChanges(c) ==
    /\ peer # c
    /\ peer' = c
    /\ late' = [s \in Sends |-> pc[s] \in Calling]
    /\ probe' = [p \in Probes |-> IF probe[p] = "idle" THEN "idle" ELSE "late"]
    /\ UNCHANGED <<breakerVars, pc, attempt, ifaces, hop, trial, denied, again>>

ClockTick == Tick /\ UNCHANGED <<sendVars, probe, peer>>

Progress(s) ==
    \/ \E n \in 0..MaxTransports : ResolveCard(s, n)
    \/ \E a \in {"ok", "unreachable", "denied"} : FactoryAnswers(s, a) \/ TransportAnswers(s, a)
    \/ Retry(s)

Next ==
    \/ \E s \in Sends : Start(s) \/ Refuse(s) \/ Progress(s)
    \/ \E p \in Probes : CheckPeer(p) \/ \E h \in BOOLEAN : ProbeAnswers(p, h)
    \/ \E c \in Conditions : PeerChanges(c)
    \/ ClockTick

Spec == Init /\ [][Next]_vars

(* Health checks are made at every interval, and each ends by its timeout. *)
(* Nothing is assumed of the sends: their calls may hang, and nobody need  *)
(* send again.                                                             *)
Fairness ==
    \A p \in Probes : /\ WF_vars(CheckPeer(p))
                      /\ WF_vars(\E h \in BOOLEAN : ProbeAnswers(p, h))

LiveSpec == Spec /\ Fairness

-----------------------------------------------------------------------------
(* Properties. *)

InFlight(s) == pc[s] \in Awaiting

TypeOK ==
    /\ circuit \in {"closed", "open", "half-open"}
    /\ health \in {"unknown", "healthy", "unhealthy"}
    /\ consecutiveFailures \in 0..FailureCap
    /\ sinceFailure \in -1..resetTimeout
    /\ halfOpenInFlight \in BOOLEAN
    /\ pc \in [Sends -> Awaiting \cup Ended]
    /\ attempt \in [Sends -> 0..maxRetries]
    /\ ifaces \in [Sends -> 0..MaxTransports]
    /\ hop \in [Sends -> 0..MaxTransports]
    /\ trial \in [Sends -> BOOLEAN]
    /\ denied \in [Sends -> BOOLEAN]
    /\ again \in [Sends -> BOOLEAN]
    /\ late \in [Sends -> BOOLEAN]
    /\ probe \in [Probes -> {"idle", "waiting", "late"}]
    /\ peer \in Conditions

(* The circuit is closed exactly while fewer than failureThreshold calls   *)
(* in a row have failed, whatever sends and health checks report late or   *)
(* out of order, and one that is not closed has a failure to cool down     *)
(* from: isAvailable() can always end an outage.                           *)
BreakerFollowsFailures ==
    /\ circuit = "closed" <=> consecutiveFailures < failureThreshold
    /\ circuit # "closed" => sinceFailure # -1

(* The circuit is half-open exactly while halfOpenInFlight names the peer. *)
TrialSlotMatchesCircuit == halfOpenInFlight <=> circuit = "half-open"

(* A half-open circuit belongs to a send that is still in flight, and that *)
(* closes or reopens it if its calls end: no interleaving of other results *)
(* leaves it waiting for a request nobody makes.                           *)
HalfOpenHasOwner ==
    circuit = "half-open" => \E s \in Sends : trial[s] /\ InFlight(s)

(* While the circuit stays half-open no further send is let through.       *)
OneTrialPerHalfOpen ==
    [][circuit = "half-open" /\ circuit' = "half-open"
         => \A s \in Sends : InFlight(s)' => InFlight(s)]_vars

(* Once the peer is back for good the health checks close the circuit for  *)
(* good: though the request that turned it half-open hangs for ever        *)
(* (sendMessage() sets no deadline), though nobody sends, and though late  *)
(* failures of earlier calls are still reported after the peer's return.   *)
RecoversAfterOutage == <>[](peer = "up") => <>[](circuit = "closed")

(* With no health checks it takes the sends' own calls to end.             *)
SendsEnd == \A s \in Sends : WF_vars(Progress(s))

(* When every call ends, a half-open circuit does not stay half-open: its  *)
(* request decides. Not so in the code without retries: README,            *)
(* Divergences.                                                            *)
HalfOpenEnds == SendsEnd => (circuit = "half-open" ~> circuit # "half-open")

(* An auth or protocol error is not retried: after it the send makes no    *)
(* further call. Not so with several transports: README, Divergences.      *)
DeniedNotRetried == \A s \in Sends : ~again[s]
=============================================================================
