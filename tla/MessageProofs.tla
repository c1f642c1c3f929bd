--------------------------- MODULE MessageProofs ----------------------------
(***************************************************************************)
(* What holds of a message on its way out and on its way in. Out: for any  *)
(* number of sends, health checks, retries and transports and every        *)
(* threshold and cooldown, the breaker's state follows the failures it is  *)
(* told of, and one send owns a half-open circuit (OutboundSend). In: the  *)
(* executor's runs and their gateway connections stay consistent for any   *)
(* number of tasks, whatever the gateway, the sockets and the timers do    *)
(* (AgentExecutor).                                                        *)
(***************************************************************************)
EXTENDS OutboundSend, AgentExecutor, TLAPS

-----------------------------------------------------------------------------
(* A send to a peer                                                        *)

(* The breaker's share of TypeOK. *)
BreakerType ==
    /\ circuit \in {"closed", "open", "half-open"}
    /\ health \in {"unknown", "healthy", "unhealthy"}
    /\ consecutiveFailures \in 0..FailureCap
    /\ sinceFailure \in -1..resetTimeout
    /\ halfOpenInFlight \in BOOLEAN

(* The sends' share, with the peer and the health checks. *)
SendType ==
    /\ pc \in [Sends -> Awaiting \cup Ended]
    /\ attempt \in [Sends -> 0..maxRetries]
    /\ ifaces \in [Sends -> 0..MaxTransports]
    /\ hop \in [Sends -> 0..MaxTransports]
    /\ trial \in [Sends -> BOOLEAN]
    /\ denied \in [Sends -> BOOLEAN]
    /\ again \in [Sends -> BOOLEAN]
    /\ late \in [Sends -> BOOLEAN]
    /\ probe \in [Probes -> {"idle", "waiting", "late"}]
    /\ peer \in Conditions

(* withRetry() waits only when another attempt is left: without it the type *)
(* of attempt is not inductive.                                            *)
RetriesLeft == \A s \in Sends : pc[s] = "backoff" => attempt[s] < maxRetries

(* What the breaker's methods maintain by themselves. *)
BreakerInv == BreakerType /\ BreakerFollowsFailures /\ TrialSlotMatchesCircuit

-----------------------------------------------------------------------------
(* The methods of PeerHealthManager keep the breaker's invariant. *)

(* A flag that says whether the circuit is half-open, as an equation. *)
LEMMA FlagEquation ==
  ASSUME NEW flag \in BOOLEAN, NEW c
  PROVE  (flag <=> c = "half-open") <=> ((flag = TRUE /\ c = "half-open")
                                         \/ (flag = FALSE /\ c # "half-open"))
<1>1. CASE flag = TRUE
  BY <1>1
<1>2. CASE flag = FALSE
  BY <1>2
<1> QED
  BY <1>1, <1>2

(* isAvailable() returning true keeps the breaker's invariant. *)
LEMMA AvailableKeeps ==
  ASSUME BreakerInv, isAvailable
  PROVE  BreakerInv'
<1> USE DEF BreakerInv, isAvailable
<1>1. BreakerFollowsFailures' /\ circuit' \in {"closed", "open", "half-open"}
  BY ThresholdAssumption, TimeoutAssumption
  DEF BreakerType, BreakerFollowsFailures, FailureCap, CooledDown, breakerVars
<1>2. BreakerType'
  BY ThresholdAssumption, TimeoutAssumption DEF BreakerType, FailureCap, CooledDown, breakerVars
<1>3. TrialSlotMatchesCircuit'
  <2>1. \/ halfOpenInFlight = TRUE /\ circuit = "half-open"
        \/ halfOpenInFlight = FALSE /\ circuit # "half-open"
    BY FlagEquation DEF TrialSlotMatchesCircuit, BreakerType
  <2>2. \/ halfOpenInFlight' = TRUE /\ circuit' = "half-open"
        \/ halfOpenInFlight' = FALSE /\ circuit' # "half-open"
    BY <2>1 DEF BreakerType, CooledDown, breakerVars
  <2> QED
    BY <1>2, <2>2, FlagEquation DEF TrialSlotMatchesCircuit, BreakerType
<1> QED
  BY <1>1, <1>2, <1>3

(* recordSuccess() keeps the breaker's invariant. *)
LEMMA SuccessKeeps ==
  ASSUME BreakerInv, recordSuccess
  PROVE  BreakerInv'
<1> USE DEF BreakerInv, recordSuccess
<1>1. BreakerFollowsFailures' /\ circuit' \in {"closed", "open", "half-open"}
  BY ThresholdAssumption, TimeoutAssumption
  DEF BreakerType, BreakerFollowsFailures, FailureCap
<1>2. BreakerType'
  <2>1. halfOpenInFlight' \in BOOLEAN
    BY Zenon
  <2> QED
    BY <2>1, ThresholdAssumption, TimeoutAssumption DEF BreakerType, FailureCap
<1>3. TrialSlotMatchesCircuit'
  <2>1. \/ halfOpenInFlight = TRUE /\ circuit = "half-open"
        \/ halfOpenInFlight = FALSE /\ circuit # "half-open"
    BY FlagEquation DEF TrialSlotMatchesCircuit, BreakerType
  <2>2. \/ halfOpenInFlight' = TRUE /\ circuit' = "half-open"
        \/ halfOpenInFlight' = FALSE /\ circuit' # "half-open"
    BY <2>1 DEF BreakerType
  <2> QED
    BY <1>2, <2>2, FlagEquation DEF TrialSlotMatchesCircuit, BreakerType
<1> QED
  BY <1>1, <1>2, <1>3

(* recordFailure() keeps the breaker's invariant. *)
LEMMA FailureKeeps ==
  ASSUME NEW seen \in {"unknown", "healthy", "unhealthy"}, BreakerInv, recordFailure(seen)
  PROVE  BreakerInv'
<1> USE DEF BreakerInv, recordFailure
<1>1. BreakerFollowsFailures' /\ circuit' \in {"closed", "open", "half-open"}
  BY ThresholdAssumption, TimeoutAssumption
  DEF BreakerType, BreakerFollowsFailures, FailureCap, Trips
<1>2. BreakerType'
  <2>1. halfOpenInFlight' \in BOOLEAN
    BY Zenon
  <2> QED
    BY <2>1, ThresholdAssumption, TimeoutAssumption DEF BreakerType, FailureCap, Trips
<1>3. TrialSlotMatchesCircuit'
  <2>1. \/ halfOpenInFlight = TRUE /\ circuit = "half-open"
        \/ halfOpenInFlight = FALSE /\ circuit # "half-open"
    BY FlagEquation DEF TrialSlotMatchesCircuit, BreakerType
  <2>2. \/ halfOpenInFlight' = TRUE /\ circuit' = "half-open"
        \/ halfOpenInFlight' = FALSE /\ circuit' # "half-open"
    BY <2>1 DEF BreakerType, Trips
  <2> QED
    BY <1>2, <2>2, FlagEquation DEF TrialSlotMatchesCircuit, BreakerType
<1> QED
  BY <1>1, <1>2, <1>3

(* The passing of time keeps the breaker's invariant. *)
LEMMA TickKeeps == BreakerInv /\ Tick => BreakerInv'
  BY ThresholdAssumption, TimeoutAssumption
  DEF BreakerInv, BreakerType, BreakerFollowsFailures, TrialSlotMatchesCircuit, Tick,
      FailureCap

(* A step that leaves the breaker alone keeps its invariant. *)
LEMMA UnchangedKeeps == BreakerInv /\ UNCHANGED breakerVars => BreakerInv'
  BY DEF BreakerInv, BreakerType, BreakerFollowsFailures, TrialSlotMatchesCircuit,
         breakerVars, FailureCap

(* The breaker and the ends of a send: Conclude, FailAttempt, ThrowAttempt. *)
LEMMA EndingKeeps ==
  ASSUME BreakerInv, NEW s \in Sends, NEW error,
         \/ Conclude(s, TRUE) \/ Conclude(s, FALSE)
         \/ FailAttempt(s) \/ ThrowAttempt(s, error)
  PROVE  BreakerInv'
<1>1. health \in {"unknown", "healthy", "unhealthy"}
  BY DEF BreakerInv, BreakerType
<1>2. recordSuccess \/ recordFailure(health) \/ UNCHANGED breakerVars
  BY DEF Conclude, FailAttempt, ThrowAttempt
<1> QED
  BY <1>1, <1>2, SuccessKeeps, FailureKeeps, UnchangedKeeps

(* Every step of the system keeps the breaker's invariant. *)
LEMMA BreakerStep == BreakerInv /\ [Next]_vars => BreakerInv'
<1> SUFFICES ASSUME BreakerInv, [Next]_vars PROVE BreakerInv'
  OBVIOUS
<1>1. ASSUME NEW s \in Sends, Start(s) PROVE BreakerInv'
  BY <1>1, AvailableKeeps DEF Start
<1>2. ASSUME NEW s \in Sends, Refuse(s) PROVE BreakerInv'
  BY <1>2, UnchangedKeeps DEF Refuse
<1>3. ASSUME NEW s \in Sends, Progress(s) PROVE BreakerInv'
  <2>1. ASSUME NEW n \in 0..MaxTransports, ResolveCard(s, n) PROVE BreakerInv'
    BY <2>1, UnchangedKeeps DEF ResolveCard
  <2>2. ASSUME NEW a, FactoryAnswers(s, a) PROVE BreakerInv'
    BY <2>2, EndingKeeps DEF FactoryAnswers
  <2>3. ASSUME NEW a, TransportAnswers(s, a) PROVE BreakerInv'
    BY <2>3, EndingKeeps, UnchangedKeeps DEF TransportAnswers
  <2>4. CASE Retry(s)
    BY <2>4, UnchangedKeeps DEF Retry
  <2> QED
    BY <1>3, <2>1, <2>2, <2>3, <2>4 DEF Progress
<1>4. ASSUME NEW p \in Probes, CheckPeer(p) PROVE BreakerInv'
  BY <1>4, UnchangedKeeps DEF CheckPeer
<1>5. ASSUME NEW p \in Probes, NEW h \in BOOLEAN, ProbeAnswers(p, h) PROVE BreakerInv'
  <2>1. recordSuccess \/ recordFailure("unhealthy")
    BY <1>5 DEF ProbeAnswers
  <2> QED
    BY <2>1, SuccessKeeps, FailureKeeps
<1>6. ASSUME NEW c \in Conditions, PeerChanges(c) PROVE BreakerInv'
  BY <1>6, UnchangedKeeps DEF PeerChanges
<1>7. CASE ClockTick
  BY <1>7, TickKeeps DEF ClockTick
<1>8. CASE UNCHANGED vars
  BY <1>8, UnchangedKeeps DEF vars
<1> QED
  BY <1>1, <1>2, <1>3, <1>4, <1>5, <1>6, <1>7, <1>8 DEF Next

(* The breaker's invariant holds in every state. *)
LEMMA BreakerAlways == Spec => []BreakerInv
<1>1. Init => BreakerInv
  <2> SUFFICES ASSUME Init PROVE BreakerInv
    OBVIOUS
  <2>1. halfOpenInFlight \in BOOLEAN
    BY Zenon DEF Init, BreakerInit
  <2>2. BreakerType /\ BreakerFollowsFailures
    BY <2>1, ThresholdAssumption, TimeoutAssumption
    DEF Init, BreakerInit, BreakerType, BreakerFollowsFailures, FailureCap
  <2>3. halfOpenInFlight = FALSE /\ circuit # "half-open"
    BY DEF Init, BreakerInit
  <2> QED
    BY <2>2, <2>3, <2>1, FlagEquation DEF BreakerInv, TrialSlotMatchesCircuit
<1> QED
  BY <1>1, BreakerStep, PTL DEF Spec

(* The circuit is closed exactly while fewer than failureThreshold calls   *)
(* in a row have failed, in every interleaving of recordSuccess() and      *)
(* recordFailure() by sends and health checks.                             *)
THEOREM BreakerFollows == Spec => []BreakerFollowsFailures
<1>1. BreakerInv => BreakerFollowsFailures
  BY DEF BreakerInv
<1> QED
  BY <1>1, BreakerAlways, PTL

(* halfOpenInFlight names the peer exactly while its circuit is half-open. *)
THEOREM TrialSlot == Spec => []TrialSlotMatchesCircuit
<1>1. BreakerInv => TrialSlotMatchesCircuit
  BY DEF BreakerInv
<1> QED
  BY <1>1, BreakerAlways, PTL

-----------------------------------------------------------------------------
(* Type correctness. *)

(* Updating a function at one argument keeps its type. *)
LEMMA UpdateType ==
  ASSUME NEW S, NEW T, NEW f \in [S -> T], NEW x \in S, NEW v \in T
  PROVE  [f EXCEPT ![x] = v] \in [S -> T]
  OBVIOUS

(* Every step keeps the types of the sends, the health checks and the peer. *)
LEMMA SendTypeStep == SendType /\ RetriesLeft /\ [Next]_vars => SendType'
<1> SUFFICES ASSUME SendType, RetriesLeft, [Next]_vars PROVE SendType'
  OBVIOUS
<1> USE DEF SendType
<1>1. ASSUME NEW s \in Sends, Start(s) PROVE SendType'
  <2>1. (circuit' = "half-open") \in BOOLEAN /\ FALSE \in BOOLEAN
    OBVIOUS
  <2>2. /\ trial' \in [Sends -> BOOLEAN] /\ denied' \in [Sends -> BOOLEAN]
        /\ again' \in [Sends -> BOOLEAN] /\ late' \in [Sends -> BOOLEAN]
    BY <1>1, <2>1, UpdateType, Zenon DEF Start
  <2>3. pc' \in [Sends -> Awaiting \cup Ended]
    BY <1>1 DEF Start, Awaiting, Calling
  <2>4. attempt' \in [Sends -> 0..maxRetries]
    BY <1>1, RetryAssumption DEF Start
  <2> QED
    BY <1>1, <2>2, <2>3, <2>4 DEF Start
<1>2. ASSUME NEW s \in Sends, Refuse(s) PROVE SendType'
  BY <1>2 DEF Refuse, Ended
<1>3. ASSUME NEW s \in Sends, Progress(s) PROVE SendType'
  <2>1. ASSUME Conclude(s, TRUE) \/ Conclude(s, FALSE) \/ FailAttempt(s)
                \/ \E error : ThrowAttempt(s, error)
        PROVE  pc' \in [Sends -> Awaiting \cup Ended] /\ attempt' \in [Sends -> 0..maxRetries]
    BY <2>1, RetryAssumption DEF Conclude, FailAttempt, ThrowAttempt, Awaiting, Calling, Ended
  <2>2. ASSUME LeaveTransports(s)
        PROVE  ifaces' \in [Sends -> 0..MaxTransports] /\ hop' \in [Sends -> 0..MaxTransports]
    BY <2>2, RetryAssumption DEF LeaveTransports
  <2>3. ASSUME NEW n \in 0..MaxTransports, ResolveCard(s, n) PROVE SendType'
    <3>1. pc' \in [Sends -> Awaiting \cup Ended]
      BY <2>3 DEF ResolveCard, Awaiting, Calling
    <3>2. ifaces' \in [Sends -> 0..MaxTransports] /\ hop' \in [Sends -> 0..MaxTransports]
      BY <2>3, RetryAssumption DEF ResolveCard
    <3>3. again' \in [Sends -> BOOLEAN] /\ late' \in [Sends -> BOOLEAN]
      BY <2>3 DEF ResolveCard
    <3> QED
      BY <2>3, <3>1, <3>2, <3>3 DEF ResolveCard
  <2>4. ASSUME NEW a, denied' = [denied EXCEPT ![s] = @ \/ a = "denied"]
        PROVE  denied' \in [Sends -> BOOLEAN]
    <3>1. (denied[s] \/ a = "denied") \in BOOLEAN
      OBVIOUS
    <3> QED
      BY <2>4, <3>1, UpdateType, Zenon
  <2>8. ASSUME late' = [late EXCEPT ![s] = FALSE] PROVE late' \in [Sends -> BOOLEAN]
    BY <2>8, UpdateType, Zenon
  <2>5. ASSUME NEW a, FactoryAnswers(s, a) PROVE SendType'
    BY <2>8, <2>5, <2>1, <2>2, <2>4 DEF FactoryAnswers
  <2>6. ASSUME NEW a, TransportAnswers(s, a) PROVE SendType'
    <3>1. CASE a = "unreachable" /\ hop[s] < ifaces[s]
      <4>1. hop' \in [Sends -> 0..MaxTransports]
        BY <2>6, <3>1, RetryAssumption DEF TransportAnswers
      <4> QED
        BY <2>6, <2>8, <3>1, <4>1, <2>4 DEF TransportAnswers
    <3>2. CASE ~(a = "unreachable" /\ hop[s] < ifaces[s])
      BY <2>6, <2>8, <3>2, <2>1, <2>2, <2>4 DEF TransportAnswers
    <3> QED
      BY <3>1, <3>2
  <2>7. CASE Retry(s)
    BY <2>7, RetryAssumption DEF Retry, RetriesLeft, Awaiting, Calling
  <2> QED
    BY <1>3, <2>3, <2>5, <2>6, <2>7 DEF Progress
<1>4. ASSUME NEW p \in Probes, CheckPeer(p) PROVE SendType'
  BY <1>4 DEF CheckPeer, sendVars
<1>5. ASSUME NEW p \in Probes, NEW h \in BOOLEAN, ProbeAnswers(p, h) PROVE SendType'
  BY <1>5 DEF ProbeAnswers, sendVars
<1>6. ASSUME NEW c \in Conditions, PeerChanges(c) PROVE SendType'
  BY <1>6 DEF PeerChanges
<1>7. CASE ClockTick
  BY <1>7 DEF ClockTick, sendVars
<1>8. CASE UNCHANGED vars
  BY <1>8 DEF vars, sendVars
<1> QED
  BY <1>1, <1>2, <1>3, <1>4, <1>5, <1>6, <1>7, <1>8 DEF Next

(* A send waits for a retry only while it has one left. *)
LEMMA RetriesLeftStep == SendType /\ RetriesLeft /\ [Next]_vars => RetriesLeft'
<1> SUFFICES ASSUME SendType, RetriesLeft, [Next]_vars, NEW u \in Sends, pc'[u] = "backoff"
             PROVE  attempt'[u] < maxRetries
  BY DEF RetriesLeft
<1> USE DEF SendType, RetriesLeft
<1>1. CASE pc'[u] = pc[u] /\ attempt'[u] = attempt[u]
  BY <1>1
<1>2. ASSUME NEW s \in Sends, Start(s) \/ Refuse(s) PROVE attempt'[u] < maxRetries
  <2>1. pc'[s] # "backoff"
    BY <1>2 DEF Start, Refuse
  <2> QED
    BY <1>1, <1>2, <2>1 DEF Start, Refuse
<1>3. ASSUME NEW s \in Sends, Progress(s) PROVE attempt'[u] < maxRetries
  <2>1. ASSUME Conclude(s, TRUE) \/ Conclude(s, FALSE) \/ FailAttempt(s)
                \/ \E error : ThrowAttempt(s, error)
        PROVE  attempt'[u] < maxRetries
    BY <1>1, <2>1 DEF Conclude, FailAttempt, ThrowAttempt
  <2>2. ASSUME NEW n \in 0..MaxTransports, ResolveCard(s, n) PROVE attempt'[u] < maxRetries
    BY <1>1, <2>2 DEF ResolveCard
  <2>3. ASSUME NEW a, FactoryAnswers(s, a) PROVE attempt'[u] < maxRetries
    BY <2>3, <2>1 DEF FactoryAnswers
  <2>4. ASSUME NEW a, TransportAnswers(s, a) PROVE attempt'[u] < maxRetries
    BY <1>1, <2>4, <2>1 DEF TransportAnswers
  <2>5. CASE Retry(s)
    BY <1>1, <2>5 DEF Retry
  <2> QED
    BY <1>3, <2>2, <2>3, <2>4, <2>5 DEF Progress
<1>4. CASE UNCHANGED <<pc, attempt>>
  BY <1>1, <1>4
<1> QED
  BY <1>2, <1>3, <1>4 DEF Next, CheckPeer, ProbeAnswers, PeerChanges, ClockTick, vars, sendVars

(* The types and the retries left, in every state. *)
LEMMA SendAlways == Spec => [](SendType /\ RetriesLeft)
<1>1. Init => SendType /\ RetriesLeft
  <2> SUFFICES ASSUME Init PROVE SendType /\ RetriesLeft
    OBVIOUS
  <2>1. /\ trial \in [Sends -> BOOLEAN]
        /\ denied \in [Sends -> BOOLEAN]
        /\ again \in [Sends -> BOOLEAN]
        /\ late \in [Sends -> BOOLEAN]
    BY DEF Init
  <2> QED
    BY <2>1, RetryAssumption DEF Init, SendType, RetriesLeft, Ended, Conditions
<1> QED
  BY <1>1, SendTypeStep, RetriesLeftStep, PTL DEF Spec

(* Every state of sendMessage(), withRetry(), the fallback loop and the    *)
(* breaker is well formed; in particular no send makes more than maxRetries *)
(* retries or walks past the last transport of its card.                   *)
THEOREM TypeCorrect == Spec => []TypeOK
<1>1. BreakerInv /\ SendType => TypeOK
  BY DEF BreakerInv, BreakerType, SendType, TypeOK
<1> QED
  BY <1>1, BreakerAlways, SendAlways, PTL

-----------------------------------------------------------------------------
(* Half-open circuits. *)

(* While the circuit stays half-open no further send is let through, for   *)
(* any number of concurrent senders: isAvailable() admits only the one     *)
(* that turned it half-open.                                               *)
THEOREM OneTrial == Spec => OneTrialPerHalfOpen
<1> DEFINE Admits == circuit = "half-open" /\ circuit' = "half-open"
                       => \A s \in Sends : InFlight(s)' => InFlight(s)
<1>1. SendType /\ BreakerInv /\ [Next]_vars => [Admits]_vars
  <2> SUFFICES ASSUME SendType, BreakerInv, [Next]_vars, circuit = "half-open",
                      circuit' = "half-open", NEW u \in Sends, InFlight(u)'
               PROVE  InFlight(u)
    OBVIOUS
  <2> USE DEF SendType
  <2>1. ASSUME NEW s \in Sends, Start(s) PROVE FALSE
    <3>1. ~halfOpenInFlight
      BY <2>1, Zenon DEF Start, isAvailable
    <3> QED
      BY <3>1 DEF BreakerInv, TrialSlotMatchesCircuit
  <2>2. ASSUME NEW s \in Sends, Refuse(s) PROVE InFlight(u)
    BY <2>2 DEF Refuse, InFlight, Awaiting, Calling
  <2>3. ASSUME NEW s \in Sends, Progress(s) PROVE InFlight(u)
    <3>1. pc[s] \in Awaiting
      BY <2>3 DEF Progress, ResolveCard, FactoryAnswers, TransportAnswers, Retry, Awaiting, Calling
    <3>2. u = s \/ pc'[u] = pc[u]
      BY <2>3 DEF Progress, ResolveCard, FactoryAnswers, TransportAnswers, Retry,
                  Conclude, FailAttempt, ThrowAttempt
    <3> QED
      BY <3>1, <3>2 DEF InFlight
  <2>4. CASE UNCHANGED pc
    BY <2>4 DEF InFlight
  <2> QED
    BY <2>1, <2>2, <2>3, <2>4
    DEF Next, CheckPeer, ProbeAnswers, PeerChanges, ClockTick, vars, sendVars
<1> QED
  BY <1>1, BreakerAlways, SendAlways, PTL DEF Spec, OneTrialPerHalfOpen

(* A result told to the breaker ends a half-open phase. *)
LEMMA ResultDecides ==
  ASSUME BreakerType, NEW seen, recordSuccess \/ recordFailure(seen)
  PROVE  circuit' # "half-open"
  BY DEF BreakerType, recordSuccess, recordFailure, Trips

(* With retries configured a send that makes progress either has told the  *)
(* breaker its result or is still in flight: nothing throws past withRetry(). *)
LEMMA ProgressTells ==
  ASSUME maxRetries > 0, SendType, NEW s \in Sends, Progress(s)
  PROVE  /\ trial' = trial
         /\ \A u \in Sends : u # s => pc'[u] = pc[u]
         /\ \/ recordSuccess \/ recordFailure(health)
            \/ (UNCHANGED breakerVars /\ pc'[s] \in Awaiting)
<1> USE DEF SendType
<1>1. ASSUME NEW error,
             Conclude(s, TRUE) \/ Conclude(s, FALSE) \/ FailAttempt(s) \/ ThrowAttempt(s, error)
      PROVE  /\ \A u \in Sends : u # s => pc'[u] = pc[u]
             /\ \/ recordSuccess \/ recordFailure(health)
                \/ (UNCHANGED breakerVars /\ pc'[s] \in Awaiting)
  BY <1>1, RetryAssumption DEF Conclude, FailAttempt, ThrowAttempt, Awaiting, Calling
<1>2. ASSUME NEW n \in 0..MaxTransports, ResolveCard(s, n)
      PROVE  trial' = trial /\ UNCHANGED breakerVars /\ pc'[s] \in Awaiting
             /\ \A u \in Sends : u # s => pc'[u] = pc[u]
  BY <1>2 DEF ResolveCard, Awaiting, Calling
<1>3. CASE Retry(s)
  BY <1>3 DEF Retry, Awaiting, Calling
<1>4. ASSUME NEW a, FactoryAnswers(s, a)
      PROVE  trial' = trial /\ (Conclude(s, TRUE) \/ ThrowAttempt(s, a))
  BY <1>4 DEF FactoryAnswers
<1>5. ASSUME NEW a, TransportAnswers(s, a)
      PROVE  /\ trial' = trial
             /\ \/ Conclude(s, TRUE) \/ FailAttempt(s)
                \/ (UNCHANGED <<breakerVars, pc>> /\ pc[s] \in Awaiting)
  BY <1>5 DEF TransportAnswers, Awaiting, Calling
<1> QED
  <2>1. CASE \E n \in 0..MaxTransports : ResolveCard(s, n)
    BY <2>1, <1>2
  <2>2. ASSUME NEW a, FactoryAnswers(s, a)
        PROVE  /\ trial' = trial
               /\ \A u \in Sends : u # s => pc'[u] = pc[u]
               /\ \/ recordSuccess \/ recordFailure(health)
                  \/ (UNCHANGED breakerVars /\ pc'[s] \in Awaiting)
    BY <2>2, <1>1, <1>4
  <2>3. ASSUME NEW a, TransportAnswers(s, a)
        PROVE  /\ trial' = trial
               /\ \A u \in Sends : u # s => pc'[u] = pc[u]
               /\ \/ recordSuccess \/ recordFailure(health)
                  \/ (UNCHANGED breakerVars /\ pc'[s] \in Awaiting)
    <3>1. CASE UNCHANGED <<breakerVars, pc>> /\ pc[s] \in Awaiting
      BY <2>3, <1>5, <3>1
    <3>2. CASE Conclude(s, TRUE) \/ FailAttempt(s)
      BY <2>3, <1>1, <1>5, <3>2
    <3> QED
      BY <2>3, <1>5, <3>1, <3>2
  <2>4. CASE Retry(s)
    BY <2>4 DEF Retry, Awaiting, Calling
  <2> QED
    BY <2>1, <2>2, <2>3, <2>4 DEF Progress

(* Every step keeps a half-open circuit owned. *)
LEMMA OwnerStep ==
  ASSUME maxRetries > 0, SendType, BreakerInv, HalfOpenHasOwner, [Next]_vars
  PROVE  HalfOpenHasOwner'
<1> SUFFICES ASSUME circuit' = "half-open"
             PROVE  \E s \in Sends : trial'[s] /\ pc'[s] \in Awaiting
  BY DEF HalfOpenHasOwner, InFlight
<1> USE DEF SendType
<1>0. BreakerType
  BY DEF BreakerInv
<1>1. ASSUME NEW s \in Sends, Start(s)
      PROVE  \E u \in Sends : trial'[u] /\ pc'[u] \in Awaiting
  <2>1. pc'[s] \in Awaiting
    BY <1>1 DEF Start, Awaiting, Calling
  <2>2. trial'[s] = (circuit' = "half-open")
    BY <1>1 DEF Start
  <2> QED
    BY <2>1, <2>2
<1>2. ASSUME circuit = "half-open"
      PROVE  \E u \in Sends : trial[u] /\ pc[u] \in Awaiting
  BY <1>2 DEF HalfOpenHasOwner, InFlight
<1>3. ASSUME NEW s \in Sends, Refuse(s)
      PROVE  \E u \in Sends : trial'[u] /\ pc'[u] \in Awaiting
  <2>1. circuit = "half-open" /\ trial' = trial
    BY <1>3 DEF Refuse, breakerVars
  <2>2. PICK u \in Sends : trial[u] /\ pc[u] \in Awaiting
    BY <2>1, <1>2
  <2>3. pc'[u] = pc[u]
    BY <1>3, <2>2 DEF Refuse, Ended, Awaiting, Calling
  <2> QED
    BY <2>1, <2>2, <2>3
<1>4. ASSUME NEW s \in Sends, Progress(s)
      PROVE  \E u \in Sends : trial'[u] /\ pc'[u] \in Awaiting
  <2>1. ~recordSuccess /\ ~recordFailure(health)
    BY <1>0, ResultDecides
  <2>2. /\ trial' = trial
        /\ \A u \in Sends : u # s => pc'[u] = pc[u]
        /\ UNCHANGED breakerVars /\ pc'[s] \in Awaiting
    BY <1>4, <2>1, ProgressTells
  <2>3. PICK u \in Sends : trial[u] /\ pc[u] \in Awaiting
    BY <1>2, <2>2 DEF breakerVars
  <2> QED
    BY <2>2, <2>3
<1>5. ASSUME NEW p \in Probes, NEW h \in BOOLEAN, ProbeAnswers(p, h) PROVE FALSE
  BY <1>0, <1>5, ResultDecides DEF ProbeAnswers
<1>6. CASE UNCHANGED <<circuit, pc, trial>>
  BY <1>2, <1>6
<1> QED
  BY <1>1, <1>3, <1>4, <1>5, <1>6
  DEF Next, CheckPeer, PeerChanges, ClockTick, Tick, vars, breakerVars, sendVars

(* With retries configured, whoever turned the circuit half-open is still  *)
(* in flight while it stays so, and tells the breaker its result if its    *)
(* calls end: the circuit never waits for a request nobody makes. Without  *)
(* retries this fails, because doSendViaFactory() throws past              *)
(* sendMessage().                                                          *)
THEOREM HalfOpenOwned ==
  ASSUME maxRetries > 0
  PROVE  Spec => []HalfOpenHasOwner
<1>1. Init => HalfOpenHasOwner
  BY DEF Init, BreakerInit, HalfOpenHasOwner
<1>2. SendType /\ BreakerInv /\ HalfOpenHasOwner /\ [Next]_vars => HalfOpenHasOwner'
  BY OwnerStep
<1> QED
  BY <1>1, <1>2, BreakerAlways, SendAlways, PTL DEF Spec

-----------------------------------------------------------------------------
(* A run of the agent                                                      *)

(* The timers and pending requests of a connection are those of its wait.  *)
WaitsMatch(g) ==
    /\ g.pending = {g.at} \cap Methods
    /\ g.timers = g.pending \cup (IF g.at = "opening" THEN {"open"} ELSE {})
                            \cup (IF g.challenge = "waiting" THEN {"challenge"} ELSE {})
    /\ g.challenge = "waiting" => g.at \in {"opening", "challenge"}

(* A connection whose wait matches its timers, whose socket is not open    *)
(* before the open event, and which is released when a dispatch that       *)
(* connected has ended.                                                    *)
ConnectionOK(g) ==
    /\ g \in Connections
    /\ WaitsMatch(g)
    /\ g.at = "start" => g.ws = "none"
    /\ g.at = "opening" => g.ws = "connecting"
    /\ g.connected => g.at \in {"agent", "chat.history"} \cup Ends
    /\ g.at \in {"agent", "chat.history"} => g.connected
    /\ g.connected /\ g.at \in Ends => g.ws = "closed" /\ ~g.held

(* The invariant of the executor: the heartbeat runs only during the       *)
(* dispatch, and a task that is new has a connection that was never used.  *)
ExecutorInv ==
    /\ conn \in [Tasks -> Connections]
    /\ stage \in [Tasks -> {"new", "dispatching", "waking", "done"}]
    /\ heartbeat \subseteq Tasks
    /\ last \in [Tasks -> {"none", "working", "completed", "failed", "canceled"}]
    /\ finished \in [Tasks -> BOOLEAN]
    /\ \A t \in Tasks : ConnectionOK(conn[t])
    /\ \A t \in Tasks : stage[t] = "new" => conn[t] = NewConnection
    /\ \A t \in heartbeat : stage[t] = "dispatching"

-----------------------------------------------------------------------------
(* A connection that waits for nothing and is released, if it connected,   *)
(* may end.                                                                *)
Idle(g) ==
    /\ g \in Connections
    /\ g.timers = {} /\ g.pending = {} /\ g.challenge # "waiting"
    /\ g.connected => g.ws = "closed" /\ ~g.held

(* A dispatch that ends in an idle connection leaves it in order.          *)
LEMMA EndOK ==
    ASSUME NEW g, Idle(g), NEW end \in Ends
    PROVE  ConnectionOK([g EXCEPT !.at = end])
  BY DEF Idle, ConnectionOK, Connections, WaitsMatch, Ends, Waits, Methods

(* close() leaves nothing armed or pending, whatever the connection was    *)
(* doing, as long as the open timer is off.                                *)
LEMMA CloseIdle ==
    ASSUME NEW g \in Connections,
           g.timers \subseteq g.pending \cup {"challenge"},
           "challenge" \in g.timers => g.challenge = "waiting"
    PROVE  /\ Idle(close(g))
           /\ close(g).connected = g.connected /\ close(g).device = g.device
<1> DEFINE h == [g EXCEPT !.held = FALSE, !.ws = "closed"]
           k == rejectConnectChallenge(h, FALSE)
<1>1. /\ h \in Connections /\ h.ws = "closed" /\ ~h.held
      /\ h.timers = g.timers /\ h.pending = g.pending /\ h.challenge = g.challenge
      /\ h.connected = g.connected /\ h.device = g.device
  BY DEF Connections
<1>2. /\ k \in Connections /\ k.ws = "closed" /\ ~k.held
      /\ k.timers \subseteq k.pending /\ k.challenge # "waiting"
      /\ k.connected = g.connected /\ k.device = g.device
  <2> HIDE DEF h
  <2>1. CASE h.challenge = "waiting"
    BY <1>1, <2>1 DEF rejectConnectChallenge, Connections, Methods
  <2>2. CASE h.challenge # "waiting"
    BY <1>1, <2>2 DEF rejectConnectChallenge
  <2> QED
    BY <2>1, <2>2
<1>3. close(g) = [k EXCEPT !.pending = {}, !.timers = @ \ k.pending]
  BY DEF close, rejectAllPending
<1> HIDE DEF k
<1> QED
  BY <1>2, <1>3 DEF Idle, Connections

(* A dispatch ends in order: inside the try block it is closed, before it  *)
(* nothing may be waited for any more.                                     *)
LEMMA FinishOK ==
    ASSUME NEW g \in Connections, NEW end \in Ends,
           g.timers \subseteq g.pending \cup {"challenge"},
           "challenge" \in g.timers => g.challenge = "waiting",
           g.at \notin {"agent", "chat.history"} => Idle(g)
    PROVE  ConnectionOK(Finish(g, end))
<1>1. CASE g.at \in {"agent", "chat.history"}
  BY <1>1, CloseIdle, EndOK DEF Finish
<1>2. CASE g.at \notin {"agent", "chat.history"}
  BY <1>2, EndOK DEF Finish
<1> QED
  BY <1>1, <1>2

(* request() is made of an idle connection: it waits for the answer, or    *)
(* the dispatch ends at once.                                              *)
LEMMA RequestOK ==
    ASSUME NEW g \in Connections, NEW method \in Methods,
           g.timers = {}, g.pending = {}, g.challenge # "waiting",
           g.connected <=> method \in {"agent", "chat.history"},
           NEW h \in Request(g, method)
    PROVE  ConnectionOK(h)
<1>1. CASE h = [g EXCEPT !.at = method, !.pending = @ \cup {method}, !.timers = @ \cup {method}]
  BY <1>1 DEF ConnectionOK, Connections, WaitsMatch, Ends, Waits, Methods
<1>2. CASE h = Finish([g EXCEPT !.at = method], "threw")
  <2> DEFINE k == [g EXCEPT !.at = method]
  <2>1. k \in Connections /\ k.timers = {} /\ k.pending = {} /\ k.challenge # "waiting"
        /\ k.at = method /\ k.connected = g.connected
    BY DEF Connections, Waits
  <2>2. k.at \notin {"agent", "chat.history"} => Idle(k)
    BY <2>1 DEF Idle
  <2> QED
    BY <1>2, <2>1, <2>2, FinishOK DEF Ends
<1> QED
  BY <1>1, <1>2 DEF Request

-----------------------------------------------------------------------------
(* Each callback of a connection in order leaves it in order.              *)

(* connect() and reconnect(), which begin with nothing armed.              *)
LEMMA OpensOK ==
    ASSUME NEW g \in Connections, NEW device \in BOOLEAN,
           g.timers = {}, g.pending = {}, ~g.connected
    PROVE  ConnectionOK(Opens(g, device))
  BY DEF Opens, ConnectionOK, Connections, WaitsMatch, Ends, Waits, Methods

(* The open event, with the challenge still awaited or already rejected.   *)
LEMMA OnOpenOK ==
    ASSUME NEW g, ConnectionOK(g), g.at = "opening"
    PROVE  ConnectionOK(OnOpen(g))
<1>1. CASE g.challenge = "rejected"
  <2> DEFINE k == [g EXCEPT !.ws = "open", !.timers = @ \ {"open"}, !.handled = TRUE]
  <2>1. Idle(k)
    BY <1>1 DEF ConnectionOK, WaitsMatch, Connections, Idle, Ends, Waits, Methods
  <2> QED
    BY <1>1, <2>1, FinishOK DEF OnOpen, Ends, Idle
<1>2. CASE g.challenge # "rejected"
  BY <1>2 DEF OnOpen, ConnectionOK, WaitsMatch, Connections, Ends, Waits, Methods
<1> QED
  BY <1>1, <1>2

(* onError, onClose and the open timer.                                    *)
LEMMA OpenFailsOK ==
    ASSUME NEW g, ConnectionOK(g), g.at = "opening", NEW ws \in {"connecting", "closed"}
    PROVE  ConnectionOK(OpenFails(g, ws))
<1> DEFINE k == rejectConnectChallenge([g EXCEPT !.ws = ws, !.timers = @ \ {"open"}], g.device)
<1>1. Idle(k)
  BY DEF ConnectionOK, WaitsMatch, Connections, Idle, Ends, Waits, Methods, rejectConnectChallenge
<1> QED
  BY <1>1, FinishOK DEF OpenFails, Ends, Idle

(* The 2 s timer of the challenge, before or after the open event.         *)
LEMMA ChallengeTimesOutOK ==
    ASSUME NEW g, ConnectionOK(g), g.challenge = "waiting"
    PROVE  ConnectionOK(ChallengeTimesOut(g))
<1> DEFINE k == rejectConnectChallenge(g, FALSE)
<1>1. CASE g.at = "challenge"
  <2>1. Idle(k)
    BY <1>1 DEF ConnectionOK, WaitsMatch, Connections, Idle, Ends, Waits, Methods, rejectConnectChallenge
  <2> QED
    BY <1>1, <2>1, FinishOK DEF ChallengeTimesOut, Ends, Idle
<1>2. CASE g.at # "challenge"
  BY <1>2 DEF ChallengeTimesOut, rejectConnectChallenge, ConnectionOK, WaitsMatch, Connections,
              Ends, Waits, Methods
<1> QED
  BY <1>1, <1>2

(* The event is for a socket that is open, so after the open event.        *)
LEMMA ChallengeArrivesOK ==
    ASSUME NEW g, ConnectionOK(g), g.challenge = "waiting", g.ws = "open",
           NEW h \in ChallengeArrives(g)
    PROVE  ConnectionOK(h)
<1> DEFINE k == [g EXCEPT !.challenge = "resolved", !.timers = @ \ {"challenge"}]
<1>1. k \in Connections /\ k.timers = {} /\ k.pending = {} /\ k.challenge # "waiting" /\ ~k.connected
  BY DEF ConnectionOK, WaitsMatch, Connections, Ends, Waits, Methods
<1> QED
  BY <1>1, RequestOK DEF ChallengeArrives, Methods

(* A connection whose pending request is settled waits for nothing.        *)
LEMMA SettleIdle ==
    ASSUME NEW g, ConnectionOK(g), NEW method \in g.pending
    PROVE  /\ Settle(g, method) \in Connections
           /\ Settle(g, method).timers = {} /\ Settle(g, method).pending = {}
           /\ Settle(g, method).challenge # "waiting"
           /\ Settle(g, method).at = method /\ method \in Methods
           /\ Settle(g, method).device = g.device
           /\ Settle(g, method).connected = g.connected
           /\ g.connected => method \in {"agent", "chat.history"}
  BY DEF ConnectionOK, WaitsMatch, Connections, Settle, Ends, Waits, Methods

(* The answer of a request, or its timer, ends the dispatch.               *)
LEMMA SettleFinishOK ==
    ASSUME NEW g, ConnectionOK(g), NEW method \in g.pending, NEW end \in Ends
    PROVE  ConnectionOK(Finish(Settle(g, method), end))
<1> DEFINE k == Settle(g, method)
<1>1. k.at \notin {"agent", "chat.history"} => Idle(k)
  BY SettleIdle DEF Idle
<1> QED
  BY <1>1, SettleIdle, FinishOK

(* The gateway's answer to connect, with the reconnect it may lead to.     *)
LEMMA ConnectAnsweredOK ==
    ASSUME NEW g, ConnectionOK(g), "connect" \in g.pending, NEW answer,
           NEW h \in ConnectAnswered(g, answer)
    PROVE  ConnectionOK(h)
<1> DEFINE k == Settle(g, "connect")
<1>1. /\ k \in Connections /\ k.timers = {} /\ k.pending = {} /\ k.challenge # "waiting"
      /\ k.at = "connect" /\ ~k.connected
  BY SettleIdle
<1> HIDE DEF k
<1>2. CASE answer = "ok"
  <2> DEFINE c == [k EXCEPT !.connected = TRUE]
  <2>1. c \in Connections /\ c.timers = {} /\ c.pending = {} /\ c.challenge # "waiting" /\ c.connected
    BY <1>1 DEF Connections
  <2>2. h \in Request(c, "agent")
    BY <1>2 DEF ConnectAnswered, k
  <2> QED
    BY <2>1, <2>2, RequestOK DEF Methods
<1>3. CASE answer = "pairing required" /\ g.device
  <2>1. Idle(close(k)) /\ ~close(k).connected
    BY <1>1, CloseIdle
  <2>2. h = Opens(close(k), FALSE)
    BY <1>3 DEF ConnectAnswered, reconnect, k
  <2> QED
    BY <2>1, <2>2, OpensOK DEF Idle
<1>4. CASE ~(answer = "ok") /\ ~(answer = "pairing required" /\ g.device)
  <2>1. h = Finish(k, "threw")
    BY <1>4 DEF ConnectAnswered, k
  <2> QED
    BY <2>1, SettleFinishOK DEF Ends, k
<1> QED
  BY <1>2, <1>3, <1>4

(* The gateway's answers to agent, final or not.                           *)
LEMMA AgentAnsweredOK ==
    ASSUME NEW g, ConnectionOK(g), "agent" \in g.pending, NEW answer,
           NEW h \in AgentAnswered(g, answer)
    PROVE  ConnectionOK(h)
<1> g.connected
  BY DEF ConnectionOK, WaitsMatch, Methods
<1>1. CASE answer = "accepted"
  BY <1>1 DEF AgentAnswered
<1>2. CASE answer = "text"
  BY <1>2, SettleFinishOK DEF AgentAnswered, Ends
<1>3. CASE answer = "ok"
  BY <1>3, SettleIdle, RequestOK DEF AgentAnswered, Methods
<1>4. CASE answer \notin {"accepted", "text", "ok"}
  BY <1>4, SettleFinishOK DEF AgentAnswered, Ends
<1> QED
  BY <1>1, <1>2, <1>3, <1>4

(* The close event of the socket, once it is open.                         *)
LEMMA SocketClosesOK ==
    ASSUME NEW g, ConnectionOK(g), g.ws = "open"
    PROVE  ConnectionOK(SocketCloses(g))
<1> DEFINE h == [g EXCEPT !.ws = "closed"]
           k == rejectConnectChallenge(h, FALSE)
           c == rejectAllPending(k)
<1>1. /\ h \in Connections /\ h.ws = "closed" /\ h.held = g.held
      /\ h.timers = g.timers /\ h.pending = g.pending /\ h.challenge = g.challenge
      /\ h.connected = g.connected /\ h.at = g.at
  BY DEF ConnectionOK, Connections
<1>2. /\ k \in Connections /\ k.ws = "closed" /\ k.held = g.held
      /\ k.timers = k.pending /\ k.challenge # "waiting"
      /\ k.connected = g.connected /\ k.at = g.at
  <2> HIDE DEF h
  <2>1. CASE h.challenge = "waiting"
    BY <1>1, <2>1 DEF rejectConnectChallenge, Connections, Methods, ConnectionOK, WaitsMatch
  <2>2. CASE h.challenge # "waiting"
    BY <1>1, <2>2 DEF rejectConnectChallenge, Connections, Methods, ConnectionOK, WaitsMatch
  <2> QED
    BY <2>1, <2>2
<1>3. /\ c \in Connections /\ c.ws = "closed" /\ c.held = g.held
      /\ c.timers = {} /\ c.pending = {} /\ c.challenge # "waiting"
      /\ c.connected = g.connected /\ c.at = g.at
  <2> HIDE DEF k
  <2> QED
    BY <1>2 DEF rejectAllPending, Connections
<1>4. SocketCloses(g) = IF g.at \in Waits THEN Finish(c, "threw") ELSE c
  BY DEF SocketCloses
<1> HIDE DEF c
<1>5. CASE g.at \in Waits
  <2>1. c.at \notin {"agent", "chat.history"} => Idle(c)
    BY <1>3, <1>5 DEF Idle, ConnectionOK, Ends, Waits, Methods
  <2> QED
    BY <1>3, <1>4, <1>5, <2>1, FinishOK DEF Ends
<1>6. CASE g.at \notin Waits
  BY <1>3, <1>4, <1>6 DEF ConnectionOK, WaitsMatch, Ends, Waits, Methods
<1> QED
  BY <1>5, <1>6

-----------------------------------------------------------------------------
(* The executor *)

(* The initial states satisfy the invariant.                               *)
LEMMA ExecutorStart == ExecutorInit => ExecutorInv
<1> SUFFICES ASSUME ExecutorInit PROVE ExecutorInv
  OBVIOUS
<1>1. NewConnection \in Connections /\ ConnectionOK(NewConnection)
  BY DEF NewConnection, ConnectionOK, WaitsMatch, Connections, Ends, Waits, Methods
<1> QED
  BY <1>1 DEF ExecutorInit, ExecutorInv

(* A callback that leaves the connection in order leaves the executor in   *)
(* order, whatever execute() does about it.                                *)
LEMMA CallbackStep ==
    ASSUME ExecutorInv, NEW t \in Tasks, NEW G, Callback(t, G),
           conn[t].at # "start", \A g \in G : ConnectionOK(g)
    PROVE  ExecutorInv'
<1>1. PICK g \in G : conn' = [conn EXCEPT ![t] = g]
  BY DEF Callback
<1>2. ConnectionOK(g) /\ g \in Connections
  BY <1>1 DEF ConnectionOK
<1>3. /\ conn' \in [Tasks -> Connections]
      /\ \A u \in Tasks : ConnectionOK(conn'[u])
      /\ \A u \in Tasks \ {t} : conn'[u] = conn[u]
  BY <1>1, <1>2 DEF ExecutorInv
<1>4. stage[t] # "new"
  BY DEF ExecutorInv, NewConnection
<1>5. CASE stage[t] = "dispatching" /\ conn'[t].at = "returned"
  <2>1. /\ heartbeat' = heartbeat \ {t}
        /\ stage' = [stage EXCEPT ![t] = "done"]
        /\ last' = [last EXCEPT ![t] = "completed"]
        /\ finished' = [finished EXCEPT ![t] = TRUE]
    BY <1>5 DEF Callback, Resume, clearHeartbeat, ConcludeRun, publish
  <2> QED
    BY <1>3, <1>4, <2>1 DEF ExecutorInv
<1>6. CASE stage[t] = "dispatching" /\ conn'[t].at = "threw"
  <2>1. /\ heartbeat' = heartbeat \ {t}
        /\ stage' = [stage EXCEPT ![t] = "waking"]
        /\ UNCHANGED <<last, finished>>
    BY <1>6 DEF Callback, Resume, clearHeartbeat
  <2> QED
    BY <1>3, <1>4, <2>1 DEF ExecutorInv
<1>7. CASE ~(stage[t] = "dispatching" /\ conn'[t].at = "returned")
           /\ ~(stage[t] = "dispatching" /\ conn'[t].at = "threw")
  <2>1. UNCHANGED <<heartbeat, stage, last, finished>>
    BY <1>7 DEF Callback, Resume
  <2> QED
    BY <1>3, <1>4, <2>1 DEF ExecutorInv
<1> QED
  BY <1>5, <1>6, <1>7

(* A task is executed from a connection that was never used.               *)
LEMMA ExecuteStep ==
    ASSUME ExecutorInv, NEW t \in Tasks, Execute(t)
    PROVE  ExecutorInv'
<1>1. conn[t] = NewConnection
  BY DEF Execute, ExecutorInv
<1>2. ConnectionOK(Opens(NewConnection, TRUE))
  <2>1. /\ NewConnection \in Connections /\ ~NewConnection.connected
        /\ NewConnection.timers = {} /\ NewConnection.pending = {}
    BY DEF NewConnection, Connections, Waits, Methods, Ends
  <2> QED
    BY <2>1, OpensOK
<1>3. conn' = [conn EXCEPT ![t] = Opens(NewConnection, TRUE)]
  BY <1>1 DEF Execute
<1>4. /\ conn' \in [Tasks -> Connections]
      /\ \A u \in Tasks : ConnectionOK(conn'[u])
      /\ \A u \in Tasks \ {t} : conn'[u] = conn[u]
  BY <1>2, <1>3 DEF ExecutorInv, ConnectionOK
<1> QED
  BY <1>4 DEF Execute, publish, ExecutorInv

(* A connection that was never opened waits for nothing.                   *)
LEMMA OfflineStep ==
    ASSUME ExecutorInv, NEW t \in Tasks, ExecuteOffline(t)
    PROVE  ExecutorInv'
<1> DEFINE g == [NewConnection EXCEPT !.at = "threw"]
<1>1. conn' = [conn EXCEPT ![t] = g] /\ stage[t] = "new"
  BY DEF ExecuteOffline, ExecutorInv
<1>2. ConnectionOK(g) /\ g \in Connections
  BY DEF NewConnection, ConnectionOK, WaitsMatch, Connections, Ends, Waits, Methods
<1>3. /\ conn' \in [Tasks -> Connections]
      /\ \A u \in Tasks : ConnectionOK(conn'[u])
      /\ \A u \in Tasks \ {t} : conn'[u] = conn[u]
  BY <1>1, <1>2 DEF ExecutorInv
<1> QED
  BY <1>1, <1>3 DEF ExecuteOffline, publish, ExecutorInv

(* Every step keeps the invariant: one case for each action.               *)
LEMMA ExecutorStep == ExecutorInv /\ [ExecutorNext]_executorVars => ExecutorInv'
<1> SUFFICES ASSUME ExecutorInv, [ExecutorNext]_executorVars PROVE ExecutorInv'
  OBVIOUS
<1>0. \A t \in Tasks : ConnectionOK(conn[t])
  BY DEF ExecutorInv
<1>1. ASSUME NEW t \in Tasks, ExecuteRefused(t) PROVE ExecutorInv'
  BY <1>1 DEF ExecuteRefused, ConcludeRun, publish, ExecutorInv
<1>2. ASSUME NEW t \in Tasks, Execute(t) PROVE ExecutorInv'
  BY <1>2, ExecuteStep
<1>15. ASSUME NEW t \in Tasks, ExecuteOffline(t) PROVE ExecutorInv'
  BY <1>15, OfflineStep
<1>3. ASSUME NEW t \in Tasks, Heartbeat(t) PROVE ExecutorInv'
  BY <1>3 DEF Heartbeat, publish, ExecutorInv
<1>4. ASSUME NEW t \in Tasks, OpenTimer(t) PROVE ExecutorInv'
  <2>1. conn[t].at = "opening"
    BY <1>0, <1>4 DEF OpenTimer, ConnectionOK, WaitsMatch, Methods
  <2>2. ConnectionOK(OpenFails(conn[t], "connecting"))
    BY <1>0, <2>1, OpenFailsOK
  <2> QED
    BY <1>4, <2>1, <2>2, CallbackStep DEF OpenTimer
<1>5. ASSUME NEW t \in Tasks, ChallengeTimer(t) PROVE ExecutorInv'
  <2>1. conn[t].challenge = "waiting" /\ conn[t].at # "start"
    BY <1>0, <1>5 DEF ChallengeTimer, ConnectionOK, WaitsMatch, Methods
  <2>2. ConnectionOK(ChallengeTimesOut(conn[t]))
    BY <1>0, <2>1, ChallengeTimesOutOK
  <2> QED
    BY <1>5, <2>1, <2>2, CallbackStep DEF ChallengeTimer
<1>6. ASSUME NEW t \in Tasks, RequestTimer(t) PROVE ExecutorInv'
  <2>1. PICK m \in conn[t].timers \cap Methods : Callback(t, {RequestTimesOut(conn[t], m)})
    BY <1>6 DEF RequestTimer
  <2>2. m \in conn[t].pending /\ conn[t].at # "start"
    BY <1>0, <2>1 DEF ConnectionOK, WaitsMatch, Methods
  <2>3. ConnectionOK(RequestTimesOut(conn[t], m))
    BY <1>0, <2>2, SettleFinishOK DEF RequestTimesOut, Ends
  <2> QED
    BY <2>1, <2>2, <2>3, CallbackStep
<1>7. ASSUME NEW t \in Tasks, SocketOpens(t) PROVE ExecutorInv'
  <2>1. ConnectionOK(OnOpen(conn[t]))
    BY <1>0, <1>7, OnOpenOK DEF SocketOpens
  <2> QED
    BY <1>7, <2>1, CallbackStep DEF SocketOpens
<1>8. ASSUME NEW t \in Tasks, SocketFails(t) PROVE ExecutorInv'
  <2>1. ConnectionOK(OpenFails(conn[t], "closed"))
    BY <1>0, <1>8, OpenFailsOK DEF SocketFails
  <2> QED
    BY <1>8, <2>1, CallbackStep DEF SocketFails
<1>9. ASSUME NEW t \in Tasks, GatewayCloses(t) PROVE ExecutorInv'
  <2>1. ConnectionOK(SocketCloses(conn[t]))
    BY <1>0, <1>9, SocketClosesOK DEF GatewayCloses
  <2>2. conn[t].at # "start"
    BY <1>0, <1>9 DEF GatewayCloses, ConnectionOK
  <2> QED
    BY <1>9, <2>1, <2>2, CallbackStep DEF GatewayCloses
<1>10. ASSUME NEW t \in Tasks, GatewayChallenges(t) PROVE ExecutorInv'
  <2>1. \A h \in ChallengeArrives(conn[t]) : ConnectionOK(h)
    BY <1>0, <1>10, ChallengeArrivesOK DEF GatewayChallenges
  <2>2. conn[t].at # "start"
    BY <1>0, <1>10 DEF GatewayChallenges, ConnectionOK, WaitsMatch
  <2> QED
    BY <1>10, <2>1, <2>2, CallbackStep DEF GatewayChallenges
<1>11. ASSUME NEW t \in Tasks, GatewayAnswers(t) PROVE ExecutorInv'
  <2>1. ASSUME "connect" \in conn[t].pending, NEW a, Callback(t, ConnectAnswered(conn[t], a))
        PROVE  ExecutorInv'
    <3>1. \A h \in ConnectAnswered(conn[t], a) : ConnectionOK(h)
      BY <1>0, <2>1, ConnectAnsweredOK
    <3>2. conn[t].at # "start"
      BY <1>0, <2>1 DEF ConnectionOK, WaitsMatch, Methods
    <3> QED
      BY <2>1, <3>1, <3>2, CallbackStep
  <2>2. ASSUME "agent" \in conn[t].pending, NEW a, Callback(t, AgentAnswered(conn[t], a))
        PROVE  ExecutorInv'
    <3>1. \A h \in AgentAnswered(conn[t], a) : ConnectionOK(h)
      BY <1>0, <2>2, AgentAnsweredOK
    <3>2. conn[t].at # "start"
      BY <1>0, <2>2 DEF ConnectionOK, WaitsMatch, Methods
    <3> QED
      BY <2>2, <3>1, <3>2, CallbackStep
  <2>3. ASSUME "chat.history" \in conn[t].pending, NEW a, Callback(t, HistoryAnswered(conn[t], a))
        PROVE  ExecutorInv'
    <3>1. \A h \in HistoryAnswered(conn[t], a) : ConnectionOK(h)
      BY <1>0, <2>3, SettleFinishOK DEF HistoryAnswered, Ends
    <3>2. conn[t].at # "start"
      BY <1>0, <2>3 DEF ConnectionOK, WaitsMatch, Methods
    <3> QED
      BY <2>3, <3>1, <3>2, CallbackStep
  <2> QED
    BY <1>11, <2>1, <2>2, <2>3 DEF GatewayAnswers
<1>12. ASSUME NEW t \in Tasks, WakeEnds(t) PROVE ExecutorInv'
  BY <1>12 DEF WakeEnds, ConcludeRun, publish, ExecutorInv
<1>13. ASSUME NEW t \in Tasks, CancelTask(t) PROVE ExecutorInv'
  BY <1>13 DEF CancelTask, publish, ExecutorInv
<1>14. ASSUME UNCHANGED executorVars PROVE ExecutorInv'
  BY <1>14 DEF executorVars, ExecutorInv
<1> QED
  BY <1>1, <1>2, <1>3, <1>4, <1>5, <1>6, <1>7, <1>8, <1>9, <1>10, <1>11, <1>12, <1>13, <1>14, <1>15
  DEF ExecutorNext, Timers, Environment

(* The invariant holds throughout, with or without fairness.               *)
LEMMA ExecutorInvariant == ExecutorSpec => []ExecutorInv
  BY ExecutorStart, ExecutorStep, PTL DEF ExecutorSpec

(* For any number of tasks that run beside each other, the timers and the  *)
(* pending requests of every connection are those of what it waits for     *)
(* (GatewayRpcConnection of executor.ts).                                  *)
THEOREM TimersAreOwned == ExecutorSpec => []TimersMatchWaits
<1>1. ExecutorInv => TimersMatchWaits
  BY DEF ExecutorInv, ConnectionOK, WaitsMatch, TimersMatchWaits
<1> QED
  BY <1>1, ExecutorInvariant, PTL

(* A dispatch that connected leaves no socket and no listeners behind,     *)
(* however it ends (the finally block of dispatchViaGatewayRpc).           *)
THEOREM SocketsAreReleased == ExecutorSpec => []ConnectedIsClosed
<1>1. ExecutorInv => ConnectedIsClosed
  BY DEF ExecutorInv, ConnectionOK, ConnectedIsClosed
<1> QED
  BY <1>1, ExecutorInvariant, PTL

(* Nothing is published of a run after its result, for any number of tasks *)
(* beside each other: neither a heartbeat nor a late callback of its       *)
(* connection (execute(), cancelTask()).                                   *)
THEOREM ResultHasLastWord == ExecutorSpec => NothingAfterResult
<1> DEFINE Silent == \A t \in Tasks : stage[t] = "done"
                                      => last'[t] = last[t] /\ finished'[t] = finished[t]
<1>1. ExecutorInv /\ [ExecutorNext]_executorVars => [Silent]_executorVars
  <2> SUFFICES ASSUME ExecutorInv, ExecutorNext, NEW u \in Tasks, stage[u] = "done"
               PROVE  last'[u] = last[u] /\ finished'[u] = finished[u]
    OBVIOUS
  <2>1. u \notin heartbeat
    BY DEF ExecutorInv
  <2>2. ASSUME NEW t \in Tasks, Resume(t) PROVE last'[u] = last[u] /\ finished'[u] = finished[u]
    BY <2>2 DEF Resume, ConcludeRun, publish, ExecutorInv
  <2>3. ASSUME NEW t \in Tasks, Timers(t) \/ Environment(t) PROVE Resume(t)
    BY <2>3 DEF Timers, OpenTimer, ChallengeTimer, RequestTimer, Environment, SocketOpens,
                SocketFails, GatewayCloses, GatewayChallenges, GatewayAnswers, Callback
  <2>4. ASSUME NEW t \in Tasks, \/ ExecuteRefused(t) \/ Execute(t) \/ ExecuteOffline(t)
                                \/ Heartbeat(t) \/ WakeEnds(t) \/ CancelTask(t)
        PROVE  last'[u] = last[u] /\ finished'[u] = finished[u]
    BY <2>1, <2>4 DEF ExecuteRefused, Execute, ExecuteOffline, Heartbeat, WakeEnds, CancelTask,
                      ConcludeRun, publish, ExecutorInv
  <2> QED
    BY <2>2, <2>3, <2>4 DEF ExecutorNext
<1> QED
  BY <1>1, ExecutorInvariant, PTL DEF ExecutorSpec, NothingAfterResult
=============================================================================
