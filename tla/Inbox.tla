-------------------------------- MODULE Inbox --------------------------------
(***************************************************************************)
(* The receiver of the gateway-to-gateway protocol: the HTTP inbox         *)
(* (src/src/internal/transport.ts), the checks of a signed request and of  *)
(* its envelope (security.ts, envelope.ts) and the store of responses by   *)
(* idempotency key (idempotency.ts), all in memory.                        *)
(*                                                                         *)
(* The handler that strings them together, InboundHandlers.onMessage, is   *)
(* the library's user and not in the repository. One such handler is       *)
(* assumed: it refuses a request that is not signed by a known peer just   *)
(* now or whose nonce it has seen, then one whose envelope is not valid,   *)
(* answers from the stored response, and otherwise does the work of the    *)
(* message and stores the response. Its order and its status codes are     *)
(* assumptions (Refuse, Accept, Work); the checks and stores it calls are  *)
(* the library's.                                                          *)
(***************************************************************************)
EXTENDS Integers, FiniteSets

CONSTANTS
    Nonces,         \* what signRequest() may draw
    Keys,           \* idempotency keys
    Payloads,       \* payload fingerprints
    gatewayId,      \* this gateway
    maxHops, maxPayloadBytes, MAX_BODY_BYTES,
    skew,           \* skewSeconds
    nonceTtl,       \* how long a nonce is kept
    responseTtl     \* how long a response is kept

ASSUME InboxAssumption ==
    /\ {maxHops, maxPayloadBytes, MAX_BODY_BYTES, skew, nonceTtl, responseTtl} \subseteq Nat
    /\ nonceTtl > 2 * skew      \* a nonce outlives every timestamp it is valid with

VARIABLES
    known,          \* PeerRegistry: the sender is registered
    nonces,         \* NonceCache: when each nonce expires, 0 if it is not there
    responses,      \* IdempotencyStore: [payload, expires_at] of each key
    working,        \* requests whose work is under way
    waiting,        \* nonces of the requests whose connection is still open
    answers,        \* <<nonce, status code>> of the answers on their way back
    accepted        \* how often this process accepted each nonce

inboxVars == <<known, nonces, responses, working, waiting, answers, accepted>>

NoResponse == [payload |-> "none", expires_at |-> 0]

InboxInit ==
    /\ known = FALSE
    /\ nonces = [n \in Nonces |-> 0]
    /\ responses = [k \in Keys |-> NoResponse]
    /\ working = {}
    /\ accepted = [n \in Nonces |-> 0]
    /\ waiting = {}
    /\ answers = {}

-----------------------------------------------------------------------------
(* The checks *)

(* Mutant: the comparison is of rounded seconds. *)
checkRounded(r, now) == now - r.timestamp <= skew + 1 /\ r.timestamp - now <= skew + 1

checkTimestamp(r, now) == now - r.timestamp <= skew /\ r.timestamp - now <= skew

(* NonceCache.add() refuses a nonce that is there and has not expired, and *)
(* otherwise keeps it from now on.                                         *)
Fresh(n, now) == nonces[n] <= now

add(n, now) == nonces' = [nonces EXCEPT ![n] = now + nonceTtl]

(* validateEnvelope(): the first check that fails names the error. *)
validateEnvelope(e, now) ==
    IF ~e.wellFormed                              THEN "MISSING_FIELD"
    ELSE IF e.timestamp + e.ttl_seconds <= now    THEN "EXPIRED"
    ELSE IF gatewayId \in e.route_path            THEN "LOOP_DETECTED"
    ELSE IF e.hop_count >= maxHops                THEN "HOP_LIMIT"
    ELSE IF e.size > maxPayloadBytes              THEN "PAYLOAD_TOO_LARGE"
    ELSE "ok"

(* IdempotencyStore.check() *)
check(k, payload, now) ==
    IF responses[k].expires_at <= now        THEN "new"
    ELSE IF responses[k].payload = payload   THEN "duplicate"
    ELSE "conflict"

(* IdempotencyStore.store() *)
store(k, payload, now) ==
    responses' = [responses EXCEPT ![k] = [payload |-> payload, expires_at |-> now + responseTtl]]

(* An answer goes nowhere once the sender has closed the connection.       *)
Answer(r, code) ==
    answers' = answers \cup (IF r.nonce \in waiting THEN {<<r.nonce, code>>} ELSE {})

-----------------------------------------------------------------------------
(* The requests *)

addPeer ==
    /\ ~known
    /\ known' = TRUE
    /\ UNCHANGED <<waiting, nonces, responses, working, answers, accepted>>

(* handleRequest() and readBody(): a body over the limit never reaches the *)
(* handler. The connection is destroyed too, so the answer may get lost.   *)
TooLarge(r) ==
    /\ r.envelope.size > MAX_BODY_BYTES
    /\ Answer(r, 413)
    /\ UNCHANGED <<known, waiting, nonces, responses, working, accepted>>

Authentic(r, now) == known /\ checkTimestamp(r, now) /\ Fresh(r.nonce, now)

(* The handler refuses a request that is not authentic. *)
Refuse(r, now) ==
    /\ r.envelope.size <= MAX_BODY_BYTES
    /\ ~Authentic(r, now)
    /\ Answer(r, 401)
    /\ UNCHANGED <<known, waiting, nonces, responses, working, accepted>>

(* The handler takes an authentic request. A message that was dealt with   *)
(* is answered from the store; the work of a new one begins.               *)
Accept(r, now) ==
    LET verdict == validateEnvelope(r.envelope, now)
        seen    == check(r.envelope.key, r.envelope.payload, now) IN
    /\ r.envelope.size <= MAX_BODY_BYTES
    /\ Authentic(r, now)
    /\ add(r.nonce, now)
    /\ accepted' = [accepted EXCEPT ![r.nonce] = @ + 1]
    /\ \/ verdict # "ok" /\ Answer(r, 422) /\ UNCHANGED working
       \/ verdict = "ok" /\ seen = "conflict" /\ Answer(r, 409) /\ UNCHANGED working
       \/ verdict = "ok" /\ seen = "duplicate" /\ Answer(r, 200) /\ UNCHANGED working
       \/ verdict = "ok" /\ seen = "new" /\ working' = working \cup {r} /\ UNCHANGED answers
    /\ UNCHANGED <<known, waiting, responses>>

(* The handler has done the work and stored the response. *)
Work(r, now) ==
    /\ r \in working
    /\ working' = working \ {r}
    /\ store(r.envelope.key, r.envelope.payload, now)
    /\ Answer(r, 200)
    /\ UNCHANGED <<known, waiting, nonces, accepted>>

(* processBody() catches: the handler threw, or it stored the response and *)
(* returned a body that is not JSON.                                       *)
WorkFails(r, now) ==
    /\ r \in working
    /\ working' = working \ {r}
    /\ store(r.envelope.key, r.envelope.payload, now) \/ UNCHANGED responses
    /\ Answer(r, 500)
    /\ UNCHANGED <<known, waiting, nonces, accepted>>

(* The timers of NonceCache and IdempotencyStore drop what has expired. *)
cleanupExpired(now) ==
    /\ nonces' = [n \in Nonces |-> IF nonces[n] <= now THEN 0 ELSE nonces[n]]
    /\ responses' = [k \in Keys |-> IF responses[k].expires_at <= now
                                    THEN NoResponse ELSE responses[k]]
    /\ UNCHANGED <<known, waiting, working, answers, accepted>>

(* A restart loses the nonces, the responses and the work under way. *)
RestartInbox ==
    /\ nonces' = [n \in Nonces |-> 0]
    /\ responses' = [k \in Keys |-> NoResponse]
    /\ working' = {}
    /\ accepted' = [n \in Nonces |-> 0]
    /\ UNCHANGED <<known, waiting, answers>>
=============================================================================
