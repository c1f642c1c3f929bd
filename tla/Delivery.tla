------------------------------ MODULE Delivery ------------------------------
(***************************************************************************)
(* The gateway-to-gateway protocol end to end: the relay of one gateway's  *)
(* outbox sends signed requests over a network that loses, delays and      *)
(* repeats them, and another gateway's inbox answers. sendFn signs every   *)
(* attempt anew and sends it with OutboundClient. The network, and the     *)
(* glue between the library's parts, are external.                         *)
(***************************************************************************)
EXTENDS Outbox, Inbox

CONSTANTS EnvelopesOf,    \* the envelopes each entry may carry, but for their timestamp
          drift,          \* how far the sender's clock is ahead of the receiver's
          MaxEnqueue,     \* bound on the time of an enqueue
          MaxFaults       \* bound on stops of the relay, removals, restarts and
                          \* handlers that throw

ASSUME EntriesAssumption ==
    /\ IsFiniteSet(Entries) /\ NoEntry \notin Entries
    /\ Entries \X (1..maxRetries) \subseteq Nonces
    /\ drift \in Int

ASSUME EnvelopesAssumption ==
    \A e \in Entries : \A v \in EnvelopesOf[e] :
        /\ {"timestamp", "key", "payload"} \subseteq DOMAIN v
        /\ v.key \in Keys /\ v.payload \in Payloads

VARIABLES
    envelope,       \* the envelope of each entry
    network,        \* requests sent; each may arrive any number of times, or never
    attempts,       \* calls of sendFn for each entry
    failedAt,       \* when the last of them failed
    faults

vars == <<outboxVars, inboxVars, envelope, network, attempts, failedAt, faults>>
idle == <<envelope, network, attempts, failedAt>>

Init ==
    /\ OutboxInit
    /\ InboxInit
    /\ envelope \in {f \in [Entries -> UNION {EnvelopesOf[e] : e \in Entries}] :
                       \A e \in Entries : f[e] \in EnvelopesOf[e]}
    /\ network = {}
    /\ attempts = [e \in Entries |-> 0]
    /\ failedAt = [e \in Entries |-> 0]
    /\ faults = 0

(* createEnvelope() at the time of the enqueue, and signRequest() of one   *)
(* attempt, both by the clock of the sender.                               *)
createEnvelope(e) == [envelope[e] EXCEPT !.timestamp = created_at[e] + drift]

signRequest(e) ==
    [nonce |-> <<e, attempts[e] + 1>>, timestamp |-> clock + drift, envelope |-> createEnvelope(e)]

Codes == {200, 401, 409, 413, 422, 500}

Nonce(p) == <<sending[p], attempts[sending[p]]>>

(* The pass has done with one request, if it had one, and calls sendFn for *)
(* the entry it has come to, if there is one.                              *)
Emit(p) ==
    LET closed == IF sending[p] = NoEntry THEN {} ELSE {Nonce(p)}
        e      == sending'[p]
    IN
    /\ answers' = {a \in answers : a[1] \notin closed}
    /\ \/ /\ e = NoEntry
          /\ waiting' = waiting \ closed
          /\ UNCHANGED <<network, attempts>>
       \/ /\ e # NoEntry
          /\ waiting' = (waiting \ closed) \cup {signRequest(e).nonce}
          /\ network' = network \cup {signRequest(e)}
          /\ attempts' = [attempts EXCEPT ![e] = @ + 1]
    /\ failedAt' = [o \in Entries |-> IF retry_count'[o] > retry_count[o] THEN clock ELSE failedAt[o]]
    /\ UNCHANGED <<known, nonces, responses, working, accepted, envelope, faults>>

-----------------------------------------------------------------------------
Enqueue(e) == clock <= MaxEnqueue /\ enqueue(e) /\ UNCHANGED <<inboxVars, idle, faults>>

Tick(p) == Flush(p) /\ Emit(p)

(* The response arrives: sendFn is true for a 2xx, false for anything else. *)
Response(p) ==
    /\ sending[p] # NoEntry
    /\ \E code \in Codes :
          /\ <<Nonce(p), code>> \in answers
          /\ IF code = 200 THEN SendSucceeds(p) ELSE SendFails(p)
    /\ Emit(p)

(* The connection fails or times out, whatever became of the request. *)
TimesOut(p) == SendFails(p) /\ Emit(p)

Fault == faults < MaxFaults /\ faults' = faults + 1

StartRelay == startRelay /\ UNCHANGED <<inboxVars, idle, faults>>
StopRelay  == Fault /\ stopRelay /\ UNCHANGED <<inboxVars, idle>>
Remove(e)  == Fault /\ remove(e) /\ UNCHANGED <<inboxVars, idle>>
Cleanup    == cleanup /\ UNCHANGED <<inboxVars, idle, faults>>

AddPeer == addPeer /\ UNCHANGED <<outboxVars, idle, faults>>

Arrives(r) ==
    /\ TooLarge(r) \/ Refuse(r, clock) \/ Accept(r, clock)
    /\ UNCHANGED <<outboxVars, idle, faults>>

WorkEnds(r) ==
    \/ Work(r, clock) /\ UNCHANGED <<outboxVars, idle, faults>>
    \/ Fault /\ WorkFails(r, clock) /\ UNCHANGED <<outboxVars, idle>>

Expire == cleanupExpired(clock) /\ UNCHANGED <<outboxVars, idle, faults>>

RestartReceiver == Fault /\ RestartInbox /\ UNCHANGED <<outboxVars, idle>>

TimePasses ==
    /\ clock < MaxTime
    /\ clock' = clock + 1
    /\ UNCHANGED <<entryVars, relayVars, inboxVars, idle, faults>>

Next ==
    \/ \E e \in Entries : Enqueue(e) \/ Remove(e)
    \/ \E p \in Passes : Tick(p) \/ Response(p) \/ TimesOut(p)
    \/ StartRelay \/ StopRelay \/ Cleanup
    \/ AddPeer
    \/ \E r \in network : Arrives(r)
    \/ \E r \in working : WorkEnds(r)
    \/ Expire
    \/ RestartReceiver
    \/ TimePasses

(* The relay is started again, its interval fires, every request ends at   *)
(* the latest by its timeout, and time passes. Nothing is assumed of the   *)
(* network and of the receiver.                                            *)
Fairness ==
    /\ WF_vars(StartRelay)
    /\ WF_vars(\E p \in Passes : Tick(p))
    /\ \A p \in Passes : WF_vars(TimesOut(p))
    /\ WF_vars(TimePasses)

Spec == Init /\ [][Next]_vars /\ Fairness

-----------------------------------------------------------------------------
(* Properties *)

(* Every variable has its type. *)
TypeOK ==
    /\ status \in [Entries -> {"new", "pending", "sending", "sent", "dead", "gone"}]
    /\ retry_count \in [Entries -> 0..maxRetries]
    /\ next_retry_at \in [Entries -> 0..MaxTime]
    /\ created_at \in [Entries -> 0..MaxTime]
    /\ timer \in BOOLEAN /\ isFlushing \in BOOLEAN /\ known \in BOOLEAN
    /\ pending \in [Passes -> Seq(Entries)]
    /\ sending \in [Passes -> Entries \cup {NoEntry}]
    /\ nonces \in [Nonces -> Nat]
    /\ \A k \in Keys : responses[k] \in [payload: Payloads \cup {"none"}, expires_at: Nat]
    /\ working \subseteq network /\ waiting \subseteq Nonces
    /\ answers \subseteq Nonces \X Codes
    /\ accepted \in [Nonces -> Nat]
    /\ attempts \in [Entries -> Nat]
    /\ failedAt \in [Entries -> 0..MaxTime]

(* A request that is repeated by the network is accepted once in the life  *)
(* of the receiver, however its clock and the sender's differ: the nonce   *)
(* is kept until the timestamp is too old.                                 *)
AcceptedOnce == \A n \in Nonces : accepted[n] <= 1

(* No attempt is lost or counted twice, and an entry is dead after exactly *)
(* maxRetries of them.                                                     *)
AttemptsCounted ==
    \A e \in Entries :
        /\ Stored(e) => attempts[e] = retry_count[e] + IF status[e] \in {"sending", "sent"} THEN 1 ELSE 0
        /\ status[e] = "dead" => attempts[e] = maxRetries

(* At time t the backoff after the n-th failure, at time f, is over. The   *)
(* bound on the clock cuts the delay short.                                *)
Waited(n, f, t) == n > 0 => \E d \in Delays(n) : Smaller(f + d, MaxTime) <= t

(* An entry is sent again only when the backoff after its last failure is  *)
(* over (markFailed() of outbox.ts), though the pass that sends it took it *)
(* from the list at its beginning and has awaited other sends since, and   *)
(* though the relay was stopped and started between.                       *)
BackoffIsKept ==
    [][\A e \in Entries : attempts'[e] > attempts[e]
                             => Waited(retry_count[e], failedAt[e], clock)]_vars

(* Every entry ends sent, dead or removed, even if nothing ever arrives.   *)
EveryEntrySettles ==
    \A e \in Entries : status[e] = "pending" ~> status[e] \in {"sent", "dead", "gone"}
=============================================================================
