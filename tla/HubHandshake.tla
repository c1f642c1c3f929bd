---------------------------- MODULE HubHandshake ----------------------------
(***************************************************************************)
(* The encrypted match handshake (src/index.ts): one gateway asks the hub  *)
(* for matches with another and offers it a temporary token                *)
(* (performMatchRequest); the other polls the hub, takes the offers in and *)
(* answers with tokens of its own (processPendingHubMatches). Polls are    *)
(* started by an interval and may overlap.                                 *)
(*                                                                         *)
(* The hub is external and modelled from how HubMatchClient uses it: it    *)
(* keeps handshake messages until they are consumed, once. A call of it    *)
(* succeeds, fails, or takes effect while its response is lost. Both       *)
(* gateways keep tokens and peers in memory.                               *)
(***************************************************************************)
EXTENDS Integers, FiniteSets

CONSTANTS Matches,        \* calls of performMatchRequest, each with its match
          Polls,          \* polls of the provider that may overlap
          None,           \* no token
          MaxFailures     \* bound on hub calls that do not succeed

ASSUME MatchesAssumption  == IsFiniteSet(Matches) /\ None \notin Matches
ASSUME PollsAssumption    == IsFiniteSet(Polls)
ASSUME FailuresAssumption == MaxFailures \in Nat

VARIABLES
    matches,        \* hub: matches that exist
    offer,          \* hub: the offer of each match
    answer,         \* hub: the polls whose answer to the offer it holds
    ready,          \* hub: the sides that called markReady
    request,        \* requester: what each call awaits, or its result
    token,          \* requester: the token it received, while it is taken in
    issuedA,        \* requester: matches it issued a token for
    peerA,          \* requester: the token in its peer entry of the provider
    poll,           \* provider: what each poll awaits
    left,           \* provider: matches the poll has still to look at
    current,        \* provider: the match it is looking at
    processed,      \* provider: processedMessages
    issuedB,        \* provider: the tokens it issued
    peerB,          \* provider: the match whose token is in its peer entry
    failures        \* hub calls that did not succeed so far

hubVars       == <<matches, offer, answer, ready>>
requesterVars == <<request, token, issuedA, peerA>>
providerVars  == <<poll, left, current, processed, issuedB, peerB>>
handshakeVars == <<hubVars, requesterVars, providerVars, failures>>

Tokens == Matches \X Polls      \* a token of the provider

HandshakeInit ==
    /\ matches = {}
    /\ offer = [m \in Matches |-> "none"]
    /\ answer = [m \in Matches |-> {}]
    /\ ready = [m \in Matches |-> {}]
    /\ request = [m \in Matches |-> "idle"]
    /\ token = [m \in Matches |-> None]
    /\ issuedA = {}
    /\ peerA = None
    /\ poll = [p \in Polls |-> "idle"]
    /\ left = [p \in Polls |-> {}]
    /\ current = [p \in Polls |-> None]
    /\ processed = {}
    /\ issuedB = {}
    /\ peerB = None
    /\ failures = 0

(* How a call of the hub ends. *)
Outcomes == {"ok", "lost", "failed"}

Ends(o) ==
    \/ o = "ok" /\ UNCHANGED failures
    \/ o # "ok" /\ failures < MaxFailures /\ failures' = failures + 1

-----------------------------------------------------------------------------
(* The requester: performMatchRequest() *)

(* Without a registration, an identity or an address it fails at once. *)
Begin(m) ==
    /\ request[m] = "idle"
    /\ \E r \in {"creating", "failed"} : request' = [request EXCEPT ![m] = r]
    /\ UNCHANGED <<hubVars, token, issuedA, peerA, providerVars, failures>>

(* createMatch() ends; without the provider's public key there is no offer.*)
createMatch(m, o) ==
    /\ request[m] = "creating"
    /\ Ends(o)
    /\ matches' = IF o = "failed" THEN matches ELSE matches \cup {m}
    /\ \/ /\ o = "ok"
          /\ issuedA' = issuedA \cup {m}
          /\ request' = [request EXCEPT ![m] = "offering"]
       \/ /\ request' = [request EXCEPT ![m] = "failed"]
          /\ UNCHANGED issuedA
    /\ UNCHANGED <<offer, answer, ready, token, peerA, providerVars>>

sendOffer(m, o) ==
    /\ request[m] = "offering"
    /\ Ends(o)
    /\ offer' = IF o = "failed" THEN offer ELSE [offer EXCEPT ![m] = "pending"]
    /\ request' = [request EXCEPT ![m] = IF o = "ok" THEN "waiting" ELSE "failed"]
    /\ UNCHANGED <<matches, answer, ready, token, issuedA, peerA, providerVars>>

(* waitForHandshakeAnswer() finds an answer, and the call decrypts it, or  *)
(* not; or the hub fails to tell.                                          *)
waitForHandshakeAnswer(m, o) ==
    /\ request[m] = "waiting"
    /\ Ends(o)
    /\ \/ /\ o = "ok"
          /\ \E p \in answer[m] :
                \/ /\ token' = [token EXCEPT ![m] = <<m, p>>]
                   /\ request' = [request EXCEPT ![m] = "consuming"]
                \/ /\ request' = [request EXCEPT ![m] = "failed"]
                   /\ UNCHANGED token
       \/ /\ o # "ok"
          /\ request' = [request EXCEPT ![m] = "failed"]
          /\ UNCHANGED token
    /\ UNCHANGED <<hubVars, issuedA, peerA, providerVars>>

(* Mutant: the wait has no deadline. *)
NoDeadline(m) == FALSE /\ UNCHANGED handshakeVars

(* The deadline of waitForHandshakeAnswer() has passed. *)
Deadline(m) ==
    /\ request[m] = "waiting"
    /\ request' = [request EXCEPT ![m] = "failed"]
    /\ UNCHANGED <<hubVars, token, issuedA, peerA, providerVars, failures>>

(* upsertEphemeralPeer() at the requester *)
upsertProvider(t) == peerA' = t

(* The answer is consumed and its token installed. *)
consumeAnswer(m, o) ==
    /\ request[m] = "consuming"
    /\ Ends(o)
    /\ answer' = IF o = "failed" THEN answer ELSE [answer EXCEPT ![m] = @ \ {token[m][2]}]
    /\ IF o = "ok" THEN upsertProvider(token[m]) ELSE UNCHANGED peerA
    /\ request' = [request EXCEPT ![m] = IF o = "ok" THEN "marking" ELSE "failed"]
    /\ UNCHANGED <<matches, offer, ready, token, issuedA, providerVars>>

requesterReady(m, o) ==
    /\ request[m] = "marking"
    /\ Ends(o)
    /\ ready' = IF o = "failed" THEN ready ELSE [ready EXCEPT ![m] = @ \cup {"requester"}]
    /\ request' = [request EXCEPT ![m] = IF o = "ok" THEN "ok" ELSE "failed"]
    /\ UNCHANGED <<matches, offer, answer, token, issuedA, peerA, providerVars>>

performMatchRequest(m) ==
    \/ \E o \in Outcomes : \/ createMatch(m, o) \/ sendOffer(m, o) \/ waitForHandshakeAnswer(m, o)
                           \/ consumeAnswer(m, o) \/ requesterReady(m, o)
    \/ Deadline(m)

-----------------------------------------------------------------------------
(* The provider: processPendingHubMatches() *)

(* The interval starts a poll, whether or not another one is under way. *)
StartPoll(p) ==
    /\ poll[p] = "idle"
    /\ poll' = [poll EXCEPT ![p] = "listing"]
    /\ UNCHANGED <<hubVars, requesterVars, left, current, processed, issuedB, peerB, failures>>

(* getPendingMatches() ends. *)
getPendingMatches(p, o) ==
    LET pending == {m \in matches : "provider" \notin ready[m]} IN
    /\ poll[p] = "listing"
    /\ Ends(o)
    /\ left' = [left EXCEPT ![p] = IF o = "ok" THEN pending ELSE {}]
    /\ poll' = [poll EXCEPT ![p] = IF o = "ok" /\ pending # {} THEN "listed" ELSE "idle"]
    /\ UNCHANGED <<hubVars, requesterVars, current, processed, issuedB, peerB>>

(* The poll is done with a match, or gives it up: on to the next one. *)
NextMatch(p) ==
    /\ poll' = [poll EXCEPT ![p] = IF left'[p] = {} THEN "idle" ELSE "listed"]
    /\ current' = [current EXCEPT ![p] = None]

(* getPendingHandshakeMessages() ends for one of the matches. *)
getPendingHandshakeMessages(p, m, o) ==
    /\ poll[p] = "listed"
    /\ m \in left[p]
    /\ Ends(o)
    /\ left' = [left EXCEPT ![p] = @ \ {m}]
    /\ IF o = "ok" /\ offer[m] = "pending"
       THEN /\ poll' = [poll EXCEPT ![p] = "fetched"]
            /\ current' = [current EXCEPT ![p] = m]
       ELSE NextMatch(p)
    /\ UNCHANGED <<hubVars, requesterVars, processed, issuedB, peerB>>

(* The message is looked at: it was taken in since, it does not decrypt,   *)
(* or it is to be consumed, for its token or, malformed, to be ignored. It *)
(* is an offer: answers are sent by providers, to the requester, and only  *)
(* provider matches are polled, so the branch for answers is not reached.  *)
Inspect(p) ==
    /\ poll[p] = "fetched"
    /\ UNCHANGED left
    /\ \/ NextMatch(p)
       \/ /\ current[p] \notin processed
          /\ \E s \in {"consuming", "discarding"} : poll' = [poll EXCEPT ![p] = s]
          /\ UNCHANGED current
    /\ UNCHANGED <<hubVars, requesterVars, processed, issuedB, peerB, failures>>

(* Mutant: a message that cannot be consumed is taken in all the same. *)
consumedAnyway(p, o) == o \in Outcomes

(* consumeHandshakeMessage() returns. That the hub lets a message be       *)
(* consumed once is assumed of it: nothing in the gateway enforces it.     *)
consumed(p, o) == o = "ok" /\ offer[current[p]] = "pending"

(* consumeHandshakeMessage() ends without success, and the match is given  *)
(* up; or a malformed message has been consumed.                           *)
ConsumeOnly(p, o) ==
    /\ \/ poll[p] = "discarding"
       \/ poll[p] = "consuming" /\ ~consumed(p, o)
    /\ Ends(o)
    /\ offer' = IF o = "failed" THEN offer ELSE [offer EXCEPT ![current[p]] = "consumed"]
    /\ processed' = IF consumed(p, o) THEN processed \cup {current[p]} ELSE processed
    /\ UNCHANGED left
    /\ NextMatch(p)
    /\ UNCHANGED <<matches, answer, ready, requesterVars, issuedB, peerB>>

(* Mutant: the entry of the requester is left for later. *)
upsertRequesterLater(m) == UNCHANGED peerB

(* upsertEphemeralPeer() at the provider *)
upsertRequester(m) == peerB' = m

(* The offer is consumed: its token is installed, and the answer prepared  *)
(* unless the provider has no address, or the hub no key of the requester. *)
TakeOffer(p, o, step) ==
    LET m == current[p] IN
    /\ poll[p] = "consuming"
    /\ consumed(p, o)
    /\ Ends(o)
    /\ offer' = [offer EXCEPT ![m] = "consumed"]
    /\ processed' = processed \cup {m}
    /\ upsertRequester(m)
    /\ issuedB' = IF step = "no address" THEN issuedB ELSE issuedB \cup {<<m, p>>}
    /\ UNCHANGED left
    /\ IF step = "answer"
       THEN poll' = [poll EXCEPT ![p] = "answering"] /\ UNCHANGED current
       ELSE NextMatch(p)
    /\ UNCHANGED <<matches, answer, ready, requesterVars>>

sendAnswer(p, o) ==
    LET m == current[p] IN
    /\ poll[p] = "answering"
    /\ Ends(o)
    /\ answer' = IF o = "failed" THEN answer ELSE [answer EXCEPT ![m] = @ \cup {p}]
    /\ UNCHANGED left
    /\ IF o = "ok"
       THEN poll' = [poll EXCEPT ![p] = "marking"] /\ UNCHANGED current
       ELSE NextMatch(p)
    /\ UNCHANGED <<matches, offer, ready, requesterVars, processed, issuedB, peerB>>

providerReady(p, o) ==
    LET m == current[p] IN
    /\ poll[p] = "marking"
    /\ Ends(o)
    /\ ready' = IF o = "failed" THEN ready ELSE [ready EXCEPT ![m] = @ \cup {"provider"}]
    /\ UNCHANGED left
    /\ NextMatch(p)
    /\ UNCHANGED <<matches, offer, answer, requesterVars, processed, issuedB, peerB>>

processPendingHubMatches(p) ==
    \/ Inspect(p)
    \/ \E o \in Outcomes : \/ getPendingMatches(p, o)
                           \/ \E m \in Matches : getPendingHandshakeMessages(p, m, o)
                           \/ ConsumeOnly(p, o) \/ sendAnswer(p, o) \/ providerReady(p, o)
                           \/ \E s \in {"no address", "no key", "answer"} : TakeOffer(p, o, s)

-----------------------------------------------------------------------------
HandshakeNext ==
    \/ \E m \in Matches : Begin(m) \/ performMatchRequest(m)
    \/ \E p \in Polls : StartPoll(p) \/ processPendingHubMatches(p)

HandshakeSpec == HandshakeInit /\ [][HandshakeNext]_handshakeVars

(* Calls of the hub end and the requester's clock runs; the provider need  *)
(* not poll at all.                                                        *)
HandshakeFairness == \A m \in Matches : WF_handshakeVars(performMatchRequest(m))

HandshakeLiveSpec == HandshakeSpec /\ HandshakeFairness

-----------------------------------------------------------------------------
(* Properties. *)

Results == {"idle", "ok", "failed"}

HandshakeTypeOK ==
    /\ matches \subseteq Matches
    /\ offer \in [Matches -> {"none", "pending", "consumed"}]
    /\ answer \in [Matches -> SUBSET Polls]
    /\ ready \in [Matches -> SUBSET {"requester", "provider"}]
    /\ request \in [Matches -> Results \cup {"creating", "offering", "waiting", "consuming", "marking"}]
    /\ token \in [Matches -> Tokens \cup {None}]
    /\ issuedA \subseteq Matches
    /\ peerA \in Tokens \cup {None}
    /\ poll \in [Polls -> {"idle", "listing", "listed", "fetched", "consuming", "discarding",
                           "answering", "marking"}]
    /\ left \in [Polls -> SUBSET Matches]
    /\ current \in [Polls -> Matches \cup {None}]
    /\ processed \subseteq Matches
    /\ issuedB \subseteq Tokens
    /\ peerB \in Matches \cup {None}
    /\ failures \in 0..MaxFailures

(* An offer is taken in once: no two overlapping polls install its token   *)
(* or issue a token of their own for it, whatever responses get lost.      *)
OfferTakenInOnce ==
    \A t, u \in issuedB : t[1] = u[1] => t = u

(* When the hub says a side is ready, that side holds a token the other    *)
(* one issued; the requester is ready only after the provider took the     *)
(* offer in, so both hold one then and either can call the other.          *)
ReadyMeansConnected ==
    \A m \in Matches :
        /\ "provider" \in ready[m] => peerB \in issuedA /\ m \in processed
        /\ "requester" \in ready[m] => peerA \in issuedB /\ peerB \in issuedA

(* Every match request returns a result, though the provider never polls.  *)
EveryMatchEnds == \A m \in Matches : request[m] # "idle" ~> request[m] \in Results
=============================================================================
