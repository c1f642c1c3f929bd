-------------------------- MODULE ConnectionTools --------------------------
(***************************************************************************)
(* The connection tools of src/index.ts, running concurrently: they        *)
(* publish a request, make an offer, accept an offer or fetch a session at *)
(* the hub (src/src/hub-connection-requests.ts) and record what the hub    *)
(* returns in the file of ConnectionState.                                 *)
(*                                                                         *)
(* The hub is external and modelled from how the client uses it. It keeps  *)
(* requests, offers and sessions by number; another gateway publishes,     *)
(* offers and accepts too, and sessions are closed. A request to the hub   *)
(* is carried out some time before its response arrives, if it does.       *)
(***************************************************************************)
EXTENDS ConnectionState

CONSTANTS MaxCalls,      \* bound on the calls of tools
          MaxIds,        \* bound on requests, on offers and on sessions
          MaxFaults,     \* bound on lost responses, failed reads and writes
          Descriptors,   \* what this gateway and the other one publish
          None           \* no response yet

ASSUME BoundsAssumption == MaxCalls \in Nat /\ MaxIds \in Nat /\ MaxFaults \in Nat
ASSUME DescriptorsAssumption ==
    Descriptors \in [{"me", "other"} -> {"none", "generic", "a2a"}]

VARIABLES
    registered,    \* the gateway's registration is on disk
    requests,      \* hub: who published each request
    offers,        \* hub: the request and the maker of each offer
    sessions,      \* hub: the offer and the status of each session
    call,          \* the calls of tools, in the order they began
    faults         \* faults so far

hubVars == <<requests, offers, sessions>>
vars    == <<registered, hubVars, call, faults, stateVars>>

(* A request and an offer of each gateway, and a session it responds in. *)
Init ==
    /\ StateInit
    /\ registered = FALSE
    /\ requests = <<"other", "me">>
    /\ offers = <<[request |-> 1, by |-> "me"], [request |-> 2, by |-> "other"]>>
    /\ sessions = <<[offer |-> 1, status |-> "active"]>>
    /\ call = << >>
    /\ faults = 0

Fault == faults < MaxFaults /\ faults' = faults + 1

-----------------------------------------------------------------------------
(* The tools *)

(* createRequest is given nothing, createOffer a request, acceptOffer an   *)
(* offer and getSession a session.                                         *)
Asked == {<<"createRequest", 0>>} \cup
         ({"createOffer", "acceptOffer", "getSession"} \X (1..MaxIds))

(* A tool creates its HubConnectionRequestClient, which needs a            *)
(* registration (requireRegistration).                                     *)
Begin ==
    /\ Len(call) < MaxCalls
    /\ \E asked \in Asked :
          call' = Append(call, [tool |-> asked[1], id |-> asked[2], reply |-> None,
                                at |-> IF registered THEN "asked" ELSE "ended"])
    /\ UNCHANGED <<registered, hubVars, faults, stateVars>>

(* The plan for reaching the responder of a session over A2A, from the     *)
(* descriptor it published.                                                *)
planA2aAdapter(descriptor) == IF descriptor = "a2a" THEN "a2a" ELSE "generic"

(* What the view of a session recommends, of which only the mode is        *)
(* recorded.                                                               *)
buildConnectionSessionView(s) ==
    [recommendedMode |-> planA2aAdapter(Descriptors[offers[s.offer].by])]

(* Session i of the hub, as it will be recorded when it is returned. *)
recordSession(i, s) ==
    [id |-> i, offer |-> s.offer, status |-> s.status,
     mode |-> buildConnectionSessionView(s).recommendedMode]

Accepted(o) == \E i \in 1..Len(sessions) : sessions[i].offer = o

(* The hub carries out the request of call c and answers with next. *)
Answers(c, next) == call' = [call EXCEPT ![c].at = "answered", ![c].reply = next]

createRequest(c) ==
    /\ call[c].tool = "createRequest"
    /\ Len(requests) < MaxIds
    /\ requests' = Append(requests, "me")
    /\ Answers(c, [id |-> Len(requests) + 1])
    /\ UNCHANGED <<offers, sessions>>

createOffer(c) ==
    /\ call[c].tool = "createOffer" /\ call[c].id <= Len(requests)
    /\ Len(offers) < MaxIds
    /\ offers' = Append(offers, [request |-> call[c].id, by |-> "me"])
    /\ Answers(c, [id |-> Len(offers) + 1, request |-> call[c].id])
    /\ UNCHANGED <<requests, sessions>>

(* Only the publisher of a request accepts an offer of it, once. *)
acceptOffer(c) ==
    /\ call[c].tool = "acceptOffer" /\ call[c].id <= Len(offers)
    /\ requests[offers[call[c].id].request] = "me" /\ ~Accepted(call[c].id)
    /\ LET s == [offer |-> call[c].id, status |-> "active"] IN
       /\ sessions' = Append(sessions, s)
       /\ Answers(c, recordSession(Len(sessions) + 1, s))
    /\ UNCHANGED <<requests, offers>>

getSession(c) ==
    /\ call[c].tool = "getSession" /\ call[c].id <= Len(sessions)
    /\ Answers(c, recordSession(call[c].id, sessions[call[c].id]))
    /\ UNCHANGED hubVars

HubAnswers(c) ==
    /\ call[c].at = "asked"
    /\ createRequest(c) \/ createOffer(c) \/ acceptOffer(c) \/ getSession(c)
    /\ UNCHANGED <<registered, faults, stateVars>>

(* The hub refuses the request, or it does not reach the hub. *)
HubRefuses(c) ==
    /\ call[c].at = "asked"
    /\ call' = [call EXCEPT ![c].at = "ended"]
    /\ UNCHANGED <<registered, hubVars, faults, stateVars>>

KindOf == [createRequest |-> "requests", createOffer |-> "offers",
           acceptOffer |-> "sessions", getSession |-> "sessions"]

(* The response arrives and is recorded, with an error of that ignored     *)
(* (safeRecordConnectionState): the read or the write may fail. A call     *)
(* whose response is not recorded keeps it, as history.                    *)
Record(c) ==
    /\ call[c].at = "answered"
    /\ \E readable, saved \in BOOLEAN :
          /\ update(KindOf[call[c].tool], call[c].reply, readable, saved)
          /\ IF readable /\ saved THEN UNCHANGED faults ELSE Fault
          /\ call' = IF saved THEN [call EXCEPT ![c].at = "ended", ![c].reply = None]
                              ELSE [call EXCEPT ![c].at = "lost"]
    /\ UNCHANGED <<registered, hubVars>>

(* The response is lost. *)
Lose(c) ==
    /\ call[c].at = "answered"
    /\ Fault
    /\ call' = [call EXCEPT ![c].at = "lost"]
    /\ UNCHANGED <<registered, hubVars, stateVars>>

-----------------------------------------------------------------------------
(* The world around the tools *)

Register ==
    /\ ~registered /\ registered' = TRUE
    /\ UNCHANGED <<hubVars, call, faults, stateVars>>

(* The other gateway offers on a request, or accepts an offer. *)
OtherOffers ==
    /\ Len(offers) < MaxIds
    /\ \E i \in 1..Len(requests) :
          requests[i] = "me" /\ offers' = Append(offers, [request |-> i, by |-> "other"])
    /\ UNCHANGED <<registered, requests, sessions, call, faults, stateVars>>

OtherAccepts ==
    /\ \E o \in 1..Len(offers) :
          /\ requests[offers[o].request] = "other" /\ ~Accepted(o)
          /\ sessions' = Append(sessions, [offer |-> o, status |-> "active"])
    /\ UNCHANGED <<registered, requests, offers, call, faults, stateVars>>

SessionCloses ==
    /\ \E i \in 1..Len(sessions) :
          /\ sessions[i].status = "active"
          /\ sessions' = [sessions EXCEPT ![i].status = "closed"]
    /\ UNCHANGED <<registered, requests, offers, call, faults, stateVars>>

(* The gateway process is restarted; calls in progress end, and responses  *)
(* on their way are lost.                                                  *)
Restart ==
    /\ Fault
    /\ call' = [c \in 1..Len(call) |->
                   [call[c] EXCEPT !.at = CASE @ = "asked"    -> "ended"
                                            [] @ = "answered" -> "lost"
                                            [] OTHER          -> @]]
    /\ UNCHANGED <<registered, hubVars, stateVars>>

Done ==
    /\ Len(call) = MaxCalls /\ \A c \in 1..Len(call) : call[c].at \in {"ended", "lost"}
    /\ UNCHANGED vars

Step(c) == HubAnswers(c) \/ HubRefuses(c) \/ Record(c)

Next ==
    \/ Begin
    \/ \E c \in 1..Len(call) : Step(c) \/ Lose(c)
    \/ Register \/ OtherOffers \/ OtherAccepts \/ SessionCloses
    \/ Restart
    \/ Done

Spec == Init /\ [][Next]_vars

-----------------------------------------------------------------------------
(* Properties *)

(* The types of the variables. *)
TypeOK ==
    /\ registered \in BOOLEAN /\ faults \in 0..MaxFaults
    /\ Range(requests) \subseteq {"me", "other"}
    /\ \A o \in Range(offers) : o.request \in 1..Len(requests) /\ o.by \in {"me", "other"}
    /\ \A s \in Range(sessions) :
          s.offer \in 1..Len(offers) /\ s.status \in {"active", "closed"}
    /\ \A c \in Range(call) : c.at \in {"asked", "answered", "ended", "lost"}
    /\ \A k \in Kinds : Len(file.ids[k]) <= MaxRecords /\ Len(file.records[k]) <= MaxRecords

(* Where an id of kind k was recorded last, and the ids recorded after it. *)
LastRecorded(k, id) ==
    CHOOSE i \in 1..Len(recorded[k]) :
        /\ recorded[k][i].id = id
        /\ \A j \in (i + 1)..Len(recorded[k]) : recorded[k][j].id # id

RecordedAfter(k, id) ==
    {recorded[k][j].id : j \in (LastRecorded(k, id) + 1)..Len(recorded[k])}

(* The file keeps exactly the ids recorded most recently: an id is there   *)
(* when fewer than MAX_RECORDS other ids were recorded after it, in        *)
(* whatever order the responses came, since a failed read last emptied it. *)
(* Beside each id, in the list that upsertNewest() changes while           *)
(* uniqueNewest() changes the ids, is the response about it that arrived   *)
(* last, and no older one.                                                 *)
NewestAreKept ==
    \A k \in Kinds :
        /\ Range(file.ids[k])
              = {id \in Range(Ids(recorded[k])) :
                     Cardinality(RecordedAfter(k, id)) < MaxRecords}
        /\ file.records[k] = [i \in 1..Len(file.ids[k]) |->
                                 recorded[k][LastRecorded(k, file.ids[k][i])]]

(* What this gateway's tools made at the hub. *)
Made == [requests |-> {i \in 3..Len(requests) : requests[i] = "me"},
         offers   |-> {i \in 3..Len(offers) : offers[i].by = "me"},
         sessions |-> {i \in 2..Len(sessions) :
                           requests[offers[sessions[i].offer].request] = "me"}]

(* What a tool made and did not record: its response is on its way, was    *)
(* lost, or could not be saved.                                            *)
Unrecorded(k) ==
    {call[c].reply.id : c \in {d \in 1..Len(call) :
        /\ call[d].at \in {"answered", "lost"}
        /\ call[d].tool # "getSession" /\ KindOf[call[d].tool] = k}}

(* Whatever the tools made at the hub is in the file, where the user finds *)
(* its id, although every call loads, changes and saves the whole file     *)
(* while others wait for the hub. An id can be missing for three reasons   *)
(* only: MAX_RECORDS others were recorded after it, its own response did   *)
(* not get to the file, or a read of the file failed after it was there.   *)
MadeIsOnFile ==
    \A k \in Kinds : \A id \in Made[k] :
        \/ id \in Range(file.ids[k])
        \/ /\ id \in Range(Ids(recorded[k]))
           /\ Cardinality(RecordedAfter(k, id)) >= MaxRecords
        \/ id \in Unrecorded(k) \cup wiped[k]
=============================================================================
