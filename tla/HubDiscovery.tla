---------------------------- MODULE HubDiscovery ----------------------------
(***************************************************************************)
(* Finding agents through the hub and calling official ones: the generic   *)
(* match and the resolution of an agent (src/src/hub-discovery.ts,         *)
(* hub-resolve.ts), the call of an action of an official agent             *)
(* (src/src/official-agent-call.ts), and the request history they write    *)
(* (src/src/history.ts). The tools and gateway methods of src/index.ts run *)
(* them concurrently.                                                      *)
(*                                                                         *)
(* The hub and the agents are external: the hub may change an agent's      *)
(* standing at any time, and carries a request out some time before its    *)
(* response arrives, if it does. What makes a call unacceptable is         *)
(* modelled by the name of the check it fails (Checks).                    *)
(***************************************************************************)
EXTENDS Integers, SequencesExt, FiniteSets

CONSTANTS Agents,         \* the other agents of the hub
          self,           \* this gateway's agent
          None,           \* no value
          Defects,        \* the checks the action of each agent fails
          Inputs,         \* the checks an input of a call may fail, as sets
          MaxCalls,       \* bound on the calls begun
          MaxFaults       \* bound on lost responses and failed writes

ASSUME AgentsAssumption == Agents # {} /\ self \notin Agents /\ None \notin Agents \cup {self}
ASSUME BoundsAssumption == MaxCalls \in Nat /\ MaxFaults \in Nat

VARIABLES
    registered,    \* the gateway's registration is on disk
    official,      \* hub: the agents that are official and verified
    matches,       \* hub: the matches of this gateway
    call,          \* what each call in progress awaits, by number
    answers,       \* what the calls returned, in the order they began
    history,       \* the history file: its directory and its entries
    faults         \* faults so far

vars == <<registered, official, matches, call, answers, history, faults>>

(* The checks of prepareOfficialAgentActionCall(), in their order. *)
Checks == <<"agent_not_official_verified", "action_name_required",
            "action_not_declared", "action_not_low_risk",
            "official_http_endpoint_missing", "official_endpoint_auth_unsupported",
            "sensitive_input_blocked", "input_too_large",
            "official_endpoint_invalid">>

ASSUME DefectsAssumption == Defects \in [Agents -> SUBSET Range(Checks)]
ASSUME InputsAssumption  == Inputs \subseteq SUBSET Range(Checks)

Calls == 1..MaxCalls

Idle == [at |-> "idle", tool |-> None, by |-> None, target |-> None,
         input |-> {}, reply |-> None, peer |-> None, met |-> {}]

Init ==
    /\ registered = FALSE
    /\ official = {}
    /\ matches = << [requester |-> CHOOSE a \in Agents : TRUE,
                     provider |-> self, callerRole |-> "provider"] >>
    /\ call = [c \in Calls |-> Idle]
    /\ answers = << >>
    /\ history = [dir |-> FALSE, dirEnsured |-> FALSE, log |-> << >>, failed |-> FALSE]
    /\ faults = 0

-----------------------------------------------------------------------------
(* The request history *)

(* Mutant: the directory counts as created from the start. *)
RecordInDir(n, answer, before) ==
    /\ history' = [history EXCEPT !.dirEnsured = TRUE,
                     !.log = IF history.dir THEN Append(@, <<n, answer>>) ELSE @]
    /\ faults' = before

(* record() of how call n ended, after so many faults: write() creates the *)
(* directory on the first call, whether that succeeds or not, and appends  *)
(* a line. Errors are ignored. The history is enabled, and the process     *)
(* does not end in the middle of a line.                                   *)
record(n, answer, before) ==
    \/ /\ history.dir \/ ~history.dirEnsured
       /\ history' = [history EXCEPT !.dir = TRUE, !.dirEnsured = TRUE,
                                     !.log = Append(@, <<n, answer>>)]
       /\ faults' = before
    \/ /\ history.dir \/ ~history.dirEnsured
       /\ before < MaxFaults
       /\ history' = [history EXCEPT !.dirEnsured = TRUE, !.failed = TRUE]
       /\ faults' = before + 1
    \/ /\ ~history.dir /\ history.dirEnsured
       /\ faults' = before
       /\ UNCHANGED history

(* How a call ended: its result, and the agent it names. *)
Error        == <<"error", None>>
Unrecorded   == <<"unrecorded", None>>
Found(a)     == <<"ok", a>>
Refused(why) == <<why, None>>

(* The call returns. *)
Return(c, answer) ==
    /\ answers' = [answers EXCEPT ![c] = answer]
    /\ call' = [call EXCEPT ![c] = Idle]

RecordAndReturn(c, answer) ==
    /\ record(c, answer, faults)
    /\ Return(c, answer)

-----------------------------------------------------------------------------
(* The checks and the choice of the peer *)

(* Mutant: the standing of the agent is not looked at. *)
PrepareAnyAgent(a, standing, input) ==
    LET failed == Defects[a] \cup input
    IN  IF failed = {} THEN "ok"
        ELSE Checks[SelectInSeq(Checks, LAMBDA k : k \in failed)]

(* prepareOfficialAgentActionCall() for agent a as the hub described it:   *)
(* "ok", or the first check that fails.                                    *)
prepare(a, standing, input) ==
    LET failed == Defects[a] \cup input
                  \cup (IF standing THEN {} ELSE {"agent_not_official_verified"})
    IN  IF failed = {} THEN "ok"
        ELSE Checks[SelectInSeq(Checks, LAMBDA k : k \in failed)]

(* The peer of a match (selectLocalAndPeerAgents). *)
peerOf(m) ==
    CASE m.requester = self -> m.provider
      [] m.requester # self /\ m.provider = self -> m.requester
      [] OTHER ->
            IF m.callerRole = "requester" THEN m.provider
            ELSE IF m.callerRole = "provider" THEN m.requester
            ELSE IF m.provider # None THEN m.provider ELSE m.requester

-----------------------------------------------------------------------------
(* A call and its requests to the hub *)

(* What the tools ask for and what they may be given to find the agent. *)
Asked == {<<"match", "skills">>,
          <<"resolve", "match">>, <<"resolve", "agent">>,
          <<"resolve", "client">>, <<"resolve", "nothing">>,
          <<"official", "agent">>, <<"official", "client">>,
          <<"official", "skills">>, <<"official", "nothing">>}

Opened(tool, by, target, input) ==
    [Idle EXCEPT !.at = IF by \in {"skills", "match"} THEN "match" ELSE "agent",
                 !.tool = tool, !.by = by,
                 !.target = target, !.input = input, !.met = official]

(* A call begins and creates its HubMatchClient, which needs a             *)
(* registration. Without anything to find the agent by it fails at once;   *)
(* a resolution then leaves no entry in the history.                       *)
begin(c, tool, by, target, input) ==
    /\ c = Len(answers) + 1
    /\ \/ /\ registered /\ by # "nothing"
          /\ answers' = Append(answers, <<"open", None>>)
          /\ call' = [call EXCEPT ![c] = Opened(tool, by, target, input)]
          /\ UNCHANGED <<history, faults>>
       \/ /\ ~registered \/ (by = "nothing" /\ tool = "official")
          /\ answers' = Append(answers, Error)
          /\ record(c, Error, faults)
          /\ UNCHANGED call
       \/ /\ registered /\ by = "nothing" /\ tool = "resolve"
          /\ answers' = Append(answers, Unrecorded)
          /\ UNCHANGED <<call, history, faults>>
    /\ UNCHANGED <<registered, official, matches>>

Begin(c) ==
    \E asked \in Asked, a \in Agents, input \in Inputs :
        /\ asked[1] # "official" => input = {}
        /\ asked[2] \notin {"agent", "client"} => a = CHOOSE b \in Agents : TRUE
        /\ begin(c, asked[1], asked[2], a, input)

(* The hub carries the request of a call out: it creates a match with an   *)
(* agent, if it has one, or looks a match or an agent up.                  *)
HubAnswers(c) ==
    /\ call[c].reply = None
    /\ \/ /\ call[c].at = "match" /\ call[c].by = "skills"
          /\ \E p \in Agents \cup {None} :
                LET m == [requester |-> self, provider |-> p, callerRole |-> "requester"]
                IN  /\ matches' = Append(matches, m)
                    /\ call' = [call EXCEPT ![c].reply = m]
       \/ /\ call[c].at = "match" /\ call[c].by = "match"
          /\ \E i \in 1..Len(matches) : call' = [call EXCEPT ![c].reply = matches[i]]
          /\ UNCHANGED matches
       \/ /\ call[c].at = "agent"
          /\ \/ call' = [call EXCEPT ![c].reply =
                            [agent |-> call[c].target,
                             standing |-> call[c].target \in official]]
             \/ /\ call[c].by = "client"
                /\ call' = [call EXCEPT ![c].reply = [agent |-> None, standing |-> FALSE]]
          /\ UNCHANGED matches
    /\ UNCHANGED <<registered, official, answers, history, faults>>

(* The match of a match or a resolution arrives, which ends with it. *)
matchArrives(c) ==
    /\ call[c].at = "match" /\ call[c].reply # None /\ call[c].tool # "official"
    /\ RecordAndReturn(c, Found(peerOf(call[c].reply)))
    /\ UNCHANGED <<registered, official, matches>>

(* The agent of a resolution arrives. One that is not found leaves no      *)
(* entry in the history.                                                   *)
resolveArrives(c) ==
    /\ call[c].at = "agent" /\ call[c].reply # None /\ call[c].tool = "resolve"
    /\ LET a == call[c].reply.agent IN
       \/ a # None /\ RecordAndReturn(c, Found(a))
       \/ a = None /\ Return(c, Unrecorded) /\ UNCHANGED <<history, faults>>
    /\ UNCHANGED <<registered, official, matches>>

(* The match an official call asked for arrives; the call asks for the     *)
(* record of the peer next (resolveOfficialAgent).                         *)
officialMatchArrives(c) ==
    /\ call[c].at = "match" /\ call[c].reply # None /\ call[c].tool = "official"
    /\ LET peer == peerOf(call[c].reply) IN
       \/ peer = None /\ RecordAndReturn(c, Error)
       \/ /\ peer # None
          /\ call' = [call EXCEPT ![c].at = "agent", ![c].target = peer,
                                  ![c].reply = None]
          /\ UNCHANGED <<answers, history, faults>>
    /\ UNCHANGED <<registered, official, matches>>

(* The record of the agent arrives; the call makes its checks and posts    *)
(* the request.                                                            *)
officialAgentArrives(c) ==
    /\ call[c].at = "agent" /\ call[c].reply # None /\ call[c].tool = "official"
    /\ LET a == call[c].reply.agent
           checked == prepare(a, call[c].reply.standing, call[c].input) IN
       \/ a = None /\ RecordAndReturn(c, Error)
       \/ a # None /\ checked # "ok" /\ RecordAndReturn(c, Refused(checked))
       \/ /\ a # None /\ checked = "ok"
          /\ call' = [call EXCEPT ![c].at = "posted", ![c].peer = a, ![c].reply = None]
          /\ UNCHANGED <<answers, history, faults>>
    /\ UNCHANGED <<registered, official, matches>>

(* The agent's response begins: the timer of the request is cleared. *)
headersArrive(c) ==
    /\ call[c].at = "posted"
    /\ call' = [call EXCEPT ![c].at = "reading"]
    /\ UNCHANGED <<registered, official, matches, answers, history, faults>>

(* What reading the response of agent a comes to: an HTTP error, content   *)
(* the agent's output policy forbids, or the result.                       *)
Outcomes(a) == {Error, Refused("sensitive_output_blocked"), Found(a)}

bodyArrives(c) ==
    /\ call[c].at = "reading"
    /\ \E answer \in Outcomes(call[c].peer) : RecordAndReturn(c, answer)
    /\ UNCHANGED <<registered, official, matches>>

(* A request fails, its response is lost, or the timer aborts it. *)
requestFails(c) ==
    /\ call[c].at \in {"match", "agent", "posted", "reading"}
    /\ faults < MaxFaults
    /\ record(c, Error, faults + 1)
    /\ Return(c, Error)
    /\ UNCHANGED <<registered, official, matches>>

(* The hub gives an agent official standing or takes it away. A call in    *)
(* progress has met the agents that had it at some time since it began.    *)
ChangeStanding ==
    /\ \E a \in Agents :
          /\ official' \in {official \cup {a}, official \ {a}} \ {official}
          /\ call' = [c \in Calls |-> IF call[c].at = "idle" THEN Idle
                                      ELSE [call[c] EXCEPT !.met = @ \cup official']]
    /\ UNCHANGED <<registered, matches, answers, history, faults>>

(* The registration with the hub is written to disk. *)
Register ==
    /\ ~registered /\ registered' = TRUE
    /\ UNCHANGED <<official, matches, call, answers, history, faults>>

(* The gateway process is restarted: calls in progress end without answer. *)
Restart ==
    /\ faults < MaxFaults /\ faults' = faults + 1
    /\ call' = [c \in Calls |-> Idle]
    /\ answers' = [n \in 1..Len(answers) |->
                      IF answers[n][1] = "open" THEN Unrecorded ELSE answers[n]]
    /\ history' = [history EXCEPT !.dirEnsured = FALSE]
    /\ UNCHANGED <<registered, official, matches>>

Step(c) ==
    \/ HubAnswers(c) \/ matchArrives(c) \/ resolveArrives(c)
    \/ officialMatchArrives(c) \/ officialAgentArrives(c)
    \/ headersArrive(c) \/ bodyArrives(c)

Next ==
    \/ \E c \in Calls : Begin(c) \/ Step(c) \/ requestFails(c)
    \/ ChangeStanding \/ Register \/ Restart

Spec == Init /\ [][Next]_vars

-----------------------------------------------------------------------------
(* Properties *)

Answers == ({"open", "ok", "error", "unrecorded", "sensitive_output_blocked"}
              \cup Range(Checks)) \X (Agents \cup {self, None})

(* The types of the variables. *)
TypeOK ==
    /\ registered \in BOOLEAN /\ official \subseteq Agents /\ faults \in 0..MaxFaults
    /\ \A c \in Calls :
          /\ call[c].at \in {"idle", "match", "agent", "posted", "reading"}
          /\ call[c].at # "idle" => answers[c] = <<"open", None>>
    /\ Range(answers) \subseteq Answers
    /\ \A i \in 1..Len(history.log) : history.log[i] \in (1..Len(answers)) \X Answers

(* The entries about call n. *)
Told(n) == {i \in 1..Len(history.log) : history.log[i][1] = n}

(* The history has at most one entry about a call, with the answer its     *)
(* caller got, and one about every call that ended and is to be recorded   *)
(* unless a write failed. (The record() calls on every path of             *)
(* performGenericHubMatch(), resolveHubPeer() and                          *)
(* callOfficialAgentAction().)                                             *)
HistoryTellsAnswers ==
    \A n \in 1..Len(answers) :
        /\ \A i \in Told(n) : history.log[i][2] = answers[n]
        /\ Cardinality(Told(n)) <= 1
        /\ Told(n) = {} => answers[n][1] \in {"open", "unrecorded"} \/ history.failed

(* A request is posted only to an agent that was official and verified at  *)
(* some time since the call began, and only when neither its action nor    *)
(* the input fails a check, whatever the hub changed meanwhile             *)
(* (callOfficialAgentAction).                                              *)
PostedIsAcceptable ==
    \A c \in Calls :
        call[c].at \in {"posted", "reading"} =>
            /\ call[c].peer \in call[c].met
            /\ Defects[call[c].peer] \cup call[c].input = {}
=============================================================================
