------------------------- MODULE HubDiscoveryProofs -------------------------
(***************************************************************************)
(* What discovery and the calls of official agents guarantee for any       *)
(* number of agents and of calls that run beside each other.               *)
(***************************************************************************)
EXTENDS HubDiscovery, FiniteSetTheorems, SequenceTheorems, TLAPS

(* A match this gateway is a side of, with another agent or with nobody.   *)
MatchReplies ==
    [requester: {self}, provider: Agents \cup {None}, callerRole: {"requester"}]
      \cup [requester: Agents, provider: {self}, callerRole: {"provider"}]

AgentReplies == [agent: Agents \cup {None}, standing: BOOLEAN]

CallRecords ==
    [at: {"idle", "match", "agent", "posted", "reading"},
     tool: {"match", "resolve", "official", None},
     by: {"skills", "match", "agent", "client", None},
     target: Agents \cup {None}, input: SUBSET Range(Checks),
     reply: {None} \cup MatchReplies \cup AgentReplies,
     peer: Agents \cup {None}, met: SUBSET Agents]

LogEntries == (1..MaxCalls) \X Answers

(* The types the proofs rest on. *)
DiscoveryTypes ==
    /\ official \subseteq Agents
    /\ matches \in Seq(MatchReplies)
    /\ call \in [Calls -> CallRecords]
    /\ answers \in Seq(Answers) /\ Len(answers) <= MaxCalls
    /\ history \in [dir: BOOLEAN, dirEnsured: BOOLEAN, log: Seq(LogEntries), failed: BOOLEAN]

(* What a call in progress knows: it has met every agent that is official  *)
(* now, and the one it was told is; what it posts passed the checks.       *)
CallKnows(g) ==
    /\ g.at # "idle" => official \subseteq g.met
    /\ g.at = "match" => g.reply \in {None} \cup MatchReplies
    /\ g.at = "agent" =>
          /\ g.target \in Agents
          /\ g.reply # None => /\ g.reply \in AgentReplies
                               /\ g.reply.standing => g.reply.agent \in g.met
    /\ g.at \in {"posted", "reading"} =>
          g.peer \in g.met /\ Defects[g.peer] \cup g.input = {}

CallsKnow == \A c \in Calls : CallKnows(call[c])

(* A call in progress has no answer yet. *)
CallsAreOpen ==
    \A c \in Calls : call[c].at # "idle" => c <= Len(answers) /\ answers[c] = <<"open", None>>

(* The entries of the history are about different calls that have ended,   *)
(* with their answers, and one is missing only when a write failed.        *)
HistoryIsTrue ==
    /\ \A i \in 1..Len(history.log) :
          /\ history.log[i][1] <= Len(answers)
          /\ history.log[i][2] = answers[history.log[i][1]]
          /\ answers[history.log[i][1]][1] # "open"
    /\ \A i, j \in 1..Len(history.log) : history.log[i][1] = history.log[j][1] => i = j

HistoryIsComplete ==
    /\ \A n \in 1..Len(answers) :
          \/ \E i \in 1..Len(history.log) : history.log[i][1] = n
          \/ answers[n][1] \in {"open", "unrecorded"}
          \/ history.failed
    /\ ~history.dir /\ history.dirEnsured => history.failed

(* The inductive invariant. *)
DiscoveryInv ==
    DiscoveryTypes /\ CallsKnow /\ CallsAreOpen /\ HistoryIsTrue /\ HistoryIsComplete

-----------------------------------------------------------------------------
(* The operators *)

(* The checks have names of their own.                                     *)
LEMMA CheckNames ==
    /\ Len(Checks) = 9 /\ \A i \in 1..9 : Checks[i] \in Range(Checks)
    /\ \A k \in Range(Checks) : k \notin {"ok", "open"} /\ \E i \in 1..9 : k = Checks[i]
  BY DEF Checks, Range

(* A set of positions has a first one.                                     *)
LEMMA FirstPosition ==
    ASSUME NEW I \in SUBSET (1..9), I # {}
    PROVE  Min(I) \in I
<1>1. \E x \in I : \A y \in I : x <= y
  <2> SUFFICES ASSUME \A x \in I : \E y \in I : y < x PROVE FALSE
    OBVIOUS
  <2>1. 1 \notin I /\ 2 \notin I /\ 3 \notin I
    OBVIOUS
  <2>2. 4 \notin I /\ 5 \notin I /\ 6 \notin I
    BY <2>1
  <2>3. 7 \notin I /\ 8 \notin I /\ 9 \notin I
    BY <2>1, <2>2
  <2>4. \A x \in 1..9 : x = 1 \/ x = 2 \/ x = 3 \/ x = 4 \/ x = 5 \/ x = 6 \/ x = 7 \/ x = 8 \/ x = 9
    OBVIOUS
  <2> QED
    BY <2>1, <2>2, <2>3, <2>4
<1> QED
  BY <1>1 DEF Min

(* prepareOfficialAgentActionCall() says "ok" exactly of an agent in good  *)
(* standing whose action and input fail no check; otherwise it names one.  *)
LEMMA PrepareRefuses ==
    ASSUME NEW a \in Agents, NEW standing \in BOOLEAN, NEW input \in SUBSET Range(Checks)
    PROVE  /\ prepare(a, standing, input) = "ok" => standing /\ Defects[a] \cup input = {}
           /\ prepare(a, standing, input) # "ok" => prepare(a, standing, input) \in Range(Checks)
<1> DEFINE failed == Defects[a] \cup input
                     \cup (IF standing THEN {} ELSE {"agent_not_official_verified"})
           I == {i \in 1..Len(Checks) : Checks[i] \in failed}
<1>1. prepare(a, standing, input) = IF failed = {} THEN "ok"
                                    ELSE Checks[IF I # {} THEN Min(I) ELSE 0]
  BY DEF prepare, SelectInSeq
<1>2. failed \subseteq Range(Checks)
  BY DefectsAssumption DEF Checks, Range
<1>3. CASE failed = {}
  BY <1>1, <1>3
<1>4. CASE failed # {}
  <2>1. I # {} /\ I \in SUBSET (1..9)
    BY <1>2, <1>4, CheckNames
  <2> HIDE DEF failed, I
  <2>2. Min(I) \in 1..9
    BY <2>1, FirstPosition
  <2> QED
    BY <1>1, <1>4, <2>1, <2>2, CheckNames
<1> QED
  BY <1>3, <1>4

(* The peer of a match of this gateway is another agent, or nobody.        *)
LEMMA PeerIsOther ==
    ASSUME NEW m \in MatchReplies
    PROVE  peerOf(m) \in Agents \cup {None}
  BY AgentsAssumption DEF MatchReplies, peerOf

(* The answers of the tools. *)
LEMMA AnswerTypes ==
    /\ Error \in Answers /\ Error[1] = "error"
    /\ Unrecorded \in Answers /\ Unrecorded[1] = "unrecorded"
    /\ <<"open", None>> \in Answers
    /\ \A a \in Agents \cup {None} : Found(a) \in Answers /\ Found(a)[1] = "ok"
    /\ \A why \in Range(Checks) \cup {"sensitive_output_blocked"} :
          Refused(why) \in Answers /\ Refused(why)[1] = why /\ why # "open"
  BY CheckNames DEF Error, Unrecorded, Found, Refused, Answers

-----------------------------------------------------------------------------
(* The history *)

(* record() of a call that is not in the history yet and whose answer is   *)
(* set in the same step keeps the history true.                            *)
LEMMA RecordKeeps ==
    ASSUME DiscoveryInv, NEW n \in 1..MaxCalls, NEW answer \in Answers, answer[1] # "open",
           NEW before, record(n, answer, before),
           answers' \in Seq(Answers), n <= Len(answers'), answers'[n] = answer,
           \A m \in 1..Len(answers') : m # n => m <= Len(answers) /\ answers'[m] = answers[m],
           Len(answers) <= Len(answers'),
           \A i \in 1..Len(history.log) : history.log[i][1] # n
    PROVE  /\ history' \in [dir: BOOLEAN, dirEnsured: BOOLEAN, log: Seq(LogEntries), failed: BOOLEAN]
           /\ HistoryIsTrue' /\ HistoryIsComplete'
<1> DEFINE log == history.log
           entry == <<n, answer>>
<1>1. /\ log \in Seq(LogEntries) /\ Len(log) \in Nat /\ Len(answers) \in Nat /\ Len(answers') \in Nat
      /\ history \in [dir: BOOLEAN, dirEnsured: BOOLEAN, log: Seq(LogEntries), failed: BOOLEAN]
  BY LenProperties DEF DiscoveryInv, DiscoveryTypes
<1>2. entry \in LogEntries /\ entry[1] = n /\ entry[2] = answer
  BY DEF LogEntries
<1>3. \A i \in 1..Len(log) : log[i][1] \in 1..MaxCalls
  BY <1>1, ElementOfSeq DEF LogEntries
<1>4. \A i \in 1..Len(log) : /\ log[i][1] <= Len(answers')
                             /\ log[i][2] = answers'[log[i][1]]
                             /\ answers'[log[i][1]][1] # "open"
  <2> SUFFICES ASSUME NEW i \in 1..Len(log)
               PROVE  /\ log[i][1] <= Len(answers')
                      /\ log[i][2] = answers'[log[i][1]]
                      /\ answers'[log[i][1]][1] # "open"
    OBVIOUS
  <2>1. /\ log[i][1] <= Len(answers) /\ log[i][2] = answers[log[i][1]]
        /\ answers[log[i][1]][1] # "open" /\ log[i][1] # n
    BY DEF DiscoveryInv, HistoryIsTrue
  <2>2. log[i][1] \in 1..Len(answers')
    BY <1>1, <1>3, <2>1
  <2> QED
    BY <2>1, <2>2
<1>5. \A i, j \in 1..Len(log) : log[i][1] = log[j][1] => i = j
  BY DEF DiscoveryInv, HistoryIsTrue
<1>6. \A m \in 1..Len(answers') : m # n =>
          \/ \E i \in 1..Len(log) : log[i][1] = m
          \/ answers'[m][1] \in {"open", "unrecorded"}
          \/ history.failed
  <2> SUFFICES ASSUME NEW m \in 1..Len(answers'), m # n
               PROVE  \/ \E i \in 1..Len(log) : log[i][1] = m
                      \/ answers'[m][1] \in {"open", "unrecorded"}
                      \/ history.failed
    OBVIOUS
  <2>1. m \in 1..Len(answers) /\ answers'[m] = answers[m]
    BY <1>1
  <2> QED
    BY <2>1 DEF DiscoveryInv, HistoryIsComplete
<1>7. CASE history' = [history EXCEPT !.dir = TRUE, !.dirEnsured = TRUE, !.log = Append(@, entry)]
  <2> DEFINE new == Append(log, entry)
  <2>1. /\ new \in Seq(LogEntries) /\ Len(new) = Len(log) + 1 /\ new[Len(log) + 1] = entry
        /\ \A i \in 1..Len(log) : new[i] = log[i]
    BY <1>1, <1>2, AppendProperties
  <2> HIDE DEF new, entry
  <2>2. /\ history'.log = new /\ history'.failed = history.failed /\ history'.dir
        /\ history' \in [dir: BOOLEAN, dirEnsured: BOOLEAN, log: Seq(LogEntries), failed: BOOLEAN]
    BY <1>1, <1>7, <2>1 DEF new
  <2>3. \A i \in 1..Len(new) : i \in 1..Len(log) \/ i = Len(log) + 1
    BY <1>1, <2>1
  <2>4. Len(log) + 1 \in 1..Len(new) /\ \A i \in 1..Len(log) : i \in 1..Len(new)
    BY <1>1, <2>1
  <2> HIDE DEF log
  <2>5. \A i \in 1..Len(new) : /\ new[i][1] <= Len(answers')
                               /\ new[i][2] = answers'[new[i][1]]
                               /\ answers'[new[i][1]][1] # "open"
    BY <1>2, <1>4, <2>1, <2>3
  <2>6. \A i, j \in 1..Len(new) : new[i][1] = new[j][1] => i = j
    <3>1. \A i \in 1..Len(log) : log[i][1] # n
      BY DEF log
    <3> QED
      BY <1>2, <1>5, <2>1, <2>3, <3>1
  <2>7. HistoryIsTrue'
    BY <2>2, <2>5, <2>6 DEF HistoryIsTrue
  <2>8. HistoryIsComplete'
    BY <1>2, <1>6, <2>1, <2>2, <2>4 DEF HistoryIsComplete
  <2> QED
    BY <2>2, <2>7, <2>8
<1>8. CASE history' = [history EXCEPT !.dirEnsured = TRUE, !.failed = TRUE]
  <2>1. /\ history'.log = log /\ history'.failed
        /\ history' \in [dir: BOOLEAN, dirEnsured: BOOLEAN, log: Seq(LogEntries), failed: BOOLEAN]
    BY <1>1, <1>8
  <2>2. HistoryIsTrue'
    BY <1>4, <1>5, <2>1 DEF HistoryIsTrue
  <2>3. HistoryIsComplete'
    BY <2>1 DEF HistoryIsComplete
  <2> QED
    BY <2>1, <2>2, <2>3
<1>9. CASE ~history.dir /\ history.dirEnsured /\ UNCHANGED history
  <2>1. history.failed
    BY <1>9 DEF DiscoveryInv, HistoryIsComplete
  <2>2. HistoryIsTrue'
    BY <1>4, <1>5, <1>9 DEF HistoryIsTrue
  <2>3. HistoryIsComplete'
    BY <1>9, <2>1 DEF HistoryIsComplete
  <2> QED
    BY <1>1, <1>9, <2>2, <2>3
<1> QED
  BY <1>7, <1>8, <1>9 DEF record

(* A step that leaves the history and the answers alone.                   *)
LEMMA HistoryKept ==
    ASSUME DiscoveryInv, UNCHANGED <<history, answers>>
    PROVE  HistoryIsTrue' /\ HistoryIsComplete'
  BY DEF DiscoveryInv, HistoryIsTrue, HistoryIsComplete

(* A call that is in progress is not in the history.                       *)
LEMMA OpenIsUntold ==
    ASSUME DiscoveryInv, NEW c \in Calls, call[c].at # "idle"
    PROVE  \A i \in 1..Len(history.log) : history.log[i][1] # c
  BY DEF DiscoveryInv, HistoryIsTrue, CallsAreOpen

-----------------------------------------------------------------------------
(* The calls *)

(* A call returns an answer and its caller's entry is written.             *)
LEMMA ReturnStep ==
    ASSUME DiscoveryInv, NEW c \in Calls, call[c].at # "idle",
           NEW answer \in Answers, answer[1] # "open", Return(c, answer),
           UNCHANGED <<official, matches>>,
           \/ \E before : record(c, answer, before)
           \/ answer[1] = "unrecorded" /\ UNCHANGED history
    PROVE  DiscoveryInv'
<1>1. /\ answers' = [answers EXCEPT ![c] = answer] /\ call' = [call EXCEPT ![c] = Idle]
      /\ c \in 1..Len(answers) /\ answers \in Seq(Answers) /\ Len(answers) \in Nat
      /\ Len(answers) <= MaxCalls
  BY LenProperties, BoundsAssumption DEF Return, DiscoveryInv, DiscoveryTypes, CallsAreOpen, Calls
<1>2. /\ answers' \in Seq(Answers) /\ Len(answers') = Len(answers)
      /\ \A m \in 1..Len(answers) : answers'[m] = IF m = c THEN answer ELSE answers[m]
  BY <1>1, ExceptSeq
<1>3. /\ call' \in [Calls -> CallRecords] /\ call'[c] = Idle
      /\ \A d \in Calls : d # c => call'[d] = call[d]
  <2>1. Idle \in CallRecords
    BY DEF Idle, CallRecords
  <2> QED
    BY <1>1, <2>1 DEF DiscoveryInv, DiscoveryTypes
<1>4. CallsKnow'
  BY <1>3 DEF DiscoveryInv, CallsKnow, CallKnows, Idle
<1>5. CallsAreOpen'
  <2>1. call'[c].at = "idle"
    BY <1>3 DEF Idle
  <2> SUFFICES ASSUME NEW d \in Calls, call'[d].at # "idle"
               PROVE  d <= Len(answers') /\ answers'[d] = <<"open", None>>
    BY DEF CallsAreOpen
  <2>2. d # c /\ d <= Len(answers) /\ answers[d] = <<"open", None>>
    BY <1>3, <2>1 DEF DiscoveryInv, CallsAreOpen
  <2>3. d \in 1..Len(answers)
    BY <1>1, <2>2, BoundsAssumption DEF Calls
  <2> QED
    BY <1>2, <2>2, <2>3
<1>6. \A i \in 1..Len(history.log) : history.log[i][1] # c
  BY OpenIsUntold
<1>7. /\ history' \in [dir: BOOLEAN, dirEnsured: BOOLEAN, log: Seq(LogEntries), failed: BOOLEAN]
      /\ HistoryIsTrue' /\ HistoryIsComplete'
  <2>1. ASSUME NEW before, record(c, answer, before)
        PROVE  /\ history' \in [dir: BOOLEAN, dirEnsured: BOOLEAN, log: Seq(LogEntries), failed: BOOLEAN]
               /\ HistoryIsTrue' /\ HistoryIsComplete'
    <3>1. c \in 1..MaxCalls
      BY DEF Calls
    <3>2. /\ answers'[c] = answer /\ c <= Len(answers')
          /\ \A m \in 1..Len(answers') : m # c => m <= Len(answers) /\ answers'[m] = answers[m]
          /\ Len(answers) <= Len(answers')
      BY <1>1, <1>2
    <3> QED
      BY <1>2, <1>6, <2>1, <3>1, <3>2, RecordKeeps
  <2>2. CASE answer[1] = "unrecorded" /\ UNCHANGED history
    <3>1. HistoryIsTrue'
      <4> SUFFICES ASSUME NEW i \in 1..Len(history.log)
                   PROVE  /\ history.log[i][1] <= Len(answers')
                          /\ history.log[i][2] = answers'[history.log[i][1]]
                          /\ answers'[history.log[i][1]][1] # "open"
        BY <2>2 DEF DiscoveryInv, HistoryIsTrue
      <4>1. /\ history.log[i][1] <= Len(answers) /\ history.log[i][2] = answers[history.log[i][1]]
            /\ answers[history.log[i][1]][1] # "open" /\ history.log[i][1] # c
        BY <1>6 DEF DiscoveryInv, HistoryIsTrue
      <4>2. history.log[i] \in LogEntries
        BY ElementOfSeq DEF DiscoveryInv, DiscoveryTypes
      <4>3. history.log[i][1] \in 1..Len(answers)
        BY <1>1, <4>1, <4>2 DEF LogEntries
      <4> QED
        BY <1>2, <4>1, <4>3
    <3>2. HistoryIsComplete'
      BY <1>2, <2>2 DEF DiscoveryInv, HistoryIsComplete
    <3> QED
      BY <2>2, <3>1, <3>2 DEF DiscoveryInv, DiscoveryTypes
  <2> QED
    BY <2>1, <2>2
<1>8. DiscoveryTypes'
  BY <1>1, <1>2, <1>3, <1>7 DEF DiscoveryInv, DiscoveryTypes
<1> QED
  BY <1>4, <1>5, <1>7, <1>8 DEF DiscoveryInv

(* A call goes on: its record changes, and nothing else of the gateway.    *)
LEMMA CallStep ==
    ASSUME DiscoveryInv, NEW c \in Calls, call[c].at # "idle",
           NEW g \in CallRecords, CallKnows(g),
           call' = [call EXCEPT ![c] = g], UNCHANGED <<official, answers, history>>,
           matches' \in Seq(MatchReplies)
    PROVE  DiscoveryInv'
<1>1. /\ call' \in [Calls -> CallRecords] /\ call'[c] = g
      /\ \A d \in Calls : d # c => call'[d] = call[d]
  BY DEF DiscoveryInv, DiscoveryTypes
<1>2. DiscoveryTypes'
  BY <1>1 DEF DiscoveryInv, DiscoveryTypes
<1>3. CallsKnow'
  BY <1>1 DEF DiscoveryInv, CallsKnow, CallKnows
<1>4. CallsAreOpen'
  BY <1>1 DEF DiscoveryInv, CallsAreOpen
<1> QED
  BY <1>2, <1>3, <1>4, HistoryKept DEF DiscoveryInv

(* The hub's answer: a new match, one it has, or the record of an agent.   *)
LEMMA HubAnswersStep ==
    ASSUME DiscoveryInv, NEW c \in Calls, HubAnswers(c)
    PROVE  DiscoveryInv'
<1>1. /\ call[c] \in CallRecords /\ CallKnows(call[c]) /\ matches \in Seq(MatchReplies)
      /\ UNCHANGED <<official, answers, history>>
  BY DEF DiscoveryInv, DiscoveryTypes, CallsKnow, HubAnswers
<1>2. ASSUME NEW r \in MatchReplies, call[c].at = "match", call' = [call EXCEPT ![c].reply = r],
             matches' \in Seq(MatchReplies)
      PROVE  DiscoveryInv'
  <2> DEFINE g == [call[c] EXCEPT !.reply = r]
  <2>1. g \in CallRecords
    BY <1>1 DEF CallRecords
  <2>2. CallKnows(g)
    BY <1>1, <1>2 DEF CallRecords, CallKnows
  <2>3. call' = [call EXCEPT ![c] = g]
    BY <1>2
  <2> HIDE DEF g
  <2> QED
    BY <1>1, <1>2, <2>1, <2>2, <2>3, CallStep
<1>3. ASSUME NEW r \in AgentReplies, call[c].at = "agent", call' = [call EXCEPT ![c].reply = r],
             r.standing => r.agent \in official, UNCHANGED matches
      PROVE  DiscoveryInv'
  <2> DEFINE g == [call[c] EXCEPT !.reply = r]
  <2>1. g \in CallRecords
    BY <1>1 DEF CallRecords
  <2>2. CallKnows(g)
    BY <1>1, <1>3 DEF CallRecords, CallKnows
  <2>3. call' = [call EXCEPT ![c] = g]
    BY <1>3
  <2> HIDE DEF g
  <2> QED
    BY <1>1, <1>3, <2>1, <2>2, <2>3, CallStep
<1>4. CASE /\ call[c].at = "match"
           /\ \E p \in Agents \cup {None} :
                LET m == [requester |-> self, provider |-> p, callerRole |-> "requester"]
                IN  /\ matches' = Append(matches, m)
                    /\ call' = [call EXCEPT ![c].reply = m]
  <2>1. PICK p \in Agents \cup {None} :
          LET m == [requester |-> self, provider |-> p, callerRole |-> "requester"]
          IN  /\ matches' = Append(matches, m)
              /\ call' = [call EXCEPT ![c].reply = m]
    BY <1>4
  <2> DEFINE m == [requester |-> self, provider |-> p, callerRole |-> "requester"]
  <2>2. m \in MatchReplies
    BY DEF MatchReplies
  <2>3. matches' = Append(matches, m) /\ call' = [call EXCEPT ![c].reply = m]
    BY <2>1
  <2> HIDE DEF m
  <2>4. matches' \in Seq(MatchReplies)
    BY <1>1, <2>2, <2>3, AppendProperties
  <2> QED
    BY <1>2, <1>4, <2>2, <2>3, <2>4
<1>5. CASE /\ call[c].at = "match"
           /\ \E i \in 1..Len(matches) : call' = [call EXCEPT ![c].reply = matches[i]]
           /\ UNCHANGED matches
  BY <1>1, <1>2, <1>5, ElementOfSeq
<1>6. CASE /\ call[c].at = "agent"
           /\ call' = [call EXCEPT ![c].reply =
                          [agent |-> call[c].target, standing |-> call[c].target \in official]]
           /\ UNCHANGED matches
  <2> DEFINE r == [agent |-> call[c].target, standing |-> call[c].target \in official]
  <2>1. call[c].target \in Agents
    BY <1>1, <1>6 DEF CallKnows
  <2>2. r \in AgentReplies
    BY <2>1 DEF AgentReplies
  <2>3. r.standing => r.agent \in official
    OBVIOUS
  <2> HIDE DEF r
  <2> QED
    BY <1>3, <1>6, <2>2, <2>3 DEF r
<1>7. CASE /\ call[c].at = "agent"
           /\ call' = [call EXCEPT ![c].reply = [agent |-> None, standing |-> FALSE]]
           /\ UNCHANGED matches
  <2>1. [agent |-> None, standing |-> FALSE] \in AgentReplies
    BY DEF AgentReplies
  <2> QED
    BY <1>3, <1>7, <2>1
<1> QED
  BY <1>4, <1>5, <1>6, <1>7 DEF HubAnswers

(* The match of a match or a resolution, and the agent of a resolution,    *)
(* end their calls.                                                        *)
LEMMA ResolvedStep ==
    ASSUME DiscoveryInv, NEW c \in Calls, matchArrives(c) \/ resolveArrives(c)
    PROVE  DiscoveryInv'
<1>1. CallKnows(call[c])
  BY DEF DiscoveryInv, CallsKnow
<1>2. CASE matchArrives(c)
  <2>1. /\ call[c].at = "match" /\ call[c].reply # None
        /\ RecordAndReturn(c, Found(peerOf(call[c].reply))) /\ UNCHANGED <<official, matches>>
    BY <1>2 DEF matchArrives
  <2>2. call[c].reply \in MatchReplies
    BY <1>1, <2>1 DEF CallKnows
  <2>3. peerOf(call[c].reply) \in Agents \cup {None}
    BY <2>2, PeerIsOther
  <2>4. Found(peerOf(call[c].reply)) \in Answers /\ Found(peerOf(call[c].reply))[1] = "ok"
    BY <2>3, AnswerTypes
  <2> QED
    BY <2>1, <2>4, ReturnStep DEF RecordAndReturn
<1>3. CASE resolveArrives(c)
  <2> DEFINE a == call[c].reply.agent
  <2>1. /\ call[c].at = "agent" /\ call[c].reply # None /\ UNCHANGED <<official, matches>>
        /\ \/ a # None /\ RecordAndReturn(c, Found(a))
           \/ a = None /\ Return(c, Unrecorded) /\ UNCHANGED history
    BY <1>3 DEF resolveArrives
  <2>2. a \in Agents \cup {None}
    BY <1>1, <2>1 DEF CallKnows, AgentReplies
  <2> HIDE DEF a
  <2>3. Found(a) \in Answers /\ Found(a)[1] = "ok"
    BY <2>2, AnswerTypes
  <2>4. CASE RecordAndReturn(c, Found(a))
    BY <2>1, <2>3, <2>4, ReturnStep DEF RecordAndReturn
  <2>5. CASE Return(c, Unrecorded) /\ UNCHANGED history
    <3>1. Unrecorded[1] # "open"
      BY AnswerTypes
    <3> QED
      BY <2>1, <2>5, <3>1, AnswerTypes, ReturnStep
  <2> QED
    BY <2>1, <2>4, <2>5
<1> QED
  BY <1>2, <1>3

(* An error ends a call in progress. *)
LEMMA ErrorStep ==
    ASSUME DiscoveryInv, NEW c \in Calls, call[c].at # "idle", UNCHANGED <<official, matches>>,
           NEW before, record(c, Error, before), Return(c, Error)
    PROVE  DiscoveryInv'
<1>1. Error \in Answers /\ Error[1] # "open"
  BY AnswerTypes
<1> QED
  BY <1>1, ReturnStep

(* The match of an official call.                                          *)
LEMMA OfficialMatchStep ==
    ASSUME DiscoveryInv, NEW c \in Calls, officialMatchArrives(c)
    PROVE  DiscoveryInv'
<1> DEFINE peer == peerOf(call[c].reply)
           g == [call[c] EXCEPT !.at = "agent", !.target = peer, !.reply = None]
<1>1. /\ call[c].at = "match" /\ call[c].reply # None /\ UNCHANGED <<official, matches>>
      /\ \/ peer = None /\ RecordAndReturn(c, Error)
         \/ /\ peer # None /\ UNCHANGED <<answers, history>>
            /\ call' = [call EXCEPT ![c].at = "agent", ![c].target = peer, ![c].reply = None]
  BY DEF officialMatchArrives
<1>2. call[c] \in CallRecords /\ CallKnows(call[c]) /\ matches \in Seq(MatchReplies)
  BY DEF DiscoveryInv, DiscoveryTypes, CallsKnow
<1>3. peer \in Agents \cup {None}
  BY <1>1, <1>2, PeerIsOther DEF CallKnows
<1> HIDE DEF peer
<1>4. CASE RecordAndReturn(c, Error)
  BY <1>1, <1>4, ErrorStep DEF RecordAndReturn
<1>5. CASE /\ peer # None /\ UNCHANGED <<answers, history>>
           /\ call' = [call EXCEPT ![c].at = "agent", ![c].target = peer, ![c].reply = None]
  <2>1. g \in CallRecords
    BY <1>2, <1>3 DEF CallRecords
  <2>3. CallKnows(g)
    BY <1>1, <1>2, <1>3, <1>5 DEF CallRecords, CallKnows
  <2>4. call' = [call EXCEPT ![c] = g]
    BY <1>5
  <2> HIDE DEF g
  <2> QED
    BY <1>1, <1>2, <1>5, <2>1, <2>3, <2>4, CallStep
<1> QED
  BY <1>1, <1>4, <1>5

(* The record of the agent: the checks of an official call.                *)
LEMMA OfficialAgentStep ==
    ASSUME DiscoveryInv, NEW c \in Calls, officialAgentArrives(c)
    PROVE  DiscoveryInv'
<1> DEFINE a == call[c].reply.agent
           checked == prepare(a, call[c].reply.standing, call[c].input)
           g == [call[c] EXCEPT !.at = "posted", !.peer = a, !.reply = None]
<1>1. /\ call[c].at = "agent" /\ call[c].reply # None /\ UNCHANGED <<official, matches>>
      /\ \/ a = None /\ RecordAndReturn(c, Error)
         \/ a # None /\ checked # "ok" /\ RecordAndReturn(c, Refused(checked))
         \/ /\ a # None /\ checked = "ok" /\ UNCHANGED <<answers, history>>
            /\ call' = [call EXCEPT ![c].at = "posted", ![c].peer = a, ![c].reply = None]
  BY DEF officialAgentArrives
<1>2. call[c] \in CallRecords /\ CallKnows(call[c]) /\ matches \in Seq(MatchReplies)
  BY DEF DiscoveryInv, DiscoveryTypes, CallsKnow
<1>3. /\ call[c].reply \in AgentReplies /\ a \in Agents \cup {None}
      /\ call[c].reply.standing \in BOOLEAN /\ call[c].input \in SUBSET Range(Checks)
      /\ call[c].reply.standing => a \in call[c].met
  BY <1>1, <1>2 DEF CallKnows, AgentReplies, CallRecords
<1>4. a # None => /\ checked = "ok" => call[c].reply.standing /\ Defects[a] \cup call[c].input = {}
                  /\ checked # "ok" => checked \in Range(Checks)
  BY <1>3, PrepareRefuses
<1> HIDE DEF a, checked
<1>5. CASE a = None /\ RecordAndReturn(c, Error)
  BY <1>1, <1>5, ErrorStep DEF RecordAndReturn
<1>6. CASE a # None /\ checked # "ok" /\ RecordAndReturn(c, Refused(checked))
  <2>1. Refused(checked) \in Answers /\ Refused(checked)[1] # "open"
    BY <1>4, <1>6, AnswerTypes
  <2> QED
    BY <1>1, <1>6, <2>1, ReturnStep DEF RecordAndReturn
<1>7. CASE /\ a # None /\ checked = "ok" /\ UNCHANGED <<answers, history>>
           /\ call' = [call EXCEPT ![c].at = "posted", ![c].peer = a, ![c].reply = None]
  <2>1. g \in CallRecords
    BY <1>2, <1>3 DEF CallRecords
  <2>2. CallKnows(g)
    BY <1>1, <1>2, <1>3, <1>4, <1>7 DEF CallRecords, CallKnows
  <2>3. call' = [call EXCEPT ![c] = g]
    BY <1>7
  <2> HIDE DEF g
  <2> QED
    BY <1>1, <1>2, <1>7, <2>1, <2>2, <2>3, CallStep
<1> QED
  BY <1>1, <1>5, <1>6, <1>7

(* The response of the official agent.                                     *)
LEMMA ResponseStep ==
    ASSUME DiscoveryInv, NEW c \in Calls, headersArrive(c) \/ bodyArrives(c)
    PROVE  DiscoveryInv'
<1>1. call[c] \in CallRecords /\ CallKnows(call[c]) /\ matches \in Seq(MatchReplies)
  BY DEF DiscoveryInv, DiscoveryTypes, CallsKnow
<1>2. CASE headersArrive(c)
  <2> DEFINE g == [call[c] EXCEPT !.at = "reading"]
  <2>1. g \in CallRecords
    BY <1>1 DEF CallRecords
  <2>2. CallKnows(g)
    BY <1>1, <1>2 DEF CallRecords, CallKnows, headersArrive
  <2>3. call' = [call EXCEPT ![c] = g]
    BY <1>2 DEF headersArrive
  <2> HIDE DEF g
  <2> QED
    BY <1>1, <1>2, <2>1, <2>2, <2>3, CallStep DEF headersArrive
<1>3. CASE bodyArrives(c)
  <2>1. PICK answer \in Outcomes(call[c].peer) : RecordAndReturn(c, answer)
    BY <1>3 DEF bodyArrives
  <2>2. call[c].peer \in Agents \cup {None}
    BY <1>1 DEF CallRecords
  <2>3. answer \in Answers /\ answer[1] # "open"
    BY <2>1, <2>2, AnswerTypes DEF Outcomes
  <2> QED
    BY <1>3, <2>1, <2>3, ReturnStep DEF RecordAndReturn, bodyArrives
<1> QED
  BY <1>2, <1>3

(* A call begins. What fails at once is answered and recorded at once.     *)
LEMMA BeginStep ==
    ASSUME DiscoveryInv, NEW c \in Calls, Begin(c)
    PROVE  DiscoveryInv'
<1>1. PICK asked \in Asked, a \in Agents, input \in Inputs : begin(c, asked[1], asked[2], a, input)
  BY DEF Begin
<1> DEFINE tool == asked[1]
           by == asked[2]
           g == Opened(tool, by, a, input)
<1>2. tool \in {"match", "resolve", "official"} /\ by \in {"skills", "match", "agent", "client", "nothing"}
  BY DEF Asked
<1>3. /\ answers \in Seq(Answers) /\ Len(answers) \in Nat /\ c = Len(answers) + 1 /\ c \in 1..MaxCalls
      /\ UNCHANGED <<official, matches>>
  BY <1>1, LenProperties DEF begin, Calls, DiscoveryInv, DiscoveryTypes
<1>4. ASSUME NEW answer \in Answers, answers' = Append(answers, answer)
      PROVE  /\ answers' \in Seq(Answers) /\ Len(answers') = c /\ answers'[c] = answer
             /\ \A m \in 1..Len(answers') : m # c => m \in 1..Len(answers) /\ answers'[m] = answers[m]
             /\ \A m \in 1..Len(answers) : answers'[m] = answers[m] /\ m <= c /\ m # c
  <2>1. /\ answers' \in Seq(Answers) /\ Len(answers') = Len(answers) + 1
        /\ answers'[Len(answers) + 1] = answer
        /\ \A m \in 1..Len(answers) : answers'[m] = answers[m]
    BY <1>3, <1>4, AppendProperties
  <2> QED
    BY <1>3, <2>1
<1>5. \A i \in 1..Len(history.log) : history.log[i] \in LogEntries /\ history.log[i][1] \in 1..Len(answers)
  <2>1. \A i \in 1..Len(history.log) : history.log[i] \in LogEntries
    BY ElementOfSeq DEF DiscoveryInv, DiscoveryTypes
  <2> QED
    BY <1>3, <2>1 DEF DiscoveryInv, HistoryIsTrue, LogEntries
<1>6. \A d \in Calls : call[d].at # "idle" => d \in 1..Len(answers)
  BY <1>3 DEF DiscoveryInv, CallsAreOpen, Calls
<1>7. ASSUME NEW answer \in Answers, answers' = Append(answers, answer), UNCHANGED history,
             answer[1] \in {"open", "unrecorded"}
      PROVE  HistoryIsTrue' /\ HistoryIsComplete'
  <2>1. \A m \in 1..Len(answers) : answers'[m] = answers[m] /\ m <= Len(answers')
    BY <1>4, <1>7
  <2>2. HistoryIsTrue'
    BY <1>5, <1>7, <2>1 DEF DiscoveryInv, HistoryIsTrue
  <2>3. HistoryIsComplete'
    BY <1>3, <1>4, <1>7 DEF DiscoveryInv, HistoryIsComplete
  <2> QED
    BY <2>2, <2>3
<1>8. ASSUME NEW answer \in Answers, answers' = Append(answers, answer), UNCHANGED call,
             history' \in [dir: BOOLEAN, dirEnsured: BOOLEAN, log: Seq(LogEntries), failed: BOOLEAN]
      PROVE  DiscoveryTypes' /\ CallsKnow' /\ CallsAreOpen'
  <2>1. DiscoveryTypes'
    BY <1>3, <1>4, <1>8, BoundsAssumption DEF DiscoveryInv, DiscoveryTypes
  <2>2. CallsKnow'
    BY <1>3, <1>8 DEF DiscoveryInv, CallsKnow, CallKnows
  <2>3. CallsAreOpen'
    BY <1>3, <1>4, <1>6, <1>8 DEF DiscoveryInv, CallsAreOpen
  <2> QED
    BY <2>1, <2>2, <2>3
<1>9. CASE /\ by # "nothing" /\ answers' = Append(answers, <<"open", None>>)
           /\ call' = [call EXCEPT ![c] = g] /\ UNCHANGED history
  <2>1. input \in SUBSET Range(Checks) /\ official \subseteq Agents
    BY InputsAssumption DEF DiscoveryInv, DiscoveryTypes
  <2>2. g \in CallRecords /\ g.reply = None /\ g.met = official /\ g.target = a
        /\ g.at \in {"match", "agent"}
    BY <1>2, <1>9, <2>1 DEF Opened, Idle, CallRecords
  <2> HIDE DEF g
  <2>3. /\ call' \in [Calls -> CallRecords] /\ call'[c] = g
        /\ \A d \in Calls : d # c => call'[d] = call[d]
    BY <1>9, <2>2 DEF DiscoveryInv, DiscoveryTypes
  <2>4. <<"open", None>> \in Answers /\ <<"open", None>>[1] = "open"
    BY AnswerTypes
  <2>5. DiscoveryTypes'
    BY <1>3, <1>4, <1>9, <2>3, <2>4, BoundsAssumption DEF DiscoveryInv, DiscoveryTypes
  <2>6. CallsKnow'
    <3>1. CallKnows(g)
      BY <2>2 DEF CallKnows
    <3> QED
      BY <1>3, <2>3, <3>1 DEF DiscoveryInv, CallsKnow, CallKnows
  <2>7. CallsAreOpen'
    BY <1>3, <1>4, <1>6, <1>9, <2>3, <2>4 DEF DiscoveryInv, CallsAreOpen
  <2> QED
    BY <1>7, <1>9, <2>4, <2>5, <2>6, <2>7 DEF DiscoveryInv
<1>10. CASE answers' = Append(answers, Error) /\ record(c, Error, faults) /\ UNCHANGED call
  <2>1. Error \in Answers /\ Error[1] # "open"
    BY AnswerTypes
  <2>2. /\ answers' \in Seq(Answers) /\ c <= Len(answers') /\ answers'[c] = Error
        /\ \A m \in 1..Len(answers') : m # c => m <= Len(answers) /\ answers'[m] = answers[m]
        /\ Len(answers) <= Len(answers')
        /\ \A i \in 1..Len(history.log) : history.log[i][1] # c
    BY <1>3, <1>4, <1>5, <1>10, <2>1
  <2>3. /\ history' \in [dir: BOOLEAN, dirEnsured: BOOLEAN, log: Seq(LogEntries), failed: BOOLEAN]
        /\ HistoryIsTrue' /\ HistoryIsComplete'
    BY <1>3, <1>10, <2>1, <2>2, RecordKeeps
  <2> QED
    BY <1>8, <1>10, <2>1, <2>3 DEF DiscoveryInv
<1>11. CASE answers' = Append(answers, Unrecorded) /\ UNCHANGED <<call, history>>
  <2>1. Unrecorded \in Answers /\ Unrecorded[1] \in {"open", "unrecorded"}
    BY AnswerTypes
  <2>2. history' \in [dir: BOOLEAN, dirEnsured: BOOLEAN, log: Seq(LogEntries), failed: BOOLEAN]
    BY <1>11 DEF DiscoveryInv, DiscoveryTypes
  <2> QED
    BY <1>7, <1>8, <1>11, <2>1, <2>2 DEF DiscoveryInv
<1> QED
  BY <1>1, <1>9, <1>10, <1>11 DEF begin

(* The hub changes the standing of an agent. *)
LEMMA StandingStep ==
    ASSUME DiscoveryInv, ChangeStanding
    PROVE  DiscoveryInv'
<1>1. PICK a \in Agents :
        /\ official' \in {official \cup {a}, official \ {a}} \ {official}
        /\ call' = [c \in Calls |-> IF call[c].at = "idle" THEN Idle
                                    ELSE [call[c] EXCEPT !.met = @ \cup official']]
  BY DEF ChangeStanding
<1>2. official' \subseteq Agents /\ UNCHANGED <<matches, answers, history>>
  BY <1>1 DEF ChangeStanding, DiscoveryInv, DiscoveryTypes
<1>3. ASSUME NEW c \in Calls
      PROVE  /\ call'[c] \in CallRecords /\ CallKnows(call[c])'
             /\ call'[c].at = call[c].at
  <2>1. call[c] \in CallRecords /\ CallKnows(call[c])
    BY DEF DiscoveryInv, DiscoveryTypes, CallsKnow
  <2>2. CASE call[c].at = "idle"
    <3>1. call'[c] = Idle
      BY <1>1, <2>2
    <3>2. Idle \in CallRecords /\ Idle.at = "idle"
      BY DEF Idle, CallRecords
    <3> QED
      BY <2>2, <3>1, <3>2 DEF CallKnows
  <2>3. CASE call[c].at # "idle"
    <3> DEFINE g == [call[c] EXCEPT !.met = @ \cup official']
    <3>1. call'[c] = g
      BY <1>1, <2>3
    <3>2. g \in CallRecords
      BY <1>2, <2>1 DEF CallRecords
    <3>3. /\ g.at = call[c].at /\ g.target = call[c].target /\ g.reply = call[c].reply
          /\ g.peer = call[c].peer /\ g.input = call[c].input /\ g.met = call[c].met \cup official'
      BY <2>1 DEF CallRecords
    <3> HIDE DEF g
    <3>4. CallKnows(call[c])'
      BY <2>1, <3>1, <3>3 DEF CallKnows
    <3> QED
      BY <3>1, <3>2, <3>3, <3>4
  <2> QED
    BY <2>2, <2>3
<1>4. call' \in [Calls -> CallRecords]
  BY <1>1, <1>3
<1>5. DiscoveryTypes'
  BY <1>2, <1>4 DEF DiscoveryInv, DiscoveryTypes
<1>6. CallsKnow'
  BY <1>3 DEF CallsKnow
<1>7. CallsAreOpen'
  BY <1>2, <1>3 DEF DiscoveryInv, CallsAreOpen
<1> QED
  BY <1>2, <1>5, <1>6, <1>7, HistoryKept DEF DiscoveryInv

(* A restart forgets the calls in progress, of which nothing was recorded. *)
LEMMA RestartStep ==
    ASSUME DiscoveryInv, Restart
    PROVE  DiscoveryInv'
<1>1. /\ call' = [c \in Calls |-> Idle]
      /\ answers' = [n \in 1..Len(answers) |->
                        IF answers[n][1] = "open" THEN Unrecorded ELSE answers[n]]
      /\ history' = [history EXCEPT !.dirEnsured = FALSE]
      /\ UNCHANGED <<official, matches>>
  BY DEF Restart
<1>2. /\ answers \in Seq(Answers) /\ Len(answers) \in Nat /\ Len(answers) <= MaxCalls
      /\ \A n \in 1..Len(answers) : answers[n] \in Answers
  BY LenProperties, ElementOfSeq DEF DiscoveryInv, DiscoveryTypes
<1>3. answers' \in [1..Len(answers) -> Answers]
  BY <1>1, <1>2, AnswerTypes
<1>4. answers' \in Seq(Answers) /\ Len(answers') = Len(answers)
  BY <1>2, <1>3, SeqDef
<1>5. Idle \in CallRecords /\ Idle.at = "idle"
  BY DEF Idle, CallRecords
<1>6. /\ history'.log = history.log /\ history'.failed = history.failed /\ ~history'.dirEnsured
      /\ history' \in [dir: BOOLEAN, dirEnsured: BOOLEAN, log: Seq(LogEntries), failed: BOOLEAN]
  BY <1>1 DEF DiscoveryInv, DiscoveryTypes
<1>7. DiscoveryTypes'
  BY <1>1, <1>2, <1>4, <1>5, <1>6 DEF DiscoveryInv, DiscoveryTypes
<1>8. CallsKnow' /\ CallsAreOpen'
  BY <1>1, <1>5 DEF CallsKnow, CallKnows, CallsAreOpen
<1>9. HistoryIsTrue'
  <2> SUFFICES ASSUME NEW i \in 1..Len(history.log)
               PROVE  /\ history.log[i][1] <= Len(answers')
                      /\ history.log[i][2] = answers'[history.log[i][1]]
                      /\ answers'[history.log[i][1]][1] # "open"
    BY <1>6 DEF DiscoveryInv, HistoryIsTrue
  <2>1. /\ history.log[i][1] <= Len(answers) /\ history.log[i][2] = answers[history.log[i][1]]
        /\ answers[history.log[i][1]][1] # "open"
    BY DEF DiscoveryInv, HistoryIsTrue
  <2>2. history.log[i] \in LogEntries
    BY ElementOfSeq DEF DiscoveryInv, DiscoveryTypes
  <2>3. history.log[i][1] \in 1..Len(answers)
    BY <1>2, <2>1, <2>2 DEF LogEntries
  <2> QED
    BY <1>1, <1>4, <2>1, <2>3
<1>10. HistoryIsComplete'
  <2> SUFFICES ASSUME NEW n \in 1..Len(answers)
               PROVE  \/ \E i \in 1..Len(history.log) : history.log[i][1] = n
                      \/ answers'[n][1] \in {"open", "unrecorded"}
                      \/ history.failed
    BY <1>4, <1>6 DEF HistoryIsComplete
  <2>1. answers'[n] = IF answers[n][1] = "open" THEN Unrecorded ELSE answers[n]
    BY <1>1
  <2> QED
    BY <2>1, AnswerTypes DEF DiscoveryInv, HistoryIsComplete
<1> QED
  BY <1>7, <1>8, <1>9, <1>10 DEF DiscoveryInv

-----------------------------------------------------------------------------
(* The initial states satisfy the invariant. *)
LEMMA DiscoveryInit == Init => DiscoveryInv
<1> SUFFICES ASSUME Init PROVE DiscoveryInv
  OBVIOUS
<1> DEFINE m == [requester |-> CHOOSE a \in Agents : TRUE,
                 provider |-> self, callerRole |-> "provider"]
<1>1. m \in MatchReplies
  BY AgentsAssumption DEF MatchReplies
<1> HIDE DEF m
<1>2. matches = <<m>>
  BY DEF Init, m
<1>3. matches \in Seq(MatchReplies)
  BY <1>1, <1>2
<1>4. Idle \in CallRecords /\ Idle.at = "idle"
  BY DEF Idle, CallRecords
<1>5. answers \in Seq(Answers) /\ Len(answers) = 0
  BY EmptySeq DEF Init
<1>6. /\ history.log = << >> /\ Len(history.log) = 0 /\ ~history.dirEnsured
      /\ history \in [dir: BOOLEAN, dirEnsured: BOOLEAN, log: Seq(LogEntries), failed: BOOLEAN]
  BY EmptySeq DEF Init
<1>7. DiscoveryTypes
  BY <1>3, <1>4, <1>5, <1>6, BoundsAssumption DEF Init, DiscoveryTypes
<1>8. CallsKnow /\ CallsAreOpen
  BY <1>4 DEF Init, CallsKnow, CallKnows, CallsAreOpen
<1>9. HistoryIsTrue /\ HistoryIsComplete
  BY <1>5, <1>6 DEF HistoryIsTrue, HistoryIsComplete
<1> QED
  BY <1>7, <1>8, <1>9 DEF DiscoveryInv

(* Every step keeps the invariant: one case for each action. *)
LEMMA DiscoveryStep == DiscoveryInv /\ [Next]_vars => DiscoveryInv'
<1> SUFFICES ASSUME DiscoveryInv, [Next]_vars PROVE DiscoveryInv'
  OBVIOUS
<1>1. ASSUME NEW c \in Calls, Begin(c) PROVE DiscoveryInv'
  BY <1>1, BeginStep
<1>2. ASSUME NEW c \in Calls, HubAnswers(c) PROVE DiscoveryInv'
  BY <1>2, HubAnswersStep
<1>3. ASSUME NEW c \in Calls, matchArrives(c) \/ resolveArrives(c) PROVE DiscoveryInv'
  BY <1>3, ResolvedStep
<1>4. ASSUME NEW c \in Calls, officialMatchArrives(c) PROVE DiscoveryInv'
  BY <1>4, OfficialMatchStep
<1>5. ASSUME NEW c \in Calls, officialAgentArrives(c) PROVE DiscoveryInv'
  BY <1>5, OfficialAgentStep
<1>6. ASSUME NEW c \in Calls, headersArrive(c) \/ bodyArrives(c) PROVE DiscoveryInv'
  BY <1>6, ResponseStep
<1>7. ASSUME NEW c \in Calls, requestFails(c) PROVE DiscoveryInv'
  BY <1>7, ErrorStep DEF requestFails
<1>8. ASSUME ChangeStanding PROVE DiscoveryInv'
  BY <1>8, StandingStep
<1>9. ASSUME Register \/ UNCHANGED vars PROVE DiscoveryInv'
  <2>1. UNCHANGED <<official, matches, call, answers, history>>
    BY <1>9 DEF Register, vars
  <2>2. DiscoveryTypes' /\ CallsAreOpen'
    BY <2>1 DEF DiscoveryInv, DiscoveryTypes, CallsAreOpen
  <2>3. CallsKnow'
    BY <2>1 DEF DiscoveryInv, CallsKnow, CallKnows
  <2> QED
    BY <2>1, <2>2, <2>3, HistoryKept DEF DiscoveryInv
<1>10. ASSUME Restart PROVE DiscoveryInv'
  BY <1>10, RestartStep
<1> QED
  BY <1>1, <1>2, <1>3, <1>4, <1>5, <1>6, <1>7, <1>8, <1>9, <1>10 DEF Next, Step

(* The invariant holds throughout. *)
LEMMA DiscoveryInvariant == Spec => []DiscoveryInv
  BY DiscoveryInit, DiscoveryStep, PTL DEF Spec

(* Whatever the hub changes while a call is in progress, a request is      *)
(* posted only to an agent that had official standing since the call       *)
(* began, and that passed every check (callOfficialAgentAction of          *)
(* official-agent-call.ts).                                                *)
THEOREM PostsAreAcceptable == Spec => []PostedIsAcceptable
<1>1. DiscoveryInv => PostedIsAcceptable
  BY DEF DiscoveryInv, CallsKnow, CallKnows, PostedIsAcceptable
<1> QED
  BY <1>1, DiscoveryInvariant, PTL

(* The history file has one entry about every call that ended and is to be *)
(* recorded, with the answer its caller got, unless a write failed         *)
(* (history.ts and the record() calls of the tools).                       *)
THEOREM HistoryIsFaithful == Spec => []HistoryTellsAnswers
<1>1. DiscoveryInv => HistoryTellsAnswers
  <2> SUFFICES ASSUME DiscoveryInv, NEW n \in 1..Len(answers)
               PROVE  /\ \A i \in Told(n) : history.log[i][2] = answers[n]
                      /\ Cardinality(Told(n)) <= 1
                      /\ Told(n) = {} => answers[n][1] \in {"open", "unrecorded"} \/ history.failed
    BY DEF HistoryTellsAnswers
  <2>1. \A i \in Told(n) : history.log[i][2] = answers[n]
    BY DEF Told, DiscoveryInv, HistoryIsTrue
  <2>2. \A i, j \in Told(n) : i = j
    BY DEF Told, DiscoveryInv, HistoryIsTrue
  <2>3. Cardinality(Told(n)) <= 1
    <3>1. CASE Told(n) = {}
      BY <3>1, FS_EmptySet
    <3>2. CASE Told(n) # {}
      <4>1. PICK i \in Told(n) : TRUE
        BY <3>2
      <4>2. Told(n) = {i}
        BY <2>2, <4>1
      <4>3. Cardinality({i}) = 1
        BY FS_Singleton
      <4> QED
        BY <4>2, <4>3
    <3> QED
      BY <3>1, <3>2
  <2>4. Told(n) = {} => answers[n][1] \in {"open", "unrecorded"} \/ history.failed
    BY DEF Told, DiscoveryInv, HistoryIsComplete
  <2> QED
    BY <2>1, <2>3, <2>4
<1> QED
  BY <1>1, DiscoveryInvariant, PTL
=============================================================================
