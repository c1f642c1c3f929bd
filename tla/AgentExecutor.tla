---------------------------- MODULE AgentExecutor ----------------------------
(***************************************************************************)
(* OpenClawAgentExecutor (src/src/executor.ts): execute() publishes the    *)
(* states of a task while it dispatches the message over GatewayRpc, with  *)
(* a heartbeat, the /hooks/wake fallback and cancelTask() beside it. Every *)
(* task is executed once; runs of several tasks interleave and share the   *)
(* cache of task contexts.                                                 *)
(***************************************************************************)
EXTENDS GatewayRpc, Sequences, FiniteSets, SequencesExt

CONSTANTS Tasks,            \* task ids
          CacheLimit        \* TASK_CONTEXT_CACHE_LIMIT

ASSUME TasksAssumption == IsFiniteSet(Tasks)
ASSUME CacheAssumption == CacheLimit \in Nat \ {0}

VARIABLES
    conn,           \* the GatewayRpcConnection of each task's run
    stage,          \* how far execute() is
    heartbeat,      \* tasks whose heartbeat interval is armed
    contexts,       \* keys of taskContextByTaskId, oldest first
    last,           \* the state last published on the task's event bus
    finished        \* finished() was called on it

executorVars == <<conn, stage, heartbeat, contexts, last, finished>>

ExecutorInit ==
    /\ conn = [t \in Tasks |-> NewConnection]
    /\ stage = [t \in Tasks |-> "new"]
    /\ heartbeat = {}
    /\ contexts = <<>>
    /\ last = [t \in Tasks |-> "none"]
    /\ finished = [t \in Tasks |-> FALSE]

Without(seq, t) == SelectSeq(seq, LAMBDA u : u # t)

rememberTaskContext(t) ==
    LET remembered == Append(Without(contexts, t), t)
    IN  contexts' = IF Len(remembered) > CacheLimit THEN Tail(remembered) ELSE remembered

publish(t, state) == last' = [last EXCEPT ![t] = state]

(* A terminal state, then finished(): execute() returns. *)
ConcludeRun(t, state) ==
    /\ publish(t, state)
    /\ finished' = [finished EXCEPT ![t] = TRUE]
    /\ stage' = [stage EXCEPT ![t] = "done"]

(* execute() on a message whose files do not pass validateInboundFileParts *)
ExecuteRefused(t) ==
    /\ stage[t] = "new"
    /\ rememberTaskContext(t)
    /\ ConcludeRun(t, "failed")
    /\ UNCHANGED <<conn, heartbeat>>

(* execute() up to its await in dispatchViaGatewayRpc *)
Execute(t) ==
    /\ stage[t] = "new"
    /\ rememberTaskContext(t)
    /\ publish(t, "working")
    /\ heartbeat' = heartbeat \cup {t}
    /\ stage' = [stage EXCEPT ![t] = "dispatching"]
    /\ conn' = [conn EXCEPT ![t] = Opens(@, TRUE)]
    /\ UNCHANGED finished

(* execute() when connect() finds no WebSocket to construct: the dispatch  *)
(* throws before any timer can fire.                                       *)
ExecuteOffline(t) ==
    /\ stage[t] = "new"
    /\ rememberTaskContext(t)
    /\ publish(t, "working")
    /\ stage' = [stage EXCEPT ![t] = "waking"]
    /\ conn' = [conn EXCEPT ![t].at = "threw"]
    /\ UNCHANGED <<heartbeat, finished>>

Heartbeat(t) ==
    /\ t \in heartbeat
    /\ publish(t, "working")
    /\ UNCHANGED <<conn, stage, heartbeat, contexts, finished>>

(* Mutant: the interval is cleared only when the dispatch returns. *)
clearHeartbeatOnReturn(t) ==
    heartbeat' = IF conn[t]'.at = "returned" THEN heartbeat \ {t} ELSE heartbeat

clearHeartbeat(t) == heartbeat' = heartbeat \ {t}

(* execute() goes on when the dispatch has ended. *)
Resume(t) ==
    CASE stage[t] = "dispatching" /\ conn'[t].at = "returned" ->
           clearHeartbeat(t) /\ ConcludeRun(t, "completed")
      [] stage[t] = "dispatching" /\ conn'[t].at = "threw" ->
           /\ clearHeartbeat(t)
           /\ stage' = [stage EXCEPT ![t] = "waking"]
           /\ UNCHANGED <<last, finished>>
      [] OTHER -> UNCHANGED <<heartbeat, stage, last, finished>>

(* A callback of the task's connection leaves it as one of the records G.  *)
Callback(t, G) ==
    /\ \E g \in G : conn' = [conn EXCEPT ![t] = g]
    /\ Resume(t)
    /\ UNCHANGED contexts

-----------------------------------------------------------------------------
(* Timers *)

OpenTimer(t)      == "open" \in conn[t].timers /\ Callback(t, {OpenFails(conn[t], "connecting")})
ChallengeTimer(t) == "challenge" \in conn[t].timers /\ Callback(t, {ChallengeTimesOut(conn[t])})
RequestTimer(t) ==
    \E m \in conn[t].timers \cap Methods : Callback(t, {RequestTimesOut(conn[t], m)})

(* The socket and the gateway behind it *)

SocketOpens(t) ==
    conn[t].ws = "connecting" /\ conn[t].at = "opening" /\ Callback(t, {OnOpen(conn[t])})
SocketFails(t) ==
    conn[t].ws = "connecting" /\ conn[t].at = "opening" /\ Callback(t, {OpenFails(conn[t], "closed")})
GatewayCloses(t) ==
    conn[t].ws = "open" /\ conn[t].held /\ Callback(t, {SocketCloses(conn[t])})
GatewayChallenges(t) ==
    /\ conn[t].ws = "open" /\ conn[t].held
    /\ conn[t].challenge = "waiting"
    /\ Callback(t, ChallengeArrives(conn[t]))

(* A frame that answers a pending request; others are ignored. *)
GatewayAnswers(t) ==
    /\ conn[t].ws = "open" /\ conn[t].held
    /\ \/ /\ "connect" \in conn[t].pending
          /\ \E a \in {"ok", "pairing required", "error"} : Callback(t, ConnectAnswered(conn[t], a))
       \/ /\ "agent" \in conn[t].pending
          /\ \E a \in {"accepted", "text", "ok", "error"} : Callback(t, AgentAnswered(conn[t], a))
       \/ /\ "chat.history" \in conn[t].pending
          /\ \E a \in {"text", "error"} : Callback(t, HistoryAnswered(conn[t], a))

(* tryHooksWakeFallback() is over, however it went; without a hooks token  *)
(* it returns at once.                                                     *)
WakeEnds(t) ==
    /\ stage[t] = "waking"
    /\ ConcludeRun(t, "failed")
    /\ UNCHANGED <<conn, heartbeat, contexts>>

(* cancelTask(), which the SDK calls while the task's bus is in use. *)
CancelTask(t) ==
    /\ stage[t] \in {"dispatching", "waking"}
    /\ IF Contains(contexts, t)
       THEN publish(t, "canceled") /\ contexts' = Without(contexts, t)
       ELSE UNCHANGED <<last, contexts>>
    /\ finished' = [finished EXCEPT ![t] = TRUE]
    /\ UNCHANGED <<conn, stage, heartbeat>>

Timers(t) == OpenTimer(t) \/ ChallengeTimer(t) \/ RequestTimer(t)

Environment(t) ==
    SocketOpens(t) \/ SocketFails(t) \/ GatewayCloses(t) \/ GatewayChallenges(t) \/ GatewayAnswers(t)

ExecutorNext ==
    \E t \in Tasks : \/ ExecuteRefused(t) \/ Execute(t) \/ ExecuteOffline(t) \/ Heartbeat(t)
                     \/ Timers(t) \/ Environment(t)
                     \/ WakeEnds(t) \/ CancelTask(t)

ExecutorSpec == ExecutorInit /\ [][ExecutorNext]_executorVars

(* Armed timers fire, and the wake request has an abort timeout; nothing   *)
(* is assumed of the gateway.                                              *)
ExecutorFairness ==
    \A t \in Tasks : /\ WF_executorVars(OpenTimer(t)) /\ WF_executorVars(ChallengeTimer(t))
                     /\ WF_executorVars(RequestTimer(t)) /\ WF_executorVars(WakeEnds(t))

ExecutorLiveSpec == ExecutorSpec /\ ExecutorFairness

-----------------------------------------------------------------------------
(* Properties. *)

ExecutorTypeOK ==
    /\ conn \in [Tasks -> Connections]
    /\ stage \in [Tasks -> {"new", "dispatching", "waking", "done"}]
    /\ heartbeat \subseteq Tasks
    /\ contexts \in Seq(Tasks)
    /\ last \in [Tasks -> {"none", "working", "completed", "failed", "canceled"}]
    /\ finished \in [Tasks -> BOOLEAN]

(* The timers of a connection are exactly those of what it waits for, and  *)
(* so are the pending requests: none fires into a later wait, and an ended *)
(* dispatch leaves none behind.                                            *)
TimersMatchWaits ==
    \A t \in Tasks : LET g == conn[t] IN
        /\ g.pending = {g.at} \cap Methods
        /\ g.timers = g.pending \cup (IF g.at = "opening" THEN {"open"} ELSE {})
                                \cup (IF g.challenge = "waiting" THEN {"challenge"} ELSE {})
        /\ g.challenge = "waiting" => g.at \in {"opening", "challenge"}

(* A dispatch that connected and has ended has closed its socket and taken *)
(* its listeners off, whichever way it ended.                              *)
ConnectedIsClosed ==
    \A t \in Tasks : conn[t].connected /\ conn[t].at \in Ends
                        => conn[t].ws = "closed" /\ ~conn[t].held

(* Nothing is published of a run after its result, the completed or failed *)
(* task of execute(): the heartbeat interval is cleared on both ways there. *)
NothingAfterResult ==
    [][\A t \in Tasks : stage[t] = "done" => last'[t] = last[t] /\ finished'[t] = finished[t]
      ]_executorVars

(* A canceled task stays canceled ("Cancellation is a terminal state",     *)
(* executor.ts:1000). Not so in the code: README, Divergences.             *)
CanceledIsTerminal ==
    [][\A t \in Tasks : last[t] = "canceled" => last'[t] = "canceled"]_executorVars

(* Every execution ends, whatever the gateway does or fails to do. *)
EveryRunEnds == \A t \in Tasks : stage[t] = "dispatching" ~> stage[t] = "done"

(* A gateway that is slow or not reachable makes the dispatch fail, so the *)
(* executor can fall back: no rejection is left for nobody to handle. Not  *)
(* so in the code: README, Divergences.                                    *)
NoUnhandledRejection == \A t \in Tasks : ~conn[t].unhandled
=============================================================================
