-------------------------- MODULE QueueingExecutor --------------------------
(***************************************************************************)
(* QueueingAgentExecutor (src/src/queueing-executor.ts): the bounded queue *)
(* between the A2A SDK and the agent executor, with the task counters it   *)
(* keeps in GatewayTelemetry.                                              *)
(*                                                                         *)
(* A request is one call of execute(); several requests may carry the same *)
(* task id, as the SDK lets a client send further messages to a task that  *)
(* has not ended. An action is what one callback does from its start to    *)
(* its next await; `turn` is "drain" inside the loop that ends runEntry,   *)
(* during which no other callback can run.                                 *)
(***************************************************************************)
EXTENDS Integers, Sequences, FiniteSets, SequencesExt

CONSTANTS Requests,             \* calls of execute()
          Tasks,                \* task ids
          TaskOf,               \* the task id each request carries
          maxConcurrentTasks,   \* limits.maxConcurrentTasks as configured
          maxQueuedTasks,       \* limits.maxQueuedTasks as configured
          NoEntry               \* an absent entry of pendingByTaskId

ASSUME RequestsAssumption == IsFiniteSet(Requests) /\ NoEntry \notin Requests
ASSUME TaskOfAssumption   == TaskOf \in [Requests -> Tasks]
ASSUME LimitsAssumption   == maxConcurrentTasks \in Int /\ maxQueuedTasks \in Int

VARIABLES
    queue,              \* entries waiting for a slot, oldest first
    pendingByTaskId,    \* the entry last registered for each task id
    activeTasks,        \* slots in use
    promise,            \* the promise execute() returned for each request
    running,            \* requests whose runEntry awaits delegate.execute()
    finalState,         \* the terminal state runEntry observed on the bus
    last,               \* last task state published on each task's event bus
    finished,           \* finished() was called on the task's event bus
    metrics,            \* GatewayTelemetry.tasks
    turn                \* "idle": the event loop may run any callback

vars == <<queue, pendingByTaskId, activeTasks, promise, running, finalState,
          last, finished, metrics, turn>>

-----------------------------------------------------------------------------
(* Limits as the constructor stores them. *)

MaxConcurrent == IF maxConcurrentTasks > 1 THEN maxConcurrentTasks ELSE 1
MaxQueued     == IF maxQueuedTasks > 0 THEN maxQueuedTasks ELSE 0

-----------------------------------------------------------------------------
(* GatewayTelemetry's task counters. *)

Counters == {"queued", "started", "completed", "failed", "canceled", "rejected",
             "queue_rejections", "active", "queue_depth", "max_active_observed",
             "max_queue_depth_observed", "finished"}

Larger(a, b) == IF a > b THEN a ELSE b

(* `+= 1` on each of the counters in C *)
Increment(m, C) == [c \in Counters |-> IF c \in C THEN m[c] + 1 ELSE m[c]]

setQueueState(m, activeCount, queueDepth) ==
    [m EXCEPT !["active"] = activeCount,
              !["queue_depth"] = queueDepth,
              !["max_active_observed"] = Larger(@, activeCount),
              !["max_queue_depth_observed"] = Larger(@, queueDepth)]

recordTaskQueued(m, queueDepth) ==
    setQueueState(Increment(m, {"queued"}), m["active"], queueDepth)

recordTaskStart(m, activeCount, queueDepth) ==
    setQueueState(Increment(m, {"started"}), activeCount, queueDepth)

(* The terminal states are the names of their counters. *)
recordTaskFinish(m, state, activeCount, queueDepth) ==
    setQueueState(Increment(m, {"finished", state}), activeCount, queueDepth)

(* Mutant: a refused task is not counted among the rejected ones. *)
recordQueueRejectedOnce(m, queueDepth) ==
    setQueueState(Increment(m, {"queue_rejections"}), m["active"], queueDepth)

recordQueueRejected(m, queueDepth) ==
    setQueueState(Increment(m, {"queue_rejections", "rejected"}), m["active"], queueDepth)

-----------------------------------------------------------------------------
(* Event buses: one per task id, shared by the requests that carry it. *)

Published == {"none", "submitted", "working", "completed", "failed", "canceled", "rejected"}
Terminal  == {"completed", "failed", "canceled", "rejected"}

publish(t, state) == last' = [last EXCEPT ![t] = state]

finish(t) == finished' = [finished EXCEPT ![t] = TRUE]

-----------------------------------------------------------------------------
Init ==
    /\ queue = <<>>
    /\ pendingByTaskId = [t \in Tasks |-> NoEntry]
    /\ activeTasks = 0
    /\ promise = [r \in Requests |-> "none"]
    /\ running = {}
    /\ finalState = [r \in Requests |-> "none"]
    /\ last = [t \in Tasks |-> "none"]
    /\ finished = [t \in Tasks |-> FALSE]
    /\ metrics = [c \in Counters |-> 0]
    /\ turn = "idle"

(* The position of the first entry with the task id, 0 for findIndex's -1. *)
queuedIndex(q, t) == SelectInSeq(q, LAMBDA e : TaskOf[e] = t)

(* Removes the first queued entry that carries the task id, whichever      *)
(* request it belongs to.                                                  *)
queueDelete(q, t) ==
    IF queuedIndex(q, t) # 0 THEN RemoveAt(q, queuedIndex(q, t)) ELSE q

(* runEntry up to its await, on a queue q: the delegate's synchronous part *)
(* publishes "working".                                                    *)
runEntry(r, q) ==
    LET t == TaskOf[r] IN
    /\ queue' = queueDelete(q, t)
    /\ activeTasks' = activeTasks + 1
    /\ running' = running \cup {r}
    /\ metrics' = recordTaskStart(metrics, activeTasks + 1, Len(queue'))
    /\ publish(t, "working")
    /\ UNCHANGED <<finalState, finished>>

(* execute() with a free slot *)
ExecuteRuns(r) ==
    /\ activeTasks < MaxConcurrent
    /\ runEntry(r, queue)
    /\ promise' = [promise EXCEPT ![r] = "pending"]
    /\ pendingByTaskId' = [pendingByTaskId EXCEPT ![TaskOf[r]] = r]

(* execute() with neither a slot nor room in the queue *)
ExecuteRejects(r) ==
    LET t == TaskOf[r] IN
    /\ activeTasks >= MaxConcurrent
    /\ Len(queue) >= MaxQueued
    /\ pendingByTaskId' = [pendingByTaskId EXCEPT ![t] = NoEntry]
    /\ metrics' = recordQueueRejected(metrics, Len(queue))
    /\ publish(t, "rejected")
    /\ finish(t)
    /\ promise' = [promise EXCEPT ![r] = "resolved"]
    /\ UNCHANGED <<queue, activeTasks, running, finalState>>

(* execute() parks the entry *)
ExecuteQueues(r) ==
    LET t == TaskOf[r] IN
    /\ activeTasks >= MaxConcurrent
    /\ Len(queue) < MaxQueued
    /\ pendingByTaskId' = [pendingByTaskId EXCEPT ![t] = r]
    /\ queue' = Append(queue, r)
    /\ metrics' = recordTaskQueued(metrics, Len(queue'))
    /\ publish(t, "submitted")
    /\ promise' = [promise EXCEPT ![r] = "pending"]
    /\ UNCHANGED <<activeTasks, running, finalState, finished>>

execute(r) ==
    /\ turn = "idle"
    /\ promise[r] = "none"
    /\ ExecuteRuns(r) \/ ExecuteRejects(r) \/ ExecuteQueues(r)
    /\ UNCHANGED turn

(* The SDK calls cancelTask() only while the task's event bus lives. *)
Live(t) == \E r \in Requests : TaskOf[r] = t /\ promise[r] = "pending"

(* Mutant: the canceled entry is settled but stays in the queue. *)
spliceNothing(q, i) == q

(* queue.splice(i, 1) *)
splice(q, i) == RemoveAt(q, i)

(* cancelTask() of a task id found in the queue *)
CancelQueued(t) ==
    /\ turn = "idle"
    /\ Live(t)
    /\ queuedIndex(queue, t) # 0
    /\ queue' = splice(queue, queuedIndex(queue, t))
    /\ promise' = [promise EXCEPT ![queue[queuedIndex(queue, t)]] = "resolved"]
    /\ pendingByTaskId' = [pendingByTaskId EXCEPT ![t] = NoEntry]
    /\ publish(t, "canceled")
    /\ finish(t)
    /\ metrics' = recordTaskFinish(metrics, "canceled", activeTasks, Len(queue'))
    /\ UNCHANGED <<activeTasks, running, finalState, turn>>

(* cancelTask() handed to the delegate, which publishes "canceled" on the  *)
(* bus it is given, not on the observed one, when it knows the task, and   *)
(* does not stop the run.                                                  *)
CancelDelegated(t) ==
    /\ turn = "idle"
    /\ Live(t)
    /\ queuedIndex(queue, t) = 0
    /\ publish(t, "canceled") \/ UNCHANGED last
    /\ finish(t)
    /\ UNCHANGED <<queue, pendingByTaskId, activeTasks, promise, running,
                   finalState, metrics, turn>>

(* The delegate publishes a terminal state on the observed bus, which      *)
(* keeps the last one, and may call finished() on it.                      *)
ObservePublish(r, state) ==
    /\ turn = "idle"
    /\ r \in running
    /\ finalState' = [finalState EXCEPT ![r] = state]
    /\ publish(TaskOf[r], state)
    /\ finish(TaskOf[r]) \/ UNCHANGED finished
    /\ UNCHANGED <<queue, pendingByTaskId, activeTasks, promise, running,
                   metrics, turn>>

(* The state runEntry reports to telemetry. *)
Reported(r) == IF finalState[r] = "none" THEN "failed" ELSE finalState[r]

(* Mutant: the slot is given back only when the delegate returns. *)
slotsAfterRunLeaking(outcome) ==
    IF outcome = "resolved" THEN Larger(0, activeTasks - 1) ELSE activeTasks

(* Mutant: both the delegate and runEntry give the slot back. *)
slotsAfterRunTwice(outcome) == activeTasks - 2

slotsAfterRun(outcome) == Larger(0, activeTasks - 1)

(* Mutant: finished() left to the delegate, which may not call it. *)
finishAfterNothing(t) == UNCHANGED finished

(* finished() once more, in case the delegate did not call it *)
finishAfterRun(t) == finish(t)

(* delegate.execute() returns or throws: the rest of runEntry up to its    *)
(* trailing drainQueue().                                                  *)
RunEntryEnds(r, outcome) ==
    LET t == TaskOf[r]
        active == slotsAfterRun(outcome)
    IN
    /\ turn = "idle"
    /\ r \in running
    /\ promise' = [promise EXCEPT ![r] = outcome]
    /\ finalState' = [finalState EXCEPT ![r] = "none"]
    /\ running' = running \ {r}
    /\ pendingByTaskId' = [pendingByTaskId EXCEPT ![t] = NoEntry]
    /\ activeTasks' = active
    /\ metrics' = recordTaskFinish(metrics, Reported(r), active, Len(queue))
    /\ finishAfterRun(t)
    /\ turn' = "drain"
    /\ UNCHANGED <<queue, last>>

(* Mutant: the newest entry is taken, pop() for shift(). *)
DrainIteratesNewest ==
    /\ turn = "drain"
    /\ activeTasks < MaxConcurrent
    /\ queue # <<>>
    /\ runEntry(Last(queue), Front(queue))
    /\ UNCHANGED <<pendingByTaskId, promise, turn>>

(* One iteration of the while loop of drainQueue(). *)
DrainIterates ==
    /\ turn = "drain"
    /\ activeTasks < MaxConcurrent
    /\ queue # <<>>
    /\ runEntry(Head(queue), Tail(queue))
    /\ UNCHANGED <<pendingByTaskId, promise, turn>>

(* Mutant: the finally block may end without draining the queue. *)
DrainEndsEarly ==
    /\ turn = "drain"
    /\ turn' = "idle"
    /\ UNCHANGED <<queue, pendingByTaskId, activeTasks, promise, running,
                   finalState, last, finished, metrics>>

(* The loop's condition is false: runEntry returns to the event loop. *)
DrainEnds ==
    /\ turn = "drain"
    /\ activeTasks >= MaxConcurrent \/ queue = <<>>
    /\ turn' = "idle"
    /\ UNCHANGED <<queue, pendingByTaskId, activeTasks, promise, running,
                   finalState, last, finished, metrics>>

Next ==
    \/ \E r \in Requests : execute(r)
    \/ \E t \in Tasks : CancelQueued(t) \/ CancelDelegated(t)
    \/ \E r \in Requests : \/ \E s \in Terminal : ObservePublish(r, s)
                           \/ \E o \in {"resolved", "rejected"} : RunEntryEnds(r, o)
    \/ DrainIterates
    \/ DrainEnds

Spec == Init /\ [][Next]_vars

(* The delegate's gateway request carries a timeout and its fallback fetch *)
(* an abort signal, so every run ends; the loop is synchronous code.       *)
Fairness ==
    /\ \A r \in Requests : WF_vars(\E o \in {"resolved", "rejected"} : RunEntryEnds(r, o))
    /\ WF_vars(DrainIterates \/ DrainEnds)

LiveSpec == Spec /\ Fairness
-----------------------------------------------------------------------------
(* Properties. *)

TypeOK ==
    /\ queue \in Seq(Requests)
    /\ pendingByTaskId \in [Tasks -> Requests \cup {NoEntry}]
    /\ activeTasks \in Nat
    /\ promise \in [Requests -> {"none", "pending", "resolved", "rejected"}]
    /\ running \subseteq Requests
    /\ finalState \in [Requests -> Terminal \cup {"none"}]
    /\ last \in [Tasks -> Published]
    /\ finished \in [Tasks -> BOOLEAN]
    /\ metrics \in [Counters -> Nat]
    /\ turn \in {"idle", "drain"}

(* The configured limits hold whatever mix of starts, throws, cancels and  *)
(* drains happens, and the slot counter is exactly the number of runs that *)
(* await the delegate: no path leaks a slot or gives one back twice.       *)
SlotsExact ==
    /\ activeTasks = Cardinality(running)
    /\ activeTasks <= MaxConcurrent
    /\ Len(queue) <= MaxQueued

(* Between callbacks a request waits only while every slot is in use: a    *)
(* freed slot is never left idle beside a waiting request (drainQueue is   *)
(* the only place that starts one).                                        *)
NoIdleSlotBesideQueue ==
    turn = "idle" /\ queue # <<>> => activeTasks = MaxConcurrent

(* The counters served by /a2a/metrics agree with the executor: the gauges *)
(* are its slots and queue, the high-water marks lie between them and the  *)
(* limits, every start is active or has finished, and the tasks that       *)
(* finished are the ones counted by their final state.                     *)
MetricsAgree ==
    /\ metrics["active"] = activeTasks
    /\ metrics["queue_depth"] = Len(queue)
    /\ metrics["max_active_observed"] \in activeTasks..MaxConcurrent
    /\ metrics["max_queue_depth_observed"] \in Len(queue)..MaxQueued
    /\ metrics["finished"] = metrics["completed"] + metrics["failed"] + metrics["canceled"]
                                + (metrics["rejected"] - metrics["queue_rejections"])
    /\ metrics["finished"] + metrics["queue_rejections"] + activeTasks + Len(queue)
          = Cardinality({r \in Requests : promise[r] # "none"})

(* When the promise of a request is settled, finished() has been called on *)
(* its event bus, so the SDK's request handler does not wait for ever.     *)
SettledBusFinished ==
    \A r \in Requests : promise[r] \in {"resolved", "rejected"} => finished[TaskOf[r]]

(* A request that starts is the oldest one waiting, or none waits: neither *)
(* a new call of execute() nor a cancel elsewhere lets it overtake.        *)
FirstComeFirstServed ==
    [][\A r \in running' \ running : queue = <<>> \/ r = Head(queue)]_vars

(* Every request is answered: once execute() has returned its promise, the *)
(* promise is settled, though other requests keep coming and being canceled.*)
EveryRequestSettles ==
    \A r \in Requests : promise[r] = "pending" ~> promise[r] \in {"resolved", "rejected"}

-----------------------------------------------------------------------------
(* The executor implements TaskService. *)

stage == [r \in Requests |->
            CASE r \in running -> "running"
              [] r \notin running /\ promise[r] = "none" -> "new"
              [] r \notin running /\ promise[r] = "pending" -> "waiting"
              [] OTHER -> "settled"]

Service == INSTANCE TaskService WITH Capacity <- MaxConcurrent

(* A request runs at most once, at most MaxConcurrent run, a settled one   *)
(* never runs: what execute() and cancelTask() promise, as a refinement.   *)
ImplementsTaskService == Service!Spec
=============================================================================
