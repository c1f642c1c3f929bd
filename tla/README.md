# A TLA+ model of claw-crony

claw-crony is an OpenClaw plugin that gives a local gateway an A2A (agent to
agent) endpoint, a client for peer gateways, and a connection to a matchmaking
hub. It is one Node.js process: nothing runs in parallel, but every `await` is a
place where other callbacks run, and nearly all of its state is read before one
and written after it. That, with the peers, the hub, the OpenClaw gateway and the
file system failing underneath, is what this project models.

## The system

| Part | Source | State | Operations | Talks to |
|---|---|---|---|---|
| Inbound task queue | `src/queueing-executor.ts` | queue, slots, one promise per request | execute, cancelTask, drain | A2A SDK (caller), agent executor (delegate), telemetry |
| Telemetry | `src/telemetry.ts` | counters, gauges, recent events | record… | everything |
| Agent executor | `src/executor.ts` | heartbeat, cache of task contexts | execute, cancelTask | gateway RPC, hooks fallback, event bus |
| Gateway RPC connection | `src/executor.ts` | socket, challenge, pending requests, timers | connect, reconnect, request, close | OpenClaw gateway over a WebSocket |
| Peer circuit breaker | `src/peer-health.ts` | circuit, failures in a row, trial in flight | isAvailable, recordSuccess, recordFailure, periodic checks | outbound client |
| Outbound client | `src/client.ts`, `peer-retry.ts`, `transport-fallback.ts` | attempt, transport | sendMessage | breaker, peers |
| Shared context store | `src/shared-context.ts` | file of JSON lines, write queue | createRoom, archiveRoom, postMessage, attachArtifact, reads | file system |
| Hub match handshake | `index.ts`, `hub-match.ts`, `ephemeral-token.ts`, `handshake-crypto.ts` | peers, valid tokens, processed messages | performMatchRequest, processPendingHubMatches | hub |
| Task store, cleanup | `src/task-store.ts`, `task-cleanup.ts` | one file per task, temporary files | save, load, delete, listAll, runTaskCleanup | A2A SDK (caller), file system |
| Service lifecycle | `index.ts` | servers, timers, memoised hub promises | start, stop, gateway_start, gateway_stop | everything |
| Hub registration, identity, profile | `hub-registration.ts`, `identity-store.ts`, `hub-auth.ts`, `hub-profile.ts` | identity and registration files | load or create, register with retries, presence, challenge, profile | hub |
| Connection tools and state | `connection-*.ts`, `hub-connection-requests.ts`, `protocols/`, `index.ts` | a state file of requests, offers, sessions | publish, offer, accept, fetch session | hub |
| Hub discovery, official agent call | `hub-discovery.ts`, `hub-resolve.ts`, `official-agent-call.ts`, `history.ts` | history file | match, resolve, checked call | hub, HTTPS endpoints |
| Internal protocol library | `internal/` | outbox, nonce cache, idempotency store | enqueue, relay, validate, dedupe, answer | other gateways |
| Routing rules | `routing-rules.ts` | none | match | outbound client |
| Audit, files, agent card, configuration, CLI sender | the rest | append-only log | | |

What is hard here: the interleaving of calls at awaits (queue, breaker, stores,
polls, tools), results that arrive after the state they belong to has changed
(breaker, RPC timers, a stop during a start-up), a step of several failing
(handshake, registration, dispatch, multi-line writes), a process that ends
between two file operations, requests that are lost, delayed or repeated between
gateways, and things that must eventually happen (a promise, a finished event
bus, a circuit that closes again, an entry of the outbox that settles).
`PROJECT.json` lists the hazards with their lines; where a property covers only
part of one, its note says which part is left.

## Modules

| Module | Models | Notes |
|---|---|---|
| `TaskService` | what the queue promises the SDK | abstract: a request waits or runs, runs once, at most `Capacity` run, is settled once |
| `QueueingExecutor` | `QueueingAgentExecutor` and the task counters of `GatewayTelemetry` | implements `TaskService` under the mapping `stage` |
| `PeerHealth` | the methods of `PeerHealthManager` | operators over the breaker's variables |
| `OutboundSend` | `A2AClient.sendMessage`, `withRetry`, the fallback loop, health checks | extends `PeerHealth` |
| `SharedContext` | `SharedContextStore` | |
| `GatewayRpc` | `GatewayRpcConnection`, `dispatchViaGatewayRpc` | operators over a connection record |
| `AgentExecutor` | `OpenClawAgentExecutor` | extends `GatewayRpc`, holds a connection per task |
| `HubHandshake` | `performMatchRequest`, `processPendingHubMatches`, the hub between them | |
| `HubRegistration` | `startHubLifecycle` and what it calls: identity, registration, presence, bearer challenge, profile | operators and actions over the two files and the hub |
| `ServiceLifecycle` | `start`, `stop`, the gateway hooks, restarts | extends `HubRegistration` |
| `TaskStore` | `FileTaskStore` | |
| `TaskCleanup` | `runTaskCleanup`, `isExpired`, the cleanup interval | extends `TaskStore` |
| `Outbox` | `internal/outbox.ts` | the sender |
| `Inbox` | `internal/security.ts`, `envelope.ts`, `idempotency.ts`, `transport.ts` | the receiver |
| `Delivery` | both ends and the network | composes `Outbox` and `Inbox` |
| `ConnectionState` | `connection-state.ts` | the file |
| `ConnectionTools` | the connection tools, `hub-connection-requests.ts`, `connection-session.ts` | extends `ConnectionState` |
| `HubDiscovery` | match, resolution, official agent call, request history | |
| `MC…` | instances for TLC | constants and symmetry only |
| `QueueingExecutorProofs`, `SharedContextProofs`, `TaskCleanupProofs`, `HubDiscoveryProofs`, `ConnectionToolsProofs` | theorems about the module they are named after | one inductive invariant each, one lemma per action |
| `ServiceLifecycleProofs` | theorems about `ServiceLifecycle` with `HubRegistration` | |
| `MessageProofs` | theorems about `OutboundSend` and `AgentExecutor`: a message to a peer and one to the agent | extends both |
| `TwoGatewaysProofs` | theorems about `Delivery` and `HubHandshake`: what two gateways promise each other | extends both |

`AgentExecutor` and `HubHandshake` put `Executor` and `Handshake` before the usual
names of a specification (`ExecutorSpec`, `HandshakeInit`), so that a module can
extend them beside another specification.

Conventions. An action is what one callback does from its start to its next
`await`. Operators carry the names of the functions they translate; the operators
marked *Mutant* are plausible wrong versions of the definition that follows them,
used to see that each property can fail. External parties (SDK, gateway, peer,
hub, clock, process death) are nondeterministic.

**QueueingExecutor.** `execute` splits into the three branches of the code
(run, reject, queue). `runEntry` is the synchronous part before the delegate is
awaited; `RunEntryEnds` is the rest up to the trailing `drainQueue()`, whose loop
is stepped by `DrainIterates`/`DrainEnds` while `turn = "drain"` keeps other
callbacks out. Several requests may carry one task id (`TaskOf`), because
`queueDelete` and `cancelTask` look entries up by task id.

**OutboundSend.** A send is admitted or refused by the breaker, resolves the
agent card, tries the only transport (`doSendViaFactory`, which throws) or several
in order (`doSendViaTransport`, whose non-retryable error becomes a result of
status 500), backs off and retries, and reports its result to the breaker. Peer
names never mix in `PeerHealthManager`, so one peer stands for all. The failure
counter saturates just above the threshold and the clock at the cooldown. A call
may hang for ever, and one that began before the peer changed may still report
what the peer was then (`late`).
`failureThreshold >= 1` is what `index.ts:425` clamps it to.

**SharedContext.** `log` is what `loadState()` can parse. A call remembers in
`snap` how much of it its own load returned and decides on that later. A write
puts its lines into the file one at a time, so a failure or a restart may leave
a prefix and half a line (`torn`); the next line is then glued to it and lost.
Left out: a directory that cannot be created (`mkdirSync` throws before anything is
queued) and a whole line that lacks only its newline.

**GatewayRpc / AgentExecutor.** A connection record holds what is awaited, the
socket, the challenge promise (and whether anybody awaits it), armed timers and
pending requests. Every timer, socket event and frame is a step. The hooks
fallback is one step (`WakeEnds`), which without a token is immediate. Without a
WebSocket to construct the dispatch throws at once (`ExecuteOffline`).

**HubHandshake.** One requester, one provider, any number of matches between
them, and provider polls that overlap. Every hub call ends `ok`, `failed`, or
`lost` (took effect, response lost). The hub is not in this repository: it is
taken to hand out messages until they are consumed and to let a message be
consumed once; `OfferTakenInOnce` rests on that, since `processedMessages` is
written only after the await of the consume call. Whether a message decrypts and
carries a well-formed token is a nondeterministic outcome. The hub gives a message
to its receiver, so what a poll finds for a match it provides is an offer; the
branch of `processPendingHubMatches` for answers (`index.ts:667`) is not reached.

**HubRegistration / ServiceLifecycle.** Two files outlive the process; the hub
keeps one agent per client id. Each hub call succeeds, fails, or takes effect and
loses its response. `hubStartupPromise` and `hubShutdownPromise` are memoised in
the code, so start-up and shutdown run at most once in a process, whoever asks
first; both may be under way at once. The host awaits `start()` and `stop()` and
fires the hooks at any time. The process may end anywhere and come back with
another configuration. There is one hub, whose URL does not change, and its keys
are active ed25519 keys, so the comparisons of `hubUrl`, `signingAlgorithm` and
`signingKeyStatus` always agree. Without peers `start()` sets up no health checks;
`Listen` leaves that open.

**TaskStore / TaskCleanup.** `save()` is stepped at each file operation. The
temporary file is named after the process and the millisecond, so two saves of one
task in one millisecond share it (`collided`). The SDK stamps a version when it
saves it; a crash or a failed write or rename leaves temporary files behind. The
cleanup lists, loads (a file that cannot be read is passed over, `loadFails`),
decides and deletes in separate steps; one that starts while another is under
way is turned away by `ACTIVE_CLEANUPS`.

**Outbox / Inbox / Delivery.** The relay's pass is stepped at each `sendFn`; a flush
that starts while another is under way is refused by `isFlushing`, and `Passes`
numbers the ones that could overlap. Every attempt is signed anew. A request in
`network` may arrive any number of times, at any later time, or never. Of the
receiver the repository has the parts: the size of the body (`TooLarge`), signature
times (`checkTimestamp`), nonces (`Fresh`, `add`), envelopes (`validateEnvelope`)
and stored responses (`check`, `store`). The handler that calls them,
`InboundHandlers.onMessage`, is the library's user and not in `src/`. One such
handler is assumed (`Refuse`, `Accept`, `Work`): the order of its checks, its status
codes and its storing of the response after the work are assumptions, and so is
`Delivery`'s wiring of the relay to the client. Of the properties only
`AcceptedOnce` depends on the handler, and only on its checking the timestamp and
adding the nonce before it takes a request in; the others are about the sender. The
answers 400, 404 and 405 of `transport.ts` do not occur for the requests
`OutboundClient` makes. The 413 may get lost with its connection, like every answer.

**ConnectionState / ConnectionTools.** A record is one synchronous load,
change and save, so that calls interleave around it and not within it; the read
may fail, which counts as an empty file, and so may the write. The loop of
`uniqueNewest` and the filter of `upsertNewest` are both `Keep`, the elements at
some positions in their order. The hub keeps requests, offers and sessions by
number, carries a request out some time before the response arrives, and another
gateway acts there too. A response is lost on the way or its record not saved
(`lost`), and a process that ends loses the responses it awaited. `recorded` keeps
the responses that got to the file since it was last emptied, in order, and `wiped`
the ids recorded before a read of it failed.

**HubDiscovery.** The checks of an official call are names in a sequence
(`Checks`), and a call fails the first of them that applies, as in the code. The
hub may change an agent's standing between the answer that names the agent and
the request sent to it. The history is enabled (`history.ts:135`), and a process that
ends in the middle of a line is not modelled for it, as it is for the shared context.

## Runs

| Run | Instance | Checks | Result |
|---|---|---|---|
| `queue_safety` | 4 requests, 2 slots, 1 place | types, slots exact, no idle slot beside a queue, metrics agree, settled bus finished, refinement of `TaskService` | pass |
| `queue_live` | 3 requests, slots configured 0 (clamped to 1), 2 places | first come first served, every request settles | pass |
| `queue_shared_task` | two requests of one task | every request settles | violated |
| `breaker` | 2 sends, 1 check, 1 retry, 2 transports, threshold 2 | circuit follows failures, trial slot, owner of a half-open circuit, one trial per phase, recovery | pass |
| `context` | 3 calls, 2 failures | writers saw the room open, artifacts follow messages, acknowledged is stored, every call ends | pass |
| `executor` | 2 tasks, cache of 1 | timers match waits, connected is closed, nothing after the result, every run ends | pass |
| `handshake` | 2 matches, 2 polls, 1 failed hub call | offer taken in once, ready means connected, every match request ends | pass |
| `lifecycle` | 3 calls of the service, 4 configurations, 1 restart, 2 failures, 1 lost file or removed agent | stop releases every server and timer, the key the hub knows is on disk, a clean start-up ends registered and online, every call ends | pass |
| `task_store` | 1 task, 2 savers, 2 cleanups, 1 failure, 1 crash | the file is the last acknowledged version, only expired tasks are deleted, what expired is removed | pass |
| `delivery` | 2 messages with one key, 2 attempts each, 1 fault | accepted once, retries wait for their backoff, attempts are counted (none lost, none twice at a time), every entry settles | pass |
| `connections` | 3 calls, 2 records of a kind, 1 fault | the newest are kept, each as the response that arrived last; what was made at the hub is on file | pass |
| `discovery` | 2 calls, 2 agents, 2 faults | the history tells each answer once, posted is acceptable | pass |

Every specification has a type invariant, `TypeOK`. The queue's is checked in its run;
those of the queue, the breaker, the handshake, the lifecycle, the connection
tools, the task store and the shared context are proved; the others can be added
to their runs, where they hold.

Properties that hold only up to a failure say so: `ArtifactsFollowMessages` is
stated while no write has failed, and `AcknowledgedIsStored` allows one lost call
per failure, because a torn line swallows the line written after it. `MadeIsOnFile`
names the three ways in which an id made at the hub may be missing from the state
file: pushed out by `MAX_RECORDS` later ones, its own response lost or not saved, or
a failed read of the file, which wipes it. `MetricsAgree` bounds the high-water
marks from both sides, by the gauges and by the limits. `BackoffIsKept` compares the
time of a retry with the time at which its last failure was noted (`failedAt`), not
with the time the outbox computed.

**Bounds.** Slots and places are both reached and exceeded (a rejection needs more
requests than slots and places together); the threshold of 2 tells a counter from a
flag; two sends and a check are enough for a late result to meet each phase of the
circuit; a room, its creation and two concurrent writers take three calls; two polls
are the least that overlap; two matches are the least that share a peer entry.
`MaxFailures` bounds failed calls, `MaxTransports` the length of a card,
`CacheLimit` stands for `TASK_CONTEXT_CACHE_LIMIT`. In the lifecycle, three calls
are a start, a stop and a start again, a single retry tells the last attempt from
the others, and the four configurations differ in each field the code looks at. In
the task store the clock runs one unit past the lifetime (`Ttl` 3, `MaxTime` 4), so
that a version saved at 0 expires and one saved later does not; two savers are the
least that collide. `Ttl` is three times `Linger`, the least `TtlAssumption` allows.
In the delivery `skew` is 0 and `nonceTtl` 1, the smallest pair with `nonceTtl > 2 *
skew`, under which a nonce must outlive every time its request is acceptable;
`maxDelayMs` 2 lets the backoff depend on the jitter, and three units of time hold
two attempts with a backoff between; the clocks agree (`drift` 0), two messages
under one key differ in payload, and one of them may exceed the limits of payload
and body. `MaxRecords` 2 against `MaxIds` 3 makes the state file drop a record. Two
calls of the discovery tools are the least that share the history file.

`CHECK_DEADLOCK FALSE` is set where the workload is finite and the system comes
to rest after it; the instances of the breaker, the handshake, the connection
tools and the discovery are checked for deadlock.

**Fairness.** Only what the code guarantees. Queue: a run ends, because the
delegate's gateway requests and its fallback have timeouts, and the drain loop is
synchronous. Sends: nothing, because neither the card, the single transport nor
the hops of a fallback are given a deadline or a signal (`client.ts:226`, 339-340,
373-375, 387), and nobody need send again; health checks are made at every interval
and end by their timeout (`client.ts:98-101`). Store: local
reads and appends end. Executor: armed timers fire and the wake request has an
abort signal; nothing is assumed of the gateway. Handshake: hub calls end and the
requester's clock runs; nothing is assumed of the provider. Lifecycle: hub calls
end (the code sets no deadline; Node's `fetch` has one by default, which the
handshake relies on too) and `listen` and `close` call back;
nothing is assumed of the host. Task store: file operations end, the interval
fires, time passes. Delivery: the relay is started, its interval fires, a call
of `sendFn` times out, time passes; nothing is assumed of the network or the
receiver.

## Divergences

Where the code and its own comments, documents or tests disagree. The first is a
run; for the others the module states the documented property, and the instance
named here violates it.

* `EveryRequestSettles` (run `queue_shared_task`): starting a queued request drops
  another queued request of the same task, whose promise is never settled
  (`queueing-executor.ts:191`; the comment at 245-246 says it must not hang).
* `DeniedNotRetried` in `OutboundSend`: with several transports an authentication
  or protocol error becomes a result of status 500 and is retried
  (`client.ts:295` against `peer-retry.ts:41-42`). `Spec` with one send, no
  checks, `maxRetries` 1, two transports, threshold 2, cooldown 1.
* `HalfOpenEnds` in `OutboundSend`: with `maxRetries: 0` an error of the only
  transport is thrown past the breaker, and a half-open circuit stays half-open
  although every send ends (`client.ts:148` against `peer-health.ts:134`). `LiveSpec`
  with two sends, no checks, `maxRetries` 0, two transports, threshold 1, cooldown 1;
  with `maxRetries` 1 it holds. Its hypothesis that sends end is needed: a trial that
  hangs keeps the circuit half-open, and with health checks disabled nothing else
  closes it. With health checks the circuit closes all the same
  (`RecoversAfterOutage`).
* `CanceledIsTerminal` in `AgentExecutor`: canceling a task does not stop its run,
  which goes on to publish "working" and then its result over "canceled", on
  the finished bus (`executor.ts:912`, 938-996, against `executor.ts:1000`,
  "Cancellation is a terminal state", and `task-cleanup.ts:6-7`). The instance of
  `executor`. `NothingAfterResult` is about what comes after the result only.
* `ArchivedIsReadOnly` in `SharedContext`: a message posted while its room is
  archived reopens the room (`shared-context.ts:211` against `CONFIG.md:604`).
  The instance of `context`.
* `NoUnhandledRejection` in `AgentExecutor`: the challenge timer may reject a
  promise that has no handler yet (`executor.ts:656`). One task.
* `OfflineAfterStop` in `ServiceLifecycle`: a `stop()` that meets a start-up still
  waiting for the hub sets the presence first, the start-up after it
  (`index.ts:927` against `README.md:138`, "`gateway_stop`: marks Hub presence
  offline during Gateway shutdown"). The instance of `lifecycle`.

Seen while modelling, and taken into the models as they are: two saves of one task
in the same millisecond share a temporary file and the second rename fails; the
history's `dirEnsured` is set before the directory exists, so that one failed
`mkdir` stops the history until the process restarts; a `start()` after a `stop()`
in one process finds the hub start-up done and leaves the agent offline; a failed
read of the connection state wipes it with the next record; an official agent that
loses its standing during a call is still posted to; the A2A plan of a session
always describes its responder, also to the responder itself
(`connection-session.ts:95`); two fetches of a session whose responses arrive in the
other order leave the older status in the state file. Outside the models:
`a2a-send.mjs:332` does not count "rejected" as terminal, the state
`queueing-executor.ts:132` publishes for a full queue.

## Proofs

TLAPS proves what follows for every value of the constants that satisfies the
named assumptions of the modules: any number of requests, calls, tasks, matches,
polls, agents and entries, and any bound on failures. For each specification there
is one inductive invariant, one lemma for each action that keeps it, and theorems that
read the checked properties off it. The invariants were model-checked on the
instances of the runs before they were proved. Every invariant and every action
property that a passing run checks is proved; what is left to TLC alone is liveness.

**`QueueingExecutorProofs`**: `TypeCorrect`, `SlotsAlwaysExact` (`SlotsExact`),
`QueueWaitsOnlyWhenFull` (`NoIdleSlotBesideQueue`), `OldestStartsFirst`
(`FirstComeFirstServed`), `SettledBusIsFinished` (`SettledBusFinished`),
`MetricsAlwaysAgree` (`MetricsAgree`) and `Refinement` (`ImplementsTaskService`),
from finitely many requests, integer limits and any `TaskOf`, sharing of task ids
included. `SlotsExact` alone is not inductive: a queued entry must not be running
already, or starting it would not add to `running`, and a running or queued
request must have an open promise, or `execute` could admit it again. `SlotInv`
adds these, with the queue's entries being distinct (`Held`). The refinement is
proved step by step from it: each action maps to a step of `TaskService` or leaves
`stage` unchanged. `MetricsAlwaysAgree` has the hypothesis `OwnTasks`, that no two
requests carry one task id: otherwise the start of one takes the other out of the
queue, and the count of requests asked no longer adds up (Divergences).

**`MessageProofs`, the sends**: `TypeCorrect`, `BreakerFollows`, `TrialSlot`, `OneTrial`
(an action property) and, with `maxRetries > 0`, `HalfOpenOwned`. The breaker's
invariant `BreakerInv` ties circuit, counter and trial slot together, and is
shown to be kept by each method once; sends and checks inherit it.
`HalfOpenOwned` needs `maxRetries > 0`: without retries the single-transport
path throws past the breaker (`HalfOpenEnds` above). `RetriesLeft`
records that a send in backoff has a retry left, which its type needs.

**`MessageProofs`, the executor**: `TimersAreOwned` (`TimersMatchWaits`),
`SocketsAreReleased` (`ConnectedIsClosed`) and `ResultHasLastWord`
(`NothingAfterResult`, an action property). `ConnectionOK` relates the socket, the
challenge, the timers and the pending requests at each point where a dispatch waits;
every method of `GatewayRpc` is shown to keep it. A heartbeat runs only while its
task is being dispatched, which is what keeps it from speaking after the result.

**`SharedContextProofs`**: `ContextCorrect`, `ContentSawOpenRoom`
(`WritesSawOpenRoom`), `ArtifactsHaveMessages` (`ArtifactsFollowMessages`) and
`LossesAreBounded` (`AcknowledgedIsStored`). What the file says must already hold
of the lines that are still queued: `WritesAreQueued` says of every queued write
that its call saw the room open, and that all but the running one have none of
their lines in the file; `MessagesComeFirst` that the message an artifact names
is in the file or before it in the same write. `LossesAreCounted` is the
potential argument of `AcknowledgedIsStored`: while the file ends in part of a
line, or the running write has lost one (`HeadIsWhole` fails), one failure has not
yet been charged with a call. The append-only file enters through
`ReplayIsStable`: what the first n lines say never changes.

**`TaskCleanupProofs`**: `CleanupCorrect`, `FilesAreAcknowledged`
(`FileIsLastSaved`) and `OnlyExpiredIsDeleted` (`DeletesOnlyExpired`). A temporary
file belongs to one call unless calls collided (`TmpIsOwned`); one cleanup runs at
a time, and what it is about to delete expired when it began (`OneRun`);
no save of a task is left by the time the task expires (`SavesAreTimely`).

**`TwoGatewaysProofs`, the delivery**: `RepeatsAreRefused` (`AcceptedOnce`),
`RetriesWait` (`BackoffIsKept`, an action property) and `AttemptsAreCounted`
(`AttemptsCounted`). `NoncesAreKept` is the argument for replays: a nonce that was
accepted is kept until the timestamp of its request is too old, which needs
`nonceTtl > 2 * skew`. `BackoffInv` says of an entry that waits that the outbox will
not take it before its backoff is over, and of one in the list of a pass that it is
over. `OnePass` and `PassesAreDue` are what `isFlushing` is for: an entry in the
list of a pass is in no other list and still due.

**`TwoGatewaysProofs`, the handshake**: `HandshakeTypes`, `OffersTakenOnce`
(`OfferTakenInOnce`) and `ReadyIsConnected` (`ReadyMeansConnected`). A token of the
provider belongs to an offer that the hub has handed out as consumed
(`TokensAreIssued`), so a second poll that still holds the message cannot consume
it; what requests and polls know while they wait (`RequestsKnow`, `PollsKnow`)
carries this to the readiness.

**`HubDiscoveryProofs`**: `PostsAreAcceptable` (`PostedIsAcceptable`) and
`HistoryIsFaithful` (`HistoryTellsAnswers`). `CallKnows` keeps, over each wait, what
a call was told and which agents were official since it began; the entries of the
history are about different calls, all of them ended (`HistoryIsTrue`).

**`ServiceLifecycleProofs`**: `StopReleases` (`StopReleasesEverything`),
`HubKeySaved` (`HubKeyIsOnDisk`), `CleanStartups` (`CleanStartupBinds`, an action
property) and `LifecycleTypes`. Two invariants, because the service and the
registration touch each other only where `start()` joins the start-up.
`ServiceInv` says which handles exist at each await of `start()` and `stop()`
(`ServersAreHeld`). `RegistrationInv` says what the start-up knows at each of its
awaits (`StartupKnows`), that the identity it works with is the one on disk and has
a signing key (`KeysAreSaved`), and what a start-up without a failure has reached
by then (`StartupBinds`): from the first answer of the hub on the registration in
memory and on disk, the agent at the hub and the identity are about one another.
`CleanStartups` reads its last step off `StartupBinds`.

**`ConnectionToolsProofs`**: `KeepsNewest` (`NewestAreKept`), `ForgetsNothing`
(`MadeIsOnFile`) and `ToolTypes`. The first
part is about lists: recording an id moves it and its record to the front
(`UniqueMovesUp`, `UpsertMovesUp`), and keeps `KeptInOrder`, that the ids are in the
order in which they were recorded last and that an id which is missing was recorded
before all of a full list, and `ListsAgree`, that the record beside an id is the
last one of it. `NewestAreKept` counts from there: the i-th id has i - 1
others after it, a missing one at least `MaxRecords`. The second part follows an id
from the hub to the file: `MadeIsKnown` says that what the tools made there is in a
response that is on its way or was lost, was recorded, or was wiped; every step of
the hub and of the other calls leaves that alone (`MadeStaysKnown`), and a record
moves the id from the response to the file in one step (`InvRecord`).
`MadeIsOnFile` joins both parts: what was recorded and is not in the file was pushed
out.

What the proofs changed in the models. `DeletesOnlyExpired` was false for tasks
whose saves had collided, beyond the instance that was checked: with three saves the
file may be older than what was acknowledged, and a pending rename replace it
between the cleanup's look and its unlink. It now speaks, as `FileIsLastSaved` does,
of tasks without a collision. The proof also shows how long a lifetime must be for
the cleanup not to meet a save: `Ttl >= 3 * Linger`, where `Linger` bounds each of
the three steps of a last save (its begin after the task finished, `mkdir`, the
write and rename). The code's lifetime is hours and these take milliseconds.
`EntriesAssumption`, `EnvelopesAssumption`, `FilesAssumption` and `Agents # {}` were
implicit before: the model values for "no entry", "no file" and "no agent" are none
of the others, and envelopes have the fields the code reads. `NoneAssumption` of
`HubRegistration` likewise says that null is none of the objects that may be there
in its place.

Only model-checked:

* Everything about liveness, outside this prover's reach with `ENABLED`:
  `EveryRequestSettles`, `RecoversAfterOutage`, `EveryCallEnds`, `EveryRunEnds`,
  `EveryMatchEnds`, `ExpiredIsRemoved`, `EveryEntrySettles`.
* Two conjuncts of types: the cache of task contexts in `AgentExecutor` (what
  `SelectSeq` returns needs induction over its recursive definition) and the times
  of retries in `Outbox` (powers of two, likewise).

## Not modelled

* Routing rules and `internal/routing.ts`: a pure match of one message or a choice
  from one list, without state. `internal/metrics.ts` and the counters of the
  telemetry the queue does not drive: sums nothing decides on.
* The audit log: the same append as the request history, which is modelled.
* `file-security.ts`: tests on strings and addresses; their outcome is a refusal
  where a caller meets it.
* The agent card and skill catalogue, configuration parsing, registration of tools
  and routes, the command line sender: formatting, wiring, or outside the gateway.
* The profile tool and the plaza search: one hub call without state of its own.
* In the handshake: expiry of temporary tokens and restarts of either gateway.
* Everywhere: contents of frames and messages, encryption and signatures beyond
  whether they verify, URL and address handling, wording, streaming of partial
  results (the SDK's).

## Plan

1. Pure algorithms against reference definitions: the order of transports and the
   routing rules.
2. Token expiry and restarts in `HubHandshake`.
