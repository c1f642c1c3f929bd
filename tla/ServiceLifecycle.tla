-------------------------- MODULE ServiceLifecycle --------------------------
(***************************************************************************)
(* The life of the plugin's background service and of its hooks            *)
(* (src/index.ts): start() waits for the hub start-up, starts the health   *)
(* checks, the HTTP and the gRPC server, the task cleanup and the polling  *)
(* of the hub; stop() undoes it. The hooks gateway_start and gateway_stop  *)
(* share the hub start-up and shutdown with them: each runs at most once   *)
(* in a process.                                                           *)
(*                                                                         *)
(* The host is external: it waits for a call of the service before it      *)
(* makes the next one, fires the hooks whenever it likes, and the process  *)
(* may end at any point and be started again, on the same files.           *)
(***************************************************************************)
EXTENDS HubRegistration

CONSTANTS MaxCalls,       \* bound on the calls of start() and stop() in a process
          MaxRestarts,    \* bound on restarts of the process
          MaxAccidents    \* bound on identity files lost and agents removed

ASSUME LifecycleAssumption == {MaxCalls, MaxRestarts, MaxAccidents} \subseteq Nat

VARIABLES
    shutdown,       \* hubShutdownPromise: "none", "offline" while it runs, "done"
    call,           \* what the last call of the service awaits, or how it ended
    calls,          \* calls made so far
    server,         \* server: null, created, or listening
    grpcServer,     \* grpcServer is set
    held,           \* the timers the code holds a handle of
    live,           \* how many intervals of each kind run
    restarts,
    lost,           \* the identity file was lost at some time
    accidents

Kinds == {"health", "cleanup", "poll"}

serviceVars == <<shutdown, call, calls, server, grpcServer, held, live>>
worldVars   == <<restarts, lost, accidents>>
vars == <<registrationVars, serviceVars, worldVars>>

Settled == {"idle", "started", "failed", "stopped"}
Timers(n) == [k \in Kinds |-> n]

Init ==
    /\ RegistrationInit
    /\ shutdown = "none"
    /\ call = "idle"
    /\ calls = 0
    /\ server = "null"
    /\ grpcServer = FALSE
    /\ held = {}
    /\ live = Timers(0)
    /\ restarts = 0
    /\ lost = FALSE
    /\ accidents = 0

HubOff == config.hub = "off"

-----------------------------------------------------------------------------
(* start() *)

Calls == call \in Settled /\ calls < MaxCalls /\ calls' = calls + 1

(* start() on a service that has a server returns at once. *)
StartAgain ==
    /\ Calls
    /\ server # "null"
    /\ call' = "started"
    /\ UNCHANGED <<registrationVars, shutdown, server, grpcServer, held, live, worldVars>>

(* start() joins the hub start-up, and begins it when nobody has. *)
Start ==
    /\ Calls
    /\ server = "null"
    /\ call' = "hub"
    /\ IF HubOff \/ startup # "none" THEN UNCHANGED registrationVars ELSE startHubLifecycle
    /\ UNCHANGED <<shutdown, server, grpcServer, held, live, worldVars>>

setIntervals(kinds) ==
    /\ held' = held \cup kinds
    /\ live' = [k \in Kinds |-> IF k \in kinds THEN live[k] + 1 ELSE live[k]]

(* The health checks start, if there are peers to check, and the HTTP      *)
(* server begins to listen.                                                *)
Listen ==
    /\ call = "hub"
    /\ HubOff \/ startup = "done"
    /\ \E kinds \in {{}, {"health"}} : setIntervals(kinds)
    /\ server' = "created"
    /\ call' = "listen"
    /\ UNCHANGED <<registrationVars, shutdown, calls, grpcServer, worldVars>>

(* It listens, or start() rejects. *)
Listening ==
    /\ call = "listen"
    /\ \/ server' = "listening" /\ call' = "grpc"
       \/ call' = "failed" /\ UNCHANGED server
    /\ UNCHANGED <<registrationVars, shutdown, calls, grpcServer, held, live, worldVars>>

(* The gRPC server is optional; the cleanup and the polling start. *)
ServeGrpc ==
    /\ call = "grpc"
    /\ grpcServer' \in BOOLEAN
    /\ setIntervals({"cleanup"} \cup IF HubOff THEN {} ELSE {"poll"})
    /\ call' = "started"
    /\ UNCHANGED <<registrationVars, shutdown, calls, server, worldVars>>

-----------------------------------------------------------------------------
(* stop() *)

clearIntervals(kinds) ==
    /\ held' = held \ kinds
    /\ live' = [k \in Kinds |-> IF k \in held \cap kinds THEN live[k] - 1 ELSE live[k]]

stopHubLifecycle == shutdown' = IF HubOff \/ shutdown # "none" THEN shutdown ELSE "offline"

Stop ==
    /\ Calls
    /\ clearIntervals({"health"})
    /\ stopHubLifecycle
    /\ call' = "stopping"
    /\ UNCHANGED <<registrationVars, server, grpcServer, worldVars>>

(* Mutant: the server is closed only when it listens. *)
ReleaseListening ==
    /\ call = "stopping"
    /\ HubOff \/ shutdown = "done"
    /\ clearIntervals({"cleanup", "poll"})
    /\ grpcServer' = FALSE
    /\ \/ server = "listening" /\ server' = "null" /\ call' = "closing"
       \/ server # "listening" /\ call' = "stopped" /\ UNCHANGED server
    /\ UNCHANGED <<registrationVars, shutdown, calls, worldVars>>

(* Timers and servers go once the hub knows, or could not be told. *)
Release ==
    /\ call = "stopping"
    /\ HubOff \/ shutdown = "done"
    /\ clearIntervals({"cleanup", "poll"})
    /\ grpcServer' = FALSE
    /\ \/ server = "null" /\ call' = "stopped" /\ UNCHANGED server
       \/ server # "null" /\ server' = "null" /\ call' = "closing"
    /\ UNCHANGED <<registrationVars, shutdown, calls, worldVars>>

(* The last connection ends, or close() reports that nothing listened. *)
Closed ==
    /\ call = "closing"
    /\ call' = "stopped"
    /\ UNCHANGED <<registrationVars, shutdown, calls, server, grpcServer, held, live, worldVars>>

(* The shutdown's updatePresence("offline"); nothing without a registration. *)
goOffline ==
    /\ shutdown = "offline"
    /\ shutdown' = "done"
    /\ \/ registration = None /\ UNCHANGED <<agents, clean, failures>>
       \/ registration # None /\ setPresence(FALSE) /\ UNCHANGED <<clean, failures>>
       \/ registration # None /\ Fails /\ (setPresence(FALSE) \/ UNCHANGED agents)
    /\ UNCHANGED <<users, nextAgent, fileVars, config, startup, own, attempt, agentId,
                   nextKey, call, calls, server, grpcServer, held, live, worldVars>>

-----------------------------------------------------------------------------
(* The hooks *)

gateway_start ==
    /\ startHubLifecycle
    /\ UNCHANGED <<serviceVars, worldVars>>

gateway_stop ==
    /\ ~HubOff
    /\ shutdown = "none"
    /\ stopHubLifecycle
    /\ UNCHANGED <<registrationVars, call, calls, server, grpcServer, held, live, worldVars>>

HubStep == HubStartupStep /\ UNCHANGED <<serviceVars, worldVars>>

-----------------------------------------------------------------------------
(* The world *)

(* The process ends and another one starts, perhaps configured otherwise. *)
Restart ==
    /\ restarts < MaxRestarts
    /\ restarts' = restarts + 1
    /\ config' \in Configs
    /\ startup' = "none"
    /\ own' = None
    /\ attempt' = 0
    /\ agentId' = 0
    /\ clean' = TRUE
    /\ shutdown' = "none"
    /\ call' = "idle"
    /\ calls' = 0
    /\ server' = "null"
    /\ grpcServer' = FALSE
    /\ held' = {}
    /\ live' = Timers(0)
    /\ UNCHANGED <<hubVars, fileVars, nextKey, failures, lost, accidents>>

Accident ==
    /\ accidents < MaxAccidents
    /\ accidents' = accidents + 1
    /\ clean' = FALSE

(* The identity file is lost: a new installation with the old settings. *)
LoseIdentity ==
    /\ Accident
    /\ identity # None
    /\ identity' = None
    /\ lost' = TRUE
    /\ UNCHANGED <<registration, hubVars, config, startup, own, attempt, agentId, nextKey,
                   failures, serviceVars, restarts>>

(* The hub removes an agent; its client id is free again. *)
RemoveAgent(c) ==
    /\ Accident
    /\ agents[c] # None
    /\ agents' = [agents EXCEPT ![c] = None]
    /\ UNCHANGED <<fileVars, users, nextAgent, config, startup, own, attempt, agentId,
                   nextKey, failures, serviceVars, restarts, lost>>

ServiceStep == StartAgain \/ Start \/ Listen \/ Listening \/ ServeGrpc
               \/ Stop \/ Release \/ Closed

Next ==
    \/ ServiceStep
    \/ HubStep
    \/ goOffline
    \/ gateway_start
    \/ gateway_stop
    \/ Restart
    \/ LoseIdentity
    \/ \E c \in Clients : RemoveAgent(c)

(* A call of the hub ends (fetch has a deadline), a server listens or      *)
(* reports an error, and promises that are settled are followed up.        *)
Fairness ==
    /\ WF_vars(HubStep)
    /\ WF_vars(goOffline)
    /\ WF_vars(Listen)
    /\ WF_vars(Listening)
    /\ WF_vars(ServeGrpc)
    /\ WF_vars(Release)
    /\ WF_vars(Closed)

Spec == Init /\ [][Next]_vars /\ Fairness

-----------------------------------------------------------------------------
(* Properties *)

(* Every variable has its type. *)
TypeOK ==
    /\ identity \in Identities \cup {None}
    /\ own \in Identities \cup {None}
    /\ registration \in [agent: 1..(nextAgent - 1), client: Clients, enc: Keys,
                         signing: Keys, descriptor: STRING \X Clients \X Keys \X Keys]
                            \cup {None}
    /\ \A c \in Clients : agents[c] \in [id: 1..(nextAgent - 1), signing: Keys,
                                         online: BOOLEAN, profile: BOOLEAN] \cup {None}
    /\ users \subseteq 1..(nextAgent - 1)
    /\ config \in Configs
    /\ startup \in {"none", "lookup", "register", "user", "conflict", "presence",
                    "challenge", "verify", "profile", "done"}
    /\ attempt \in 0..Retries
    /\ agentId \in 0..(nextAgent - 1)
    /\ shutdown \in {"none", "offline", "done"}
    /\ call \in Settled \cup {"hub", "listen", "grpc", "stopping", "closing"}
    /\ server \in {"null", "created", "listening"}
    /\ grpcServer \in BOOLEAN
    /\ held \subseteq Kinds
    /\ live \in [Kinds -> Nat]
    /\ clean \in BOOLEAN /\ lost \in BOOLEAN
    /\ calls \in 0..MaxCalls /\ restarts \in 0..MaxRestarts
    /\ accidents \in 0..MaxAccidents /\ failures \in 0..MaxFailures

(* Whatever start() came to, a listen error and a start() on top of it     *)
(* included, stop() leaves no server and no interval behind; and at no     *)
(* time does an interval run that the code has no handle of.               *)
StopReleasesEverything ==
    /\ \A k \in Kinds : live[k] = IF k \in held THEN 1 ELSE 0
    /\ call = "stopped" => server = "null" /\ ~grpcServer /\ held = {}

(* The identity is on disk before the hub learns of it: wherever the       *)
(* process ends, every agent the gateway has at the hub can be signed for  *)
(* with the key on disk, unless that file itself was lost.                 *)
HubKeyIsOnDisk ==
    \A c \in Clients :
        agents[c] # None /\ ~lost => identity # None /\ agents[c].signing = identity.signing

(* The state a start-up is for: the registration on disk names the agent   *)
(* the hub has for the identity's client id, and the hub shows it online.  *)
Bound ==
    /\ registration # None
    /\ registration.client = identity.client
    /\ registration.signing = identity.signing
    /\ registration.descriptor = buildHubConnectionDescriptor(identity)
    /\ agents[identity.client] # None
    /\ agents[identity.client].id = registration.agent
    /\ shutdown = "none" => agents[identity.client].online

(* A start-up that meets no failure ends bound, and with its profile       *)
(* published if its key is the one at the hub, from whatever the failures  *)
(* and crashes before it left: lost responses, conflicts, agents removed,  *)
(* a changed client id or descriptor, a registration that was not saved.   *)
CleanStartupBinds ==
    [][startup # "done" /\ startup' = "done" /\ clean' /\ config.hub = "on"
       => /\ Bound'
          /\ config.autoSync /\ ~lost' => agents'[identity'.client].profile]_vars

(* Every start() and stop() ends, and so does the hub start-up, however    *)
(* many of the calls of the hub fail.                                      *)
EveryCallEnds ==
    /\ call \notin Settled ~> call \in Settled
    /\ startup # "none" ~> startup \in {"none", "done"}

(* README.md, line 138: "`gateway_stop`: marks Hub presence offline during *)
(* Gateway shutdown". Once the shutdown is over, and no call failed, the   *)
(* hub does not show the agent online. Not so in the code: README,         *)
(* Divergences.                                                            *)
OfflineAfterStop ==
    [][shutdown = "done" /\ clean /\ clean' => \A c \in Clients :
          agents'[c] # None /\ agents'[c].online => agents[c] # None /\ agents[c].online]_vars
=============================================================================
