----------------------- MODULE ServiceLifecycleProofs -----------------------
(***************************************************************************)
(* What a gateway and the hub guarantee together: the start-up and the     *)
(* shutdown of the service with its registration (ServiceLifecycle).       *)
(***************************************************************************)
EXTENDS ServiceLifecycle, TLAPS

(* The types of what the start-up keeps on disk, at the hub and in memory. *)
AgentRecords == [id: 1..(nextAgent - 1), signing: Keys, online: BOOLEAN, profile: BOOLEAN]
Registrations == [agent: 1..(nextAgent - 1), client: Clients, enc: Keys, signing: Keys,
                  descriptor: STRING \X Clients \X Keys \X Keys]
Stages == {"none", "lookup", "register", "user", "conflict", "presence",
           "challenge", "verify", "profile", "done"}

RegistrationTypes ==
    /\ nextKey \in Nat /\ nextKey >= 2 /\ nextAgent \in Nat \ {0}
    /\ identity \in Identities \cup {None}
    /\ own \in Identities \cup {None}
    /\ registration \in Registrations \cup {None}
    /\ agents \in [Clients -> AgentRecords \cup {None}]
    /\ users \subseteq 1..(nextAgent - 1)
    /\ config \in Configs
    /\ startup \in Stages
    /\ attempt \in 0..Retries
    /\ agentId \in 0..(nextAgent - 1)
    /\ clean \in BOOLEAN
    /\ failures \in 0..MaxFailures

ServiceTypes ==
    /\ shutdown \in {"none", "offline", "done"}
    /\ call \in Settled \cup {"hub", "listen", "grpc", "stopping", "closing"}
    /\ server \in {"null", "created", "listening"}
    /\ grpcServer \in BOOLEAN
    /\ held \subseteq Kinds
    /\ live \in [Kinds -> Nat]
    /\ calls \in 0..MaxCalls

(* The start-up works with an identity from its first step on, knows the   *)
(* agent when it registers the user, and has a registration to confirm.    *)
StartupKnows ==
    /\ startup = "none" => own = None
    /\ startup \in {"lookup", "register", "user", "conflict", "verify", "profile"} => own # None
    /\ startup = "user" => agentId # 0
    /\ startup \in {"lookup", "verify", "profile"} => registration # None

(* The identity the start-up works with is the one on disk, unless that    *)
(* was lost, and has a signing key, as has what the hub learned from it.   *)
KeysAreSaved ==
    /\ own # None => own.signing # 0 /\ (~lost => identity = own)
    /\ \A c \in Clients : agents[c] # None => agents[c].signing # 0

(* The registration on disk is that of own, and names its agent.           *)
Registered ==
    /\ sameRegistration(own)
    /\ agents[own.client] # None
    /\ agents[own.client].id = registration.agent

(* What a start-up that met no failure has reached at each of its stages.  *)
StartupBinds ==
    clean /\ config.hub = "on" =>
        /\ startup # "none" => own # None /\ identity = own
        /\ startup = "lookup" => sameRegistration(own)
        /\ startup = "user" => agents[own.client] # None /\ agents[own.client].id = agentId
        /\ startup = "conflict" => agents[own.client] # None
        /\ startup \in {"presence", "challenge", "verify", "profile", "done"} => Registered
        /\ startup \in {"challenge", "verify", "profile", "done"} /\ shutdown = "none"
              => agents[own.client].online

(* The inductive invariant of the hub start-up.                            *)
RegistrationInv ==
    /\ RegistrationTypes
    /\ lost \in BOOLEAN
    /\ StartupKnows
    /\ KeysAreSaved
    /\ StartupBinds
    /\ HubKeyIsOnDisk

(* What the service holds at each of its awaits: nothing without a server, *)
(* and the health checks alone while it starts.                            *)
ServersAreHeld ==
    /\ call \in {"idle", "hub", "closing", "stopped"} => server = "null"
    /\ server = "null" => held = {}
    /\ server = "null" /\ call # "stopping" => ~grpcServer
    /\ call = "stopping" => "health" \notin held
    /\ call \in {"listen", "grpc"} => held \subseteq {"health"} /\ server # "null"

(* The inductive invariant of the service.                                 *)
ServiceInv ==
    /\ ServiceTypes
    /\ ServersAreHeld
    /\ StopReleasesEverything

-----------------------------------------------------------------------------
(* The service *)

LEMMA NoTimers ==
    /\ MaxCalls \in Nat /\ 0 \in 0..MaxCalls
    /\ Timers(0) \in [Kinds -> Nat]
    /\ \A k \in Kinds : Timers(0)[k] = 0
<1>1. MaxCalls \in Nat
  BY LifecycleAssumption
<1> QED
  BY <1>1 DEF Timers

LEMMA ServiceStart == Init => ServiceInv
  BY NoTimers DEF Init, ServiceInv, ServiceTypes, ServersAreHeld, StopReleasesEverything, Settled

(* Intervals that are started are counted once, when none of them ran.     *)
LEMMA StartedIntervals ==
    ASSUME ServiceInv, NEW kinds \in SUBSET Kinds, kinds \cap held = {}, setIntervals(kinds)
    PROVE  /\ held' = held \cup kinds /\ held' \subseteq Kinds
           /\ live' \in [Kinds -> Nat]
           /\ \A k \in Kinds : live'[k] = IF k \in held' THEN 1 ELSE 0
  BY DEF ServiceInv, ServiceTypes, StopReleasesEverything, setIntervals

(* Intervals that are cleared run no more.                                 *)
LEMMA ClearedIntervals ==
    ASSUME ServiceInv, NEW kinds \in SUBSET Kinds, clearIntervals(kinds)
    PROVE  /\ held' = held \ kinds /\ held' \subseteq Kinds
           /\ live' \in [Kinds -> Nat]
           /\ \A k \in Kinds : live'[k] = IF k \in held' THEN 1 ELSE 0
  BY DEF ServiceInv, ServiceTypes, StopReleasesEverything, clearIntervals

LEMMA ServiceSteps ==
    ASSUME ServiceInv, [Next]_vars
    PROVE  ServiceInv'
<1> USE NoTimers DEF ServiceInv
<1>1. CASE StartAgain
  BY <1>1 DEF StartAgain, Calls, ServiceTypes, ServersAreHeld, StopReleasesEverything, Settled
<1>2. CASE Start
  BY <1>2 DEF Start, Calls, ServiceTypes, ServersAreHeld, StopReleasesEverything, Settled
<1>3. CASE Listen
  <2>1. held = {} /\ ~grpcServer
    BY <1>3 DEF Listen, ServersAreHeld
  <2>2. /\ held' \subseteq {"health"}
        /\ held' \subseteq Kinds
        /\ live' \in [Kinds -> Nat]
        /\ \A k \in Kinds : live'[k] = IF k \in held' THEN 1 ELSE 0
    <3>1. PICK kinds \in {{}, {"health"}} : setIntervals(kinds)
      BY <1>3 DEF Listen
    <3> QED
      BY <2>1, <3>1, StartedIntervals DEF Kinds
  <2> QED
    BY <1>3, <2>1, <2>2 DEF Listen, ServiceTypes, ServersAreHeld, StopReleasesEverything, Settled
<1>4. CASE Listening
  BY <1>4 DEF Listening, ServiceTypes, ServersAreHeld, StopReleasesEverything, Settled
<1>5. CASE ServeGrpc
  <2> DEFINE kinds == {"cleanup"} \cup IF HubOff THEN {} ELSE {"poll"}
  <2>1. kinds \in SUBSET Kinds /\ kinds \cap held = {} /\ server # "null"
    BY <1>5 DEF ServeGrpc, ServersAreHeld, Kinds
  <2>2. setIntervals(kinds)
    BY <1>5 DEF ServeGrpc
  <2> HIDE DEF kinds
  <2>3. /\ held' \subseteq Kinds
        /\ live' \in [Kinds -> Nat]
        /\ \A k \in Kinds : live'[k] = IF k \in held' THEN 1 ELSE 0
    BY <2>1, <2>2, StartedIntervals
  <2> QED
    BY <1>5, <2>1, <2>3 DEF ServeGrpc, ServiceTypes, ServersAreHeld, StopReleasesEverything, Settled
<1>6. CASE Stop
  <2>1. /\ held' = held \ {"health"}
        /\ held' \subseteq Kinds
        /\ live' \in [Kinds -> Nat]
        /\ \A k \in Kinds : live'[k] = IF k \in held' THEN 1 ELSE 0
    BY <1>6, ClearedIntervals DEF Stop, Kinds
  <2> QED
    BY <1>6, <2>1 DEF Stop, stopHubLifecycle, Calls, ServiceTypes, ServersAreHeld,
                      StopReleasesEverything, Settled
<1>7. CASE Release
  <2>1. /\ held' = held \ {"cleanup", "poll"}
        /\ held' \subseteq Kinds
        /\ live' \in [Kinds -> Nat]
        /\ \A k \in Kinds : live'[k] = IF k \in held' THEN 1 ELSE 0
    BY <1>7, ClearedIntervals DEF Release, Kinds
  <2>2. held' = {}
    BY <1>7, <2>1 DEF Release, ServiceTypes, ServersAreHeld, Kinds
  <2> QED
    BY <1>7, <2>1, <2>2 DEF Release, ServiceTypes, ServersAreHeld, StopReleasesEverything, Settled
<1>8. CASE Closed
  BY <1>8 DEF Closed, ServiceTypes, ServersAreHeld, StopReleasesEverything, Settled
<1>9. CASE goOffline
  BY <1>9 DEF goOffline, ServiceTypes, ServersAreHeld, StopReleasesEverything
<1>10. CASE gateway_stop
  BY <1>10 DEF gateway_stop, stopHubLifecycle, ServiceTypes, ServersAreHeld, StopReleasesEverything
<1>11. CASE Restart
  BY <1>11, NoTimers DEF Restart, ServiceTypes, ServersAreHeld, StopReleasesEverything, Settled
<1>12. CASE UNCHANGED serviceVars
  BY <1>12 DEF serviceVars, ServiceTypes, ServersAreHeld, StopReleasesEverything
<1>13. HubStep \/ gateway_start \/ LoseIdentity \/ (\E c \in Clients : RemoveAgent(c))
       \/ UNCHANGED vars => UNCHANGED serviceVars
  BY DEF HubStep, gateway_start, LoseIdentity, RemoveAgent, vars, serviceVars
<1> QED
  BY <1>1, <1>2, <1>3, <1>4, <1>5, <1>6, <1>7, <1>8, <1>9, <1>10, <1>11, <1>12, <1>13
  DEF Next, ServiceStep

LEMMA ServiceInvariant == Spec => []ServiceInv
  BY ServiceStart, ServiceSteps, PTL DEF Spec

(* Whatever start() came to, stop() leaves no server and no interval       *)
(* behind, and no interval ever runs that the code has no handle of        *)
(* (start and stop of the service in index.ts), for any number of calls.   *)
THEOREM StopReleases == Spec => []StopReleasesEverything
<1>1. ServiceInv => StopReleasesEverything
  BY DEF ServiceInv
<1> QED
  BY <1>1, ServiceInvariant, PTL

-----------------------------------------------------------------------------
(* The hub start-up *)

(* What is on disk, at the hub or in memory is not null.                   *)
LEMMA RecordsAreNotNull ==
    ASSUME nextKey \in Nat, nextAgent \in Nat
    PROVE  /\ \A i \in Identities : i # None
           /\ \A r \in Registrations : r # None
           /\ \A a \in AgentRecords : a # None
<1>1. Keys \subseteq Nat /\ 1..(nextAgent - 1) \subseteq Nat
  BY DEF Keys
<1>2. Identities \subseteq [client: Clients, enc: Nat, signing: Nat]
  BY <1>1 DEF Identities
<1>3. AgentRecords \subseteq [id: Nat, signing: Nat, online: BOOLEAN, profile: BOOLEAN]
  BY <1>1 DEF AgentRecords
<1>4. Registrations \subseteq [agent: Nat, client: Clients, enc: Nat, signing: Nat,
                               descriptor: STRING \X Clients \X Nat \X Nat]
  BY <1>1 DEF Registrations
<1> QED
  BY <1>2, <1>3, <1>4, NoneAssumption

LEMMA RangesGrow ==
    ASSUME NEW l \in Nat, NEW n \in Nat, NEW m \in Nat, n <= m
    PROVE  l..(n - 1) \subseteq l..(m - 1) /\ 1..(m - 1) \subseteq 0..(m - 1)
  OBVIOUS

(* The stores keep their types as keys and agents are added.               *)
LEMMA StoresGrow ==
    ASSUME nextKey \in Nat, nextAgent \in Nat, nextKey' \in Nat, nextAgent' \in Nat,
           nextKey <= nextKey', nextAgent <= nextAgent'
    PROVE  /\ Keys \subseteq Keys'
           /\ Identities \subseteq Identities'
           /\ Registrations \subseteq Registrations'
           /\ AgentRecords \subseteq AgentRecords'
<1>2. Keys \subseteq Keys'
  BY RangesGrow DEF Keys
<1>3. 1..(nextAgent - 1) \subseteq 1..(nextAgent' - 1)
  BY RangesGrow
<1> QED
  BY <1>2, <1>3 DEF Identities, Registrations, AgentRecords

LEMMA ConfiguredClients ==
    /\ RandomIds \subseteq Clients
    /\ \A c \in Configs : /\ c.hub \in {"off", "presence", "on"}
                          /\ c.client \in Clients \cup {None}
                          /\ c.descriptor \in STRING
                          /\ c.password \in BOOLEAN
                          /\ c.autoSync \in BOOLEAN
  BY ConfigsAssumption DEF Clients

LEMMA RegistrationStart == Init => RegistrationInv
<1> SUFFICES ASSUME Init
             PROVE  RegistrationInv
  OBVIOUS
<1>1. nextKey = 2 /\ Keys = 0..1
  BY DEF Init, RegistrationInit, Keys
<1>2. identity \in Identities \cup {None}
  BY <1>1, ConfiguredClients DEF Init, RegistrationInit, Identities
<1>3. RegistrationTypes
  BY <1>1, <1>2, BoundsAssumption DEF Init, RegistrationInit, RegistrationTypes, Stages
<1>4. StartupKnows /\ KeysAreSaved /\ StartupBinds /\ HubKeyIsOnDisk
  BY DEF Init, RegistrationInit, StartupKnows, KeysAreSaved, StartupBinds, HubKeyIsOnDisk
<1> QED
  BY <1>3, <1>4 DEF RegistrationInv, Init

(* loadOrCreateIdentity() returns an identity with a signing key, the one  *)
(* on disk where that has one and is not to be another client's.           *)
LEMMA LoadedIdentity ==
    ASSUME RegistrationTypes, NEW client \in Clients \cup {None},
           NEW i \in loadOrCreateIdentity(client)
    PROVE  /\ i.client \in Clients
           /\ i.enc \in 0..nextKey
           /\ i.signing \in 1..nextKey
           /\ i = [client |-> i.client, enc |-> i.enc, signing |-> i.signing]
           /\ client # None => i.client = client
           /\ identity # None /\ identity.signing # 0 => i.signing = identity.signing
           /\ identity # None /\ client = None => i.client = identity.client
           /\ identity # None => i.enc = identity.enc
<1>1. nextKey \in Nat /\ nextKey >= 2
  BY DEF RegistrationTypes
<1>2. CASE identity = None
  <2>1. PICK c \in (IF client # None THEN {client} ELSE Unused) :
                i = [client |-> c, enc |-> nextKey, signing |-> nextKey]
    BY <1>2 DEF loadOrCreateIdentity
  <2>2. c \in Clients
    BY <2>1, ConfiguredClients DEF Unused
  <2> QED
    BY <1>1, <1>2, <2>1, <2>2
<1>3. CASE identity # None
  <2>1. /\ identity.client \in Clients
        /\ identity.enc \in Keys
        /\ identity.signing \in Keys
    BY <1>3 DEF RegistrationTypes, Identities
  <2>2. i = [client  |-> IF client # None THEN client ELSE identity.client,
             enc     |-> identity.enc,
             signing |-> IF identity.signing = 0 THEN nextKey ELSE identity.signing]
    BY <1>3 DEF loadOrCreateIdentity
  <2> QED
    BY <1>1, <1>3, <2>1, <2>2 DEF Keys
<1> QED
  BY <1>2, <1>3

(* It is saved before it is used, and the next key pair is another one.    *)
LEMMA SavedIdentity ==
    ASSUME RegistrationTypes, NEW client \in Clients \cup {None},
           NEW i \in loadOrCreateIdentity(client), saveIdentity(i)
    PROVE  /\ identity' = i
           /\ nextKey' \in Nat /\ nextKey <= nextKey'
           /\ i \in Identities' /\ i # None
<1>1. nextKey \in Nat /\ nextKey >= 2
  BY DEF RegistrationTypes
<1>2. /\ identity' = i
      /\ nextKey' = IF nextKey \in {i.enc, i.signing} THEN nextKey + 1 ELSE nextKey
  BY DEF saveIdentity
<1>3. /\ i.client \in Clients
      /\ i.enc \in 0..nextKey
      /\ i.signing \in 1..nextKey
      /\ i = [client |-> i.client, enc |-> i.enc, signing |-> i.signing]
  BY LoadedIdentity
<1>4. nextKey' \in Nat /\ nextKey <= nextKey'
  BY <1>1, <1>2
<1>5. i.enc \in Keys' /\ i.signing \in Keys'
  BY <1>1, <1>2, <1>3 DEF Keys
<1>6. i \in Identities'
  BY <1>3, <1>5 DEF Identities
<1>7. i \in [client: Clients, enc: Nat, signing: Nat]
  BY <1>1, <1>3
<1> QED
  BY <1>2, <1>4, <1>6, <1>7, NoneAssumption

(* A call fails or not. *)
LEMMA Failed ==
    ASSUME RegistrationTypes, UNCHANGED <<clean, failures>> \/ Fails
    PROVE  clean' \in BOOLEAN /\ failures' \in 0..MaxFailures /\ (clean' => clean)
<1>1. CASE UNCHANGED <<clean, failures>>
  BY <1>1 DEF RegistrationTypes
<1>2. CASE Fails
  <2>1. clean' \in BOOLEAN /\ ~clean'
    BY <1>2 DEF Fails
  <2>2. failures' \in 0..MaxFailures
    BY <1>2, BoundsAssumption DEF RegistrationTypes, Fails
  <2> QED
    BY <2>1, <2>2
<1> QED
  BY <1>1, <1>2

(* A step leaves the keys, the agents and the files as they are.           *)
LEMMA SameStores ==
    ASSUME RegistrationTypes,
           UNCHANGED <<agents, users, nextAgent, identity, registration, config, own, agentId, nextKey>>,
           startup' \in Stages, attempt' \in 0..Retries, UNCHANGED <<clean, failures>> \/ Fails
    PROVE  RegistrationTypes'
<1>1. clean' \in BOOLEAN /\ failures' \in 0..MaxFailures
  BY Failed
<1>2. Keys' = Keys
  BY DEF Keys
<1>3. Identities' = Identities /\ AgentRecords' = AgentRecords /\ Registrations' = Registrations
  BY <1>2 DEF Identities, AgentRecords, Registrations
<1> QED
  BY <1>1, <1>3 DEF RegistrationTypes

(* The hub has the same agents, with the same keys.                        *)
AgentsKept ==
    /\ agents' \in [Clients -> AgentRecords \cup {None}]
    /\ \A c \in Clients :
          /\ agents'[c] = None <=> agents[c] = None
          /\ agents[c] # None => /\ agents'[c].id = agents[c].id
                                 /\ agents'[c].signing = agents[c].signing

(* A change of presence is one of the agent the registration names.        *)
LEMMA PresenceSet ==
    ASSUME RegistrationTypes, NEW b \in BOOLEAN, setPresence(b)
    PROVE  /\ AgentsKept
           /\ \A c \in Clients : agents[c] # None
                 => agents'[c].online = IF agents[c].id = registration.agent
                                        THEN b ELSE agents[c].online
<1>0. nextKey \in Nat /\ nextAgent \in Nat
  BY DEF RegistrationTypes
<1>1. ASSUME NEW c \in Clients
      PROVE  /\ agents'[c] \in AgentRecords \cup {None}
             /\ agents[c] = None => agents'[c] = None
             /\ agents[c] # None => /\ agents'[c] # None
                                    /\ agents'[c].id = agents[c].id
                                    /\ agents'[c].signing = agents[c].signing
                                    /\ agents'[c].online = IF agents[c].id = registration.agent
                                                           THEN b ELSE agents[c].online
  <2>1. agents'[c] = IF agents[c] # None /\ agents[c].id = registration.agent
                     THEN [agents[c] EXCEPT !.online = b] ELSE agents[c]
    BY <1>1 DEF setPresence, AgentWith
  <2>2. CASE agents[c] = None
    BY <2>1, <2>2
  <2>3. CASE agents[c] # None
    <3>1. agents[c] \in AgentRecords
      BY <1>1, <2>3 DEF RegistrationTypes
    <3> DEFINE a == agents[c]
               e == [a EXCEPT !.online = b]
    <3>a. a \in AgentRecords
      BY <3>1
    <3> HIDE DEF a
    <3>2. e \in AgentRecords /\ e.id = a.id /\ e.signing = a.signing /\ e.online = b
      BY <3>a DEF AgentRecords
    <3>3. e # None
      BY <1>0, <3>2, RecordsAreNotNull
    <3>4. agents'[c] = IF a.id = registration.agent THEN e ELSE a
      BY <2>1, <2>3 DEF a
    <3> HIDE DEF e
    <3> QED
      BY <2>3, <3>1, <3>2, <3>3, <3>4 DEF a
  <2> QED
    BY <2>2, <2>3
<1>2. agents' \in [Clients -> AgentRecords \cup {None}]
  BY <1>1 DEF setPresence
<1> QED
  BY <1>1, <1>2 DEF AgentsKept

(* So is a published profile, which leaves the presence alone.             *)
LEMMA ProfilePublished ==
    ASSUME RegistrationTypes, publish
    PROVE  /\ AgentsKept
           /\ \A c \in Clients : agents[c] # None
                 => /\ agents'[c].online = agents[c].online
                    /\ agents[c].id = registration.agent => agents'[c].profile
<1>0. nextKey \in Nat /\ nextAgent \in Nat
  BY DEF RegistrationTypes
<1>1. ASSUME NEW c \in Clients
      PROVE  /\ agents'[c] \in AgentRecords \cup {None}
             /\ agents[c] = None => agents'[c] = None
             /\ agents[c] # None => /\ agents'[c] # None
                                    /\ agents'[c].id = agents[c].id
                                    /\ agents'[c].signing = agents[c].signing
                                    /\ agents'[c].online = agents[c].online
                                    /\ agents[c].id = registration.agent => agents'[c].profile
  <2>1. agents'[c] = IF agents[c] # None /\ agents[c].id = registration.agent
                     THEN [agents[c] EXCEPT !.profile = TRUE] ELSE agents[c]
    BY <1>1 DEF publish, AgentWith
  <2>2. CASE agents[c] = None
    BY <2>1, <2>2
  <2>3. CASE agents[c] # None
    <3>1. agents[c] \in AgentRecords
      BY <1>1, <2>3 DEF RegistrationTypes
    <3> DEFINE a == agents[c]
               e == [a EXCEPT !.profile = TRUE]
    <3>2. e \in AgentRecords /\ e.id = a.id /\ e.signing = a.signing /\ e.online = a.online
          /\ e.profile = TRUE
      BY <3>1 DEF AgentRecords
    <3>3. e # None
      BY <1>0, <3>2, RecordsAreNotNull
    <3>4. agents'[c] = IF a.id = registration.agent THEN e ELSE a
      BY <2>1, <2>3
    <3> HIDE DEF e
    <3> QED
      BY <2>3, <3>1, <3>2, <3>3, <3>4
  <2> QED
    BY <2>2, <2>3
<1>2. agents' \in [Clients -> AgentRecords \cup {None}]
  BY <1>1 DEF publish
<1> QED
  BY <1>1, <1>2 DEF AgentsKept

(* A registration gives the client id an agent with the key of own.        *)
LEMMA Upserted ==
    ASSUME RegistrationTypes, own \in Identities, Upsert(own.client), nextKey' = nextKey
    PROVE  /\ nextAgent' \in Nat \ {0} /\ nextAgent <= nextAgent'
           /\ agents' \in [Clients -> AgentRecords' \cup {None}]
           /\ agents'[own.client] \in AgentRecords'
           /\ agents'[own.client].signing = own.signing
           /\ \A c \in Clients : c # own.client => agents'[c] = agents[c]
<1>0. /\ nextKey \in Nat /\ nextAgent \in Nat \ {0} /\ nextKey' \in Nat /\ nextKey <= nextKey'
      /\ own.client \in Clients /\ own.signing \in Keys
      /\ agents \in [Clients -> AgentRecords \cup {None}]
  BY DEF RegistrationTypes, Identities
<1> DEFINE c == own.client
<1>1. CASE agents[c] = None
  <2> DEFINE n == [id |-> nextAgent, signing |-> own.signing, online |-> FALSE, profile |-> FALSE]
  <2>1. agents' = [agents EXCEPT ![c] = n] /\ nextAgent' = nextAgent + 1
    BY <1>1 DEF Upsert
  <2>2. /\ nextAgent' \in Nat \ {0} /\ nextAgent <= nextAgent'
        /\ nextAgent \in 1..(nextAgent' - 1)
        /\ own.signing \in Keys'
    BY <1>0, <2>1 DEF Keys
  <2>3. n \in AgentRecords'
    BY <2>2 DEF AgentRecords
  <2>4. AgentRecords \subseteq AgentRecords'
    BY <1>0, <2>2, StoresGrow
  <2>5. n.signing = own.signing
    OBVIOUS
  <2> HIDE DEF n
  <2> QED
    BY <1>0, <2>1, <2>2, <2>3, <2>4, <2>5
<1>2. CASE agents[c] # None
  <2> DEFINE a == agents[c]
             e == [a EXCEPT !.signing = own.signing]
  <2>1. agents' = [agents EXCEPT ![c] = e] /\ nextAgent' = nextAgent
    BY <1>0, <1>2 DEF Upsert
  <2>2. a \in AgentRecords
    BY <1>0, <1>2
  <2> HIDE DEF a
  <2>3. e \in AgentRecords /\ e.signing = own.signing
    BY <1>0, <2>2 DEF AgentRecords
  <2>4. AgentRecords' = AgentRecords
    BY <2>1 DEF AgentRecords, Keys
  <2> HIDE DEF e
  <2> QED
    BY <1>0, <2>1, <2>3, <2>4
<1> QED
  BY <1>1, <1>2

(* The start-up begins, and saves the identity before anyone learns it.    *)
LEMMA StartHub ==
    ASSUME RegistrationInv, startHubLifecycle, UNCHANGED <<lost, shutdown>>
    PROVE  RegistrationInv'
<1>0. /\ RegistrationTypes /\ lost \in BOOLEAN /\ StartupKnows
      /\ KeysAreSaved /\ StartupBinds /\ HubKeyIsOnDisk
      /\ nextKey \in Nat /\ nextAgent \in Nat
      /\ config.client \in Clients \cup {None}
  BY ConfiguredClients DEF RegistrationInv, RegistrationTypes
<1>1. /\ UNCHANGED <<agents, users, nextAgent, config, agentId, lost, shutdown>>
      /\ startup = "none" /\ own = None
      /\ registration' = registration
      /\ attempt' = 0 /\ 0 \in 0..Retries
  BY <1>0, BoundsAssumption DEF startHubLifecycle, StartupKnows, hubVars, fileVars
<1>2. CASE /\ startup' = "presence"
           /\ UNCHANGED <<own, identity, nextKey>>
           /\ \/ config.hub # "on" /\ UNCHANGED <<clean, failures>>
              \/ Fails
  <2>1. RegistrationTypes'
    BY <1>0, <1>1, <1>2, SameStores DEF Stages
  <2>2. StartupKnows'
    BY <1>2 DEF StartupKnows
  <2>3. KeysAreSaved' /\ HubKeyIsOnDisk'
    BY <1>0, <1>1, <1>2 DEF KeysAreSaved, HubKeyIsOnDisk
  <2>4. StartupBinds'
    BY <1>1, <1>2 DEF StartupBinds, Fails
  <2> QED
    BY <1>0, <1>1, <2>1, <2>2, <2>3, <2>4 DEF RegistrationInv
<1>3. ASSUME NEW i \in loadOrCreateIdentity(config.client),
             own' = i, saveIdentity(i), UNCHANGED <<clean, failures>>,
             startup' = IF sameRegistration(i) THEN "lookup" ELSE "register"
      PROVE  RegistrationInv'
  <2>1. /\ identity' = i
        /\ nextKey' \in Nat /\ nextKey <= nextKey'
        /\ i \in Identities' /\ i # None
    BY <1>0, <1>3, SavedIdentity
  <2>2. /\ i.signing # 0
        /\ identity # None /\ identity.signing # 0 => i.signing = identity.signing
    BY <1>0, <1>3, LoadedIdentity
  <2>3. /\ Identities \subseteq Identities'
        /\ Registrations \subseteq Registrations'
        /\ AgentRecords \subseteq AgentRecords'
    BY <1>0, <1>1, <2>1, StoresGrow
  <2>5. RegistrationTypes'
    <3>1. agents' \in [Clients -> AgentRecords' \cup {None}] /\ registration' \in Registrations' \cup {None}
      BY <1>0, <1>1, <2>3 DEF RegistrationTypes
    <3>2. nextKey' >= 2
      BY <1>0, <2>1 DEF RegistrationTypes
    <3> QED
      BY <1>0, <1>1, <1>3, <2>1, <3>1, <3>2 DEF RegistrationTypes, Stages
  <2>6. StartupKnows'
    BY <1>1, <1>3, <2>1 DEF StartupKnows, sameRegistration
  <2>7. KeysAreSaved' /\ HubKeyIsOnDisk'
    BY <1>0, <1>1, <1>3, <2>1, <2>2 DEF KeysAreSaved, HubKeyIsOnDisk
  <2>8. StartupBinds'
    BY <1>1, <1>3, <2>1 DEF StartupBinds, sameRegistration, buildHubConnectionDescriptor
  <2> QED
    BY <1>0, <1>1, <2>5, <2>6, <2>7, <2>8 DEF RegistrationInv
<1> QED
  BY <1>2, <1>3 DEF startHubLifecycle, fileVars

(* A step that leaves the keys, the agents and the files as they are.      *)
LEMMA Lookup ==
    ASSUME RegistrationInv, lookupExisting, UNCHANGED <<lost, shutdown>>
    PROVE  RegistrationInv'
<1>0. /\ RegistrationTypes /\ lost \in BOOLEAN /\ StartupKnows
      /\ KeysAreSaved /\ StartupBinds /\ HubKeyIsOnDisk
  BY DEF RegistrationInv
<1>1. /\ UNCHANGED <<agents, users, nextAgent, identity, registration, config, own, attempt,
                     agentId, nextKey, lost, shutdown>>
      /\ startup = "lookup" /\ own # None
      /\ \/ /\ startup' = IF Confirmed(agents[own.client]) THEN "presence" ELSE "register"
            /\ UNCHANGED <<clean, failures>>
         \/ Fails /\ startup' = "register"
  BY <1>0 DEF lookupExisting, hubVars, fileVars, StartupKnows
<1>2. RegistrationTypes'
  <2>1. startup' \in Stages /\ attempt' \in 0..Retries
    BY <1>0, <1>1 DEF RegistrationTypes, Stages
  <2> QED
    BY <1>0, <1>1, <2>1, SameStores
<1>3. StartupKnows' /\ KeysAreSaved' /\ HubKeyIsOnDisk'
  BY <1>0, <1>1 DEF StartupKnows, KeysAreSaved, HubKeyIsOnDisk
<1>4. StartupBinds'
  BY <1>0, <1>1 DEF StartupBinds, Fails, Confirmed, Registered, sameRegistration,
                    buildHubConnectionDescriptor
<1> QED
  BY <1>0, <1>1, <1>2, <1>3, <1>4 DEF RegistrationInv

LEMMA Verify ==
    ASSUME RegistrationInv, verifyChallenge, UNCHANGED <<lost, shutdown>>
    PROVE  RegistrationInv'
<1>0. /\ RegistrationTypes /\ lost \in BOOLEAN /\ StartupKnows
      /\ KeysAreSaved /\ StartupBinds /\ HubKeyIsOnDisk
  BY DEF RegistrationInv
<1>1. /\ UNCHANGED <<agents, users, nextAgent, identity, registration, config, own, attempt,
                     agentId, nextKey, lost, shutdown>>
      /\ startup = "verify" /\ own # None /\ registration # None
      /\ startup' \in {"profile", "done"}
      /\ UNCHANGED <<clean, failures>> \/ Fails
  BY <1>0 DEF verifyChallenge, hubVars, fileVars, StartupKnows
<1>2. RegistrationTypes'
  <2>1. startup' \in Stages /\ attempt' \in 0..Retries
    BY <1>0, <1>1 DEF RegistrationTypes, Stages
  <2> QED
    BY <1>0, <1>1, <2>1, SameStores
<1>3. StartupKnows' /\ KeysAreSaved' /\ HubKeyIsOnDisk'
  BY <1>0, <1>1 DEF StartupKnows, KeysAreSaved, HubKeyIsOnDisk
<1>4. StartupBinds'
  BY <1>0, <1>1 DEF StartupBinds, Fails, Registered, sameRegistration, buildHubConnectionDescriptor
<1> QED
  BY <1>0, <1>1, <1>2, <1>3, <1>4 DEF RegistrationInv

(* What saveRegistration() writes. *)
LEMMA RegistrationRecord ==
    ASSUME RegistrationTypes, own \in Identities, nextKey' = nextKey, nextAgent' \in Nat,
           NEW id \in 1..(nextAgent' - 1)
    PROVE  /\ RegistrationOf(id) \in Registrations' /\ RegistrationOf(id) # None
           /\ RegistrationOf(id).agent = id
           /\ RegistrationOf(id).client = own.client
           /\ RegistrationOf(id).enc = own.enc
           /\ RegistrationOf(id).signing = own.signing
           /\ RegistrationOf(id).descriptor = buildHubConnectionDescriptor(own)
<1>1. /\ own.client \in Clients /\ own.enc \in Keys /\ own.signing \in Keys
      /\ config.descriptor \in STRING
  BY ConfiguredClients DEF RegistrationTypes, Identities
<1>2. Keys' = Keys /\ Keys \subseteq Nat /\ id \in Nat
  BY DEF RegistrationTypes, Keys
<1>3. buildHubConnectionDescriptor(own) \in STRING \X Clients \X Keys \X Keys
  BY <1>1 DEF buildHubConnectionDescriptor
<1>4. RegistrationOf(id) \in Registrations'
  BY <1>1, <1>2, <1>3 DEF RegistrationOf, Registrations
<1>5. RegistrationOf(id) \in [agent: Nat, client: Clients, enc: Nat, signing: Nat,
                              descriptor: STRING \X Clients \X Nat \X Nat]
  BY <1>1, <1>2, <1>3 DEF RegistrationOf
<1>6. RegistrationOf(id) # None
  BY <1>5, NoneAssumption
<1> QED
  BY <1>4, <1>6 DEF RegistrationOf

(* The registration with the hub, its conflicts, retries and lost answers. *)
LEMMA Register ==
    ASSUME RegistrationInv, registerWithHub, UNCHANGED <<lost, shutdown>>
    PROVE  RegistrationInv'
<1>0. /\ RegistrationTypes /\ lost \in BOOLEAN /\ StartupKnows
      /\ KeysAreSaved /\ StartupBinds /\ HubKeyIsOnDisk
  BY DEF RegistrationInv
<1>1. /\ UNCHANGED <<users, identity, config, own, nextKey, lost, shutdown>>
      /\ startup = "register" /\ own # None
      /\ nextKey \in Nat /\ nextAgent \in Nat
  BY <1>0 DEF registerWithHub, StartupKnows, RegistrationTypes
<1>2. own \in Identities /\ own.client \in Clients
  BY <1>0, <1>1 DEF RegistrationTypes, Identities
<1>3. ASSUME Upsert(own.client),
             agentId' \in {agentId, agents'[own.client].id},
             startup' \in {"register", "user", "presence"},
             startup' = "user" => agentId' = agents'[own.client].id,
             attempt' \in 0..Retries,
             UNCHANGED <<clean, failures>> \/ Fails,
             registration' \in {registration, RegistrationOf(agentId')},
             registration' # registration => agentId' = agents'[own.client].id,
             clean' => /\ startup' \in {"user", "presence"}
                       /\ agentId' = agents'[own.client].id
                       /\ startup' = "presence" => registration' = RegistrationOf(agentId')
      PROVE  RegistrationInv'
  <2>1. /\ nextAgent' \in Nat \ {0} /\ nextAgent <= nextAgent'
        /\ agents' \in [Clients -> AgentRecords' \cup {None}]
        /\ agents'[own.client] \in AgentRecords'
        /\ agents'[own.client].signing = own.signing
        /\ \A c \in Clients : c # own.client => agents'[c] = agents[c]
    BY <1>0, <1>1, <1>2, <1>3, Upserted
  <2>2. agents'[own.client].id \in 1..(nextAgent' - 1) /\ agents'[own.client] # None
    <3>1. agents'[own.client].id \in 1..(nextAgent' - 1)
      BY <2>1 DEF AgentRecords
    <3>2. agents'[own.client] \in [id: Nat, signing: Nat, online: BOOLEAN, profile: BOOLEAN]
      BY <1>1, <2>1 DEF AgentRecords, Keys
    <3> QED
      BY <3>1, <3>2, NoneAssumption
  <2>3. /\ Identities \subseteq Identities'
        /\ Registrations \subseteq Registrations'
    BY <1>1, <2>1, StoresGrow
  <2>4. agentId' \in 0..(nextAgent' - 1) /\ 1..(nextAgent - 1) \subseteq 1..(nextAgent' - 1)
    <3>1. agentId \in 0..(nextAgent - 1)
      BY <1>0 DEF RegistrationTypes
    <3>2. /\ 0..(nextAgent - 1) \subseteq 0..(nextAgent' - 1)
          /\ 1..(nextAgent - 1) \subseteq 1..(nextAgent' - 1)
          /\ 1..(nextAgent' - 1) \subseteq 0..(nextAgent' - 1)
      BY <1>1, <2>1, RangesGrow
    <3> QED
      BY <1>3, <2>2, <3>1, <3>2
  <2>5. /\ registration' = RegistrationOf(agentId') /\ agentId' = agents'[own.client].id
              => /\ registration' \in Registrations' /\ registration' # None
                 /\ registration'.agent = agentId'
                 /\ registration'.client = own.client
                 /\ registration'.enc = own.enc
                 /\ registration'.signing = own.signing
                 /\ registration'.descriptor = buildHubConnectionDescriptor(own)
    BY <1>0, <1>1, <1>2, <2>1, <2>2, RegistrationRecord
  <2>6. registration' \in Registrations' \cup {None}
    BY <1>0, <1>3, <2>3, <2>5 DEF RegistrationTypes
  <2>7. clean' \in BOOLEAN /\ failures' \in 0..MaxFailures /\ (clean' => clean)
    BY <1>0, <1>3, Failed
  <2>8. RegistrationTypes'
    BY <1>0, <1>1, <1>3, <2>1, <2>3, <2>4, <2>6, <2>7 DEF RegistrationTypes, Stages
  <2>9. StartupKnows'
    BY <1>1, <1>3, <2>2 DEF StartupKnows
  <2>10. KeysAreSaved' /\ HubKeyIsOnDisk'
    BY <1>0, <1>1, <2>1 DEF KeysAreSaved, HubKeyIsOnDisk
  <2>11. StartupBinds'
    BY <1>0, <1>1, <1>3, <2>2, <2>5, <2>7
    DEF StartupBinds, Registered, sameRegistration, buildHubConnectionDescriptor
  <2> QED
    BY <1>0, <1>1, <2>8, <2>9, <2>10, <2>11 DEF RegistrationInv
<1>4. ASSUME UNCHANGED <<agents, nextAgent, registration, agentId>>,
             startup' \in {"register", "conflict", "presence"},
             attempt' \in 0..Retries,
             UNCHANGED <<clean, failures>> \/ Fails,
             clean' => startup' # "presence" /\ agents[own.client] # None
      PROVE  RegistrationInv'
  <2>1. RegistrationTypes'
    <3>1. startup' \in Stages
      BY <1>4 DEF Stages
    <3> QED
      BY <1>0, <1>1, <1>4, <3>1, SameStores
  <2>2. StartupKnows' /\ KeysAreSaved' /\ HubKeyIsOnDisk'
    BY <1>0, <1>1, <1>4 DEF StartupKnows, KeysAreSaved, HubKeyIsOnDisk
  <2>3. clean' => clean
    BY <1>0, <1>4, Failed
  <2>4. StartupBinds'
    BY <1>0, <1>1, <1>4, <2>3 DEF StartupBinds
  <2> QED
    BY <1>0, <1>1, <2>1, <2>2, <2>4 DEF RegistrationInv
<1>5. attempt \in 0..Retries /\ Retries \in Nat
  BY <1>0, BoundsAssumption DEF RegistrationTypes
<1>6. ASSUME Accepts(own.client), Upsert(own.client), agentId' = agents'[own.client].id, attempt' = 0,
             \/ config.password /\ startup' = "user" /\ UNCHANGED <<registration, clean, failures>>
             \/ ~config.password /\ saveRegistration(agentId')
      PROVE  RegistrationInv'
  <2>1. \/ startup' = "user" /\ UNCHANGED <<registration, clean, failures>>
        \/ startup' = "presence" /\ registration' = RegistrationOf(agentId') /\ UNCHANGED <<clean, failures>>
        \/ startup' = "presence" /\ UNCHANGED registration /\ Fails /\ ~clean'
    BY <1>6 DEF saveRegistration, Fails
  <2> QED
    BY <1>3, <1>5, <1>6, <2>1
<1>7. ASSUME NEW giveUp \in {"conflict", "presence"}, RetryOr(giveUp)
      PROVE  startup' \in {"register", giveUp} /\ attempt' \in 0..Retries
  BY <1>1, <1>5, <1>7 DEF RetryOr
<1>8. ASSUME Conflicts(own.client), RetryOr("conflict"),
             UNCHANGED <<agents, nextAgent, registration, agentId, clean, failures>>
      PROVE  RegistrationInv'
  BY <1>4, <1>7, <1>8 DEF Conflicts
<1>9. ASSUME Fails, RetryOr("presence"), UNCHANGED <<registration, agentId>>,
             Upsert(own.client) \/ UNCHANGED <<agents, nextAgent>>
      PROVE  RegistrationInv'
  <2>1. ~clean' /\ startup' \in {"register", "presence"} /\ attempt' \in 0..Retries
    BY <1>7, <1>9 DEF Fails
  <2> QED
    BY <1>3, <1>4, <1>9, <2>1
<1> QED
  BY <1>6, <1>8, <1>9 DEF registerWithHub

(* A step that at most saves the registration of an agent that is there.   *)
LEMMA SaveStep ==
    ASSUME RegistrationInv, own # None,
           UNCHANGED <<agents, nextAgent, identity, config, own, nextKey, lost, shutdown>>,
           users' \subseteq users \cup {agentId'},
           agentId' \in 0..(nextAgent - 1),
           users' # users => agentId' # 0,
           startup' \in {"user", "presence"},
           startup' = "user" => agentId' # 0,
           attempt' \in 0..Retries,
           UNCHANGED <<clean, failures>> \/ Fails,
           \/ registration' = registration
           \/ registration' = RegistrationOf(agentId') /\ agentId' # 0,
           clean' /\ config.hub = "on" =>
               /\ startup # "none"
               /\ startup' = "presence" /\ registration' = RegistrationOf(agentId')
               /\ agents[own.client] # None /\ agents[own.client].id = agentId'
    PROVE  RegistrationInv'
<1>0. /\ RegistrationTypes /\ lost \in BOOLEAN /\ StartupKnows
      /\ KeysAreSaved /\ StartupBinds /\ HubKeyIsOnDisk
      /\ nextKey \in Nat /\ nextAgent \in Nat /\ nextAgent' \in Nat
      /\ own \in Identities
  BY DEF RegistrationInv, RegistrationTypes
<1>1. Keys' = Keys
  BY DEF Keys
<1>2. Identities' = Identities /\ AgentRecords' = AgentRecords /\ Registrations' = Registrations
  BY <1>1 DEF Identities, AgentRecords, Registrations
<1>3. agentId' # 0 => agentId' \in 1..(nextAgent' - 1)
  BY <1>0
<1>4. registration' = RegistrationOf(agentId') /\ agentId' # 0
              => /\ registration' \in Registrations' /\ registration' # None
                 /\ registration'.agent = agentId'
                 /\ registration'.client = own.client
                 /\ registration'.enc = own.enc
                 /\ registration'.signing = own.signing
                 /\ registration'.descriptor = buildHubConnectionDescriptor(own)
  BY <1>0, <1>3, RegistrationRecord
<1>5. registration' \in Registrations \cup {None}
  BY <1>0, <1>2, <1>4 DEF RegistrationTypes
<1>6. users' \subseteq 1..(nextAgent - 1)
  BY <1>0, <1>3 DEF RegistrationTypes
<1>7. clean' \in BOOLEAN /\ failures' \in 0..MaxFailures /\ (clean' => clean)
  BY <1>0, Failed
<1>8. RegistrationTypes'
  BY <1>0, <1>2, <1>5, <1>6, <1>7 DEF RegistrationTypes, Stages
<1>9. StartupKnows'
  BY DEF StartupKnows
<1>10. KeysAreSaved' /\ HubKeyIsOnDisk'
  BY <1>0 DEF KeysAreSaved, HubKeyIsOnDisk
<1>11. StartupBinds'
  <2> SUFFICES ASSUME clean', config.hub = "on"
               PROVE  startup' = "presence" /\ own # None /\ identity = own /\ Registered'
    BY DEF StartupBinds
  <2>1. agents[own.client].id # 0
    <3>1. own.client \in Clients
      BY <1>0 DEF Identities
    <3>2. agents[own.client] \in AgentRecords
      BY <1>0, <3>1 DEF RegistrationTypes
    <3> QED
      BY <1>0, <3>2 DEF AgentRecords
  <2> QED
    BY <1>0, <1>4, <1>7, <2>1 DEF StartupBinds, Registered, sameRegistration,
                                  buildHubConnectionDescriptor
<1> QED
  BY <1>0, <1>8, <1>9, <1>10, <1>11 DEF RegistrationInv

(* The web user, whose failure does not keep the registration from disk.   *)
LEMMA RegisterUser ==
    ASSUME RegistrationInv, registerHubUser, UNCHANGED <<lost, shutdown>>
    PROVE  RegistrationInv'
<1>0. /\ startup = "user" /\ own # None /\ agentId # 0
      /\ agentId \in 0..(nextAgent - 1)
      /\ attempt \in 0..Retries /\ Retries \in Nat
      /\ UNCHANGED <<agents, nextAgent, identity, config, own, agentId, nextKey>>
      /\ clean /\ config.hub = "on"
            => agents[own.client] # None /\ agents[own.client].id = agentId
  BY BoundsAssumption
  DEF registerHubUser, RegistrationInv, RegistrationTypes, StartupKnows, StartupBinds
<1>1. ASSUME users' = users \cup {agentId}, attempt' = 0, saveRegistration(agentId)
      PROVE  RegistrationInv'
  <2>1. /\ startup' = "presence"
        /\ \/ registration' = RegistrationOf(agentId') /\ UNCHANGED <<clean, failures>>
           \/ registration' = registration /\ Fails /\ ~clean'
    BY <1>0, <1>1 DEF saveRegistration, Fails
  <2> QED
    BY <1>0, <1>1, <2>1, SaveStep
<1>2. ASSUME Fails, users' \in {users, users \cup {agentId}},
             \/ attempt < Retries /\ attempt' = attempt + 1 /\ UNCHANGED <<startup, registration>>
             \/ /\ attempt = Retries
                /\ attempt' = 0
                /\ startup' = "presence"
                /\ registration' \in {registration, RegistrationOf(agentId)}
      PROVE  RegistrationInv'
  <2>1. attempt' \in 0..Retries /\ ~clean'
    BY <1>0, <1>2 DEF Fails
  <2> QED
    BY <1>0, <1>2, <2>1, SaveStep
<1> QED
  BY <1>1, <1>2 DEF registerHubUser

(* After a conflict the agent of the client id is taken for its own.       *)
LEMMA Conflict ==
    ASSUME RegistrationInv, lookupConflict, UNCHANGED <<lost, shutdown>>
    PROVE  RegistrationInv'
<1>0. /\ startup = "conflict" /\ own # None
      /\ agentId \in 0..(nextAgent - 1)
      /\ attempt \in 0..Retries
      /\ UNCHANGED <<agents, users, nextAgent, identity, config, own, attempt, nextKey>>
      /\ clean /\ config.hub = "on" => agents[own.client] # None
      /\ RegistrationTypes
  BY DEF lookupConflict, RegistrationInv, RegistrationTypes, StartupKnows, StartupBinds, hubVars
<1>1. CASE agents[own.client] # None /\ agentId' = agents[own.client].id /\ saveRegistration(agentId')
  <2>1. /\ startup' = "presence"
        /\ \/ registration' = RegistrationOf(agentId') /\ UNCHANGED <<clean, failures>>
           \/ registration' = registration /\ Fails /\ ~clean'
    BY <1>1 DEF saveRegistration, Fails
  <2>2. agentId' \in 0..(nextAgent - 1) /\ agentId' # 0
    <3>1. own.client \in Clients
      BY <1>0 DEF RegistrationTypes, Identities
    <3>2. agents[own.client] \in AgentRecords
      BY <1>0, <1>1, <3>1 DEF RegistrationTypes
    <3>3. nextAgent \in Nat
      BY <1>0 DEF RegistrationTypes
    <3> QED
      BY <1>1, <3>2, <3>3 DEF AgentRecords
  <2> QED
    BY <1>0, <1>1, <2>1, <2>2, SaveStep
<1>2. CASE /\ agents[own.client] = None
           /\ startup' = "presence"
           /\ UNCHANGED <<registration, agentId, clean, failures>>
  BY <1>0, <1>2, SaveStep
<1>3. CASE Fails /\ startup' = "presence" /\ UNCHANGED <<registration, agentId>>
  <2>1. ~clean'
    BY <1>3 DEF Fails
  <2> QED
    BY <1>0, <1>3, <2>1, SaveStep
<1> QED
  BY <1>1, <1>2, <1>3 DEF lookupConflict

(* A step that at most changes what the hub shows of its agents.           *)
LEMMA MarkStep ==
    ASSUME RegistrationInv,
           AgentsKept \/ agents' = agents,
           UNCHANGED <<users, nextAgent, identity, registration, config, own, attempt, agentId,
                       nextKey, lost>>,
           \/ startup' = startup
           \/ startup = "presence" /\ startup' \in {"challenge", "done"}
           \/ startup = "profile" /\ startup' = "done",
           UNCHANGED <<clean, failures>> \/ Fails,
           clean' /\ config.hub = "on" /\ shutdown' = "none"
               => (startup' \in {"challenge", "verify", "profile", "done"}
                     => agents'[own.client].online)
    PROVE  RegistrationInv'
<1>0. /\ RegistrationTypes /\ lost \in BOOLEAN /\ StartupKnows
      /\ KeysAreSaved /\ StartupBinds /\ HubKeyIsOnDisk
  BY DEF RegistrationInv
<1>1. /\ agents' \in [Clients -> AgentRecords \cup {None}]
      /\ \A c \in Clients :
            /\ agents'[c] = None <=> agents[c] = None
            /\ agents[c] # None => /\ agents'[c].id = agents[c].id
                                   /\ agents'[c].signing = agents[c].signing
  BY <1>0 DEF RegistrationTypes, AgentsKept
<1>2. clean' \in BOOLEAN /\ failures' \in 0..MaxFailures /\ (clean' => clean)
  BY <1>0, Failed
<1>3. Keys' = Keys
  BY DEF Keys
<1>4. Identities' = Identities /\ AgentRecords' = AgentRecords /\ Registrations' = Registrations
  BY <1>3 DEF Identities, AgentRecords, Registrations
<1>5. RegistrationTypes'
  BY <1>0, <1>1, <1>2, <1>4 DEF RegistrationTypes, Stages
<1>6. StartupKnows'
  BY <1>0 DEF StartupKnows
<1>7. KeysAreSaved' /\ HubKeyIsOnDisk'
  BY <1>0, <1>1 DEF KeysAreSaved, HubKeyIsOnDisk
<1>8. StartupBinds'
  <2> SUFFICES ASSUME clean', config.hub = "on"
               PROVE  StartupBinds'
    BY DEF StartupBinds
  <2>1. own # None => own.client \in Clients
    BY <1>0 DEF RegistrationTypes, Identities
  <2> QED
    BY <1>0, <1>1, <1>2, <2>1 DEF StartupBinds, Registered, sameRegistration,
                                  buildHubConnectionDescriptor
<1> QED
  BY <1>0, <1>5, <1>6, <1>7, <1>8 DEF RegistrationInv

(* A start-up that met no failure finds its agent in the registration.     *)
LEMMA FindsAgent ==
    ASSUME RegistrationInv, clean, config.hub = "on",
           startup \in {"presence", "challenge", "verify", "profile"}
    PROVE  /\ own # None /\ identity = own /\ own \in Identities /\ own.client \in Clients
           /\ Registered /\ registration # None /\ registration.client = own.client
  BY DEF RegistrationInv, RegistrationTypes, StartupBinds, Registered, sameRegistration, Identities

LEMMA Presence ==
    ASSUME RegistrationInv, updatePresence, UNCHANGED <<lost, shutdown>>
    PROVE  /\ RegistrationInv'
           /\ clean' /\ config.hub = "on" => agents'[own.client].online
<1>0. /\ RegistrationTypes
      /\ startup = "presence" /\ startup' \in {"challenge", "done"}
      /\ UNCHANGED <<users, nextAgent, identity, registration, config, own, attempt, agentId,
                     nextKey, lost>>
  BY DEF RegistrationInv, updatePresence, afterPresence, fileVars
<1>1. CASE registration = None /\ UNCHANGED <<agents, clean, failures>>
  <2>1. ~(clean' /\ config.hub = "on")
    BY <1>0, <1>1, FindsAgent
  <2> QED
    BY <1>0, <1>1, <2>1, MarkStep
<1>2. CASE registration # None /\ setPresence(TRUE) /\ UNCHANGED <<clean, failures>>
  <2>1. /\ AgentsKept
        /\ \A c \in Clients : agents[c] # None
                 => agents'[c].online = IF agents[c].id = registration.agent
                                        THEN TRUE ELSE agents[c].online
    BY <1>0, <1>2, PresenceSet
  <2>2. clean' /\ config.hub = "on" => agents'[own.client].online
    BY <1>0, <1>2, <2>1, FindsAgent DEF Registered
  <2> QED
    BY <1>0, <1>2, <2>1, <2>2, MarkStep
<1>3. CASE Fails /\ (setPresence(TRUE) \/ UNCHANGED agents)
  <2>1. ~clean'
    BY <1>3 DEF Fails
  <2>2. AgentsKept \/ agents' = agents
    BY <1>0, <1>3, PresenceSet
  <2> QED
    BY <1>0, <1>3, <2>1, <2>2, MarkStep
<1> QED
  BY <1>1, <1>2, <1>3 DEF updatePresence

LEMMA Profile ==
    ASSUME RegistrationInv, updateProfile, UNCHANGED <<lost, shutdown>>
    PROVE  /\ RegistrationInv'
           /\ clean' /\ config.hub = "on" =>
                 /\ agents'[own.client].online = agents[own.client].online
                 /\ agents'[own.client].profile
<1>0. /\ RegistrationTypes
      /\ startup = "profile" /\ startup' = "done"
      /\ UNCHANGED <<users, nextAgent, identity, registration, config, own, attempt, agentId,
                     nextKey, lost>>
  BY DEF RegistrationInv, updateProfile, fileVars
<1>1. CASE publish /\ UNCHANGED <<clean, failures>>
  <2>1. /\ AgentsKept
        /\ \A c \in Clients : agents[c] # None
                 => /\ agents'[c].online = agents[c].online
                    /\ agents[c].id = registration.agent => agents'[c].profile
    BY <1>0, <1>1, ProfilePublished
  <2>2. clean' /\ config.hub = "on" => /\ agents'[own.client].online = agents[own.client].online
                                       /\ agents'[own.client].profile
    BY <1>0, <1>1, <2>1, FindsAgent DEF Registered
  <2>3. clean' /\ config.hub = "on" /\ shutdown' = "none" => agents[own.client].online
    BY <1>0, <1>1 DEF RegistrationInv, StartupBinds
  <2> QED
    BY <1>0, <1>1, <2>1, <2>2, <2>3, MarkStep
<1>2. CASE Fails /\ (publish \/ UNCHANGED agents)
  <2>1. ~clean'
    BY <1>2 DEF Fails
  <2>2. AgentsKept \/ agents' = agents
    BY <1>0, <1>2, ProfilePublished
  <2> QED
    BY <1>0, <1>2, <2>1, <2>2, MarkStep
<1> QED
  BY <1>1, <1>2 DEF updateProfile

LEMMA Offline ==
    ASSUME RegistrationInv, goOffline
    PROVE  RegistrationInv'
<1>0. /\ RegistrationTypes
      /\ startup' = startup /\ shutdown' = "done"
      /\ UNCHANGED <<users, nextAgent, identity, registration, config, own, attempt, agentId,
                     nextKey, lost>>
      /\ UNCHANGED <<clean, failures>> \/ Fails
      /\ setPresence(FALSE) \/ agents' = agents
  BY DEF RegistrationInv, goOffline, fileVars, worldVars
<1>1. AgentsKept \/ agents' = agents
  BY <1>0, PresenceSet
<1> QED
  BY <1>0, <1>1, MarkStep

(* The challenge: the identity is loaded again, and is the one it was      *)
(* when nothing failed since.                                              *)
LEMMA Challenge ==
    ASSUME RegistrationInv, requestChallenge, UNCHANGED <<lost, shutdown>>
    PROVE  /\ RegistrationInv'
           /\ clean' /\ config.hub = "on" => startup' = "verify"
<1>0. /\ RegistrationTypes /\ lost \in BOOLEAN /\ StartupKnows
      /\ KeysAreSaved /\ StartupBinds /\ HubKeyIsOnDisk
      /\ nextKey \in Nat /\ nextAgent \in Nat
      /\ startup = "challenge"
      /\ UNCHANGED <<agents, users, nextAgent, registration, config, attempt, agentId, lost, shutdown>>
  BY DEF RegistrationInv, RegistrationTypes, requestChallenge, hubVars
<1>1. CASE /\ registration = None \/ identity = None
           /\ startup' = "done"
           /\ UNCHANGED <<own, identity, nextKey, clean, failures>>
  <2>1. RegistrationTypes'
    <3>1. startup' \in Stages /\ attempt' \in 0..Retries
      BY <1>0, <1>1 DEF RegistrationTypes, Stages
    <3> QED
      BY <1>0, <1>1, <3>1, SameStores
  <2>2. StartupKnows' /\ KeysAreSaved' /\ HubKeyIsOnDisk'
    BY <1>0, <1>1 DEF StartupKnows, KeysAreSaved, HubKeyIsOnDisk
  <2>3. ~(clean' /\ config.hub = "on")
    BY <1>0, <1>1, FindsAgent
  <2>4. StartupBinds'
    BY <1>0, <2>3 DEF StartupBinds
  <2> QED
    BY <1>0, <2>1, <2>2, <2>3, <2>4 DEF RegistrationInv
<1>2. ASSUME registration # None, identity # None,
             NEW i \in loadOrCreateIdentity(registration.client), own' = i, saveIdentity(i),
             \/ /\ startup' = IF /\ agents[registration.client] # None
                                 /\ agents[registration.client].id = registration.agent
                              THEN "verify" ELSE "done"
                /\ UNCHANGED <<clean, failures>>
             \/ Fails /\ startup' = "done"
      PROVE  RegistrationInv' /\ (clean' /\ config.hub = "on" => startup' = "verify")
  <2>0. registration.client \in Clients
    BY <1>0, <1>2 DEF RegistrationTypes, Registrations
  <2>1. /\ identity' = i
        /\ nextKey' \in Nat /\ nextKey <= nextKey'
        /\ i \in Identities' /\ i # None
    BY <1>0, <1>2, <2>0, SavedIdentity
  <2>2. /\ i.signing # 0
        /\ identity.signing # 0 => i.signing = identity.signing
    BY <1>0, <1>2, <2>0, LoadedIdentity
  <2>3. /\ Identities \subseteq Identities'
        /\ Registrations \subseteq Registrations'
        /\ AgentRecords \subseteq AgentRecords'
    BY <1>0, <2>1, StoresGrow
  <2>4. clean' \in BOOLEAN /\ failures' \in 0..MaxFailures /\ (clean' => clean)
    BY <1>0, <1>2, Failed
  <2>5. RegistrationTypes'
    <3>1. agents' \in [Clients -> AgentRecords' \cup {None}] /\ registration' \in Registrations' \cup {None}
      BY <1>0, <2>3 DEF RegistrationTypes
    <3>2. nextKey' >= 2
      BY <1>0, <2>1 DEF RegistrationTypes
    <3>3. startup' \in Stages
      BY <1>2 DEF Stages
    <3> QED
      BY <1>0, <1>2, <2>1, <2>4, <3>1, <3>2, <3>3 DEF RegistrationTypes
  <2>6. StartupKnows'
    BY <1>0, <1>2, <2>1 DEF StartupKnows
  <2>7. KeysAreSaved' /\ HubKeyIsOnDisk'
    BY <1>0, <1>2, <2>1, <2>2 DEF KeysAreSaved, HubKeyIsOnDisk
  <2>8. ASSUME clean', config.hub = "on"
        PROVE  i = own /\ startup' = "verify"
    <3>1. /\ own # None /\ identity = own /\ own \in Identities
          /\ Registered /\ registration.client = own.client /\ own.signing # 0
      BY <1>0, <2>4, <2>8, FindsAgent DEF KeysAreSaved
    <3>2. /\ i = [client |-> i.client, enc |-> i.enc, signing |-> i.signing]
          /\ i.client = registration.client
          /\ i.signing = identity.signing
          /\ i.enc = identity.enc
      <4>1. registration.client # None
        BY <2>8, <3>1, <1>2, <1>0, <2>0, NoneAssumption DEF Clients
      <4> QED
        BY <1>0, <1>2, <2>0, <3>1, <4>1, LoadedIdentity
    <3>3. own = [client |-> own.client, enc |-> own.enc, signing |-> own.signing]
      BY <3>1 DEF Identities
    <3>4. startup' = "verify"
      BY <1>2, <2>8, <3>1 DEF Fails, Registered
    <3> QED
      BY <3>1, <3>2, <3>3, <3>4
  <2>9. StartupBinds'
    BY <1>0, <1>2, <2>1, <2>4, <2>8 DEF StartupBinds, Registered, sameRegistration,
                                        buildHubConnectionDescriptor
  <2> QED
    BY <1>0, <2>5, <2>6, <2>7, <2>8, <2>9 DEF RegistrationInv
<1> QED
  BY <1>1, <1>2 DEF requestChallenge

(* Every step keeps what the start-up has reached.                         *)
LEMMA RegistrationSteps ==
    ASSUME RegistrationInv, [Next]_vars
    PROVE  RegistrationInv'
<1>0. /\ RegistrationTypes /\ lost \in BOOLEAN /\ StartupKnows
      /\ KeysAreSaved /\ StartupBinds /\ HubKeyIsOnDisk
  BY DEF RegistrationInv
<1>1. CASE UNCHANGED <<registrationVars, lost>> /\ (shutdown' = "none" => shutdown = "none")
  <2>1. /\ UNCHANGED <<agents, users, nextAgent, identity, registration, config, own, attempt, agentId,
                       nextKey, lost, clean, failures>>
        /\ startup' = startup
    BY <1>1 DEF registrationVars, hubVars, fileVars, startupVars
  <2>2. clean /\ config.hub = "on" /\ shutdown' = "none" /\ startup \in {"challenge", "verify", "profile", "done"}
            => agents[own.client].online
    BY <1>0, <1>1 DEF StartupBinds
  <2> QED
    BY <2>1, <2>2, MarkStep
<1>2. CASE startHubLifecycle /\ UNCHANGED <<lost, shutdown>>
  BY <1>2, StartHub
<1>3. CASE ServiceStep
  <2>1. UNCHANGED lost
    BY <1>3 DEF ServiceStep, StartAgain, Start, Listen, Listening, ServeGrpc, Stop, Release, Closed,
                worldVars
  <2>2. shutdown' = "none" => shutdown = "none"
    BY <1>3 DEF ServiceStep, StartAgain, Start, Listen, Listening, ServeGrpc, Stop, Release, Closed,
                stopHubLifecycle
  <2>3. UNCHANGED registrationVars \/ (startHubLifecycle /\ UNCHANGED shutdown)
    BY <1>3 DEF ServiceStep, StartAgain, Start, Listen, Listening, ServeGrpc, Stop, Release, Closed
  <2> QED
    BY <1>1, <1>2, <2>1, <2>2, <2>3
<1>4. CASE HubStep
  <2>1. HubStartupStep /\ UNCHANGED <<lost, shutdown>>
    BY <1>4 DEF HubStep, serviceVars, worldVars
  <2> QED
    BY <2>1, Lookup, Register, RegisterUser, Conflict, Presence, Challenge, Verify, Profile
    DEF HubStartupStep
<1>5. CASE goOffline
  BY <1>5, Offline
<1>6. CASE gateway_start
  <2>1. startHubLifecycle /\ UNCHANGED <<lost, shutdown>>
    BY <1>6 DEF gateway_start, serviceVars, worldVars
  <2> QED
    BY <1>2, <2>1
<1>7. CASE gateway_stop
  <2>1. UNCHANGED <<registrationVars, lost>> /\ shutdown' # "none"
    BY <1>7 DEF gateway_stop, stopHubLifecycle, HubOff, worldVars
  <2> QED
    BY <1>1, <2>1
<1>8. CASE Restart
  <2>1. /\ UNCHANGED <<agents, users, nextAgent, identity, registration, nextKey, failures, lost>>
        /\ startup' = "none" /\ own' = None /\ attempt' = 0 /\ agentId' = 0 /\ clean' = TRUE
        /\ config' \in Configs
    BY <1>8 DEF Restart, hubVars, fileVars
  <2>2. Keys' = Keys
    BY <2>1 DEF Keys
  <2>3. Identities' = Identities /\ AgentRecords' = AgentRecords /\ Registrations' = Registrations
    BY <2>1, <2>2 DEF Identities, AgentRecords, Registrations
  <2>4. 0 \in 0..Retries /\ 0 \in 0..(nextAgent - 1)
    BY <1>0, BoundsAssumption DEF RegistrationTypes
  <2>5. RegistrationTypes'
    BY <1>0, <2>1, <2>3, <2>4 DEF RegistrationTypes, Stages
  <2>6. StartupKnows' /\ KeysAreSaved' /\ StartupBinds' /\ HubKeyIsOnDisk'
    BY <1>0, <2>1 DEF StartupKnows, KeysAreSaved, StartupBinds, HubKeyIsOnDisk
  <2> QED
    BY <1>0, <2>1, <2>5, <2>6 DEF RegistrationInv
<1>9. CASE LoseIdentity
  <2>1. /\ UNCHANGED <<agents, users, nextAgent, registration, config, own, attempt, agentId,
                       nextKey, failures, startup>>
        /\ identity' = None /\ lost' = TRUE /\ clean' = FALSE
    BY <1>9 DEF LoseIdentity, Accident, hubVars
  <2>2. Keys' = Keys
    BY <2>1 DEF Keys
  <2>3. Identities' = Identities /\ AgentRecords' = AgentRecords /\ Registrations' = Registrations
    BY <2>1, <2>2 DEF Identities, AgentRecords, Registrations
  <2>4. RegistrationTypes'
    BY <1>0, <2>1, <2>3 DEF RegistrationTypes
  <2>5. StartupKnows' /\ KeysAreSaved' /\ StartupBinds' /\ HubKeyIsOnDisk'
    BY <1>0, <2>1 DEF StartupKnows, KeysAreSaved, StartupBinds, HubKeyIsOnDisk
  <2> QED
    BY <1>0, <2>1, <2>4, <2>5 DEF RegistrationInv
<1>10. ASSUME NEW c \in Clients, RemoveAgent(c)
       PROVE  RegistrationInv'
  <2>1. /\ UNCHANGED <<identity, registration, users, nextAgent, config, own, attempt, agentId,
                       nextKey, failures, startup, lost>>
        /\ agents' = [agents EXCEPT ![c] = None] /\ clean' = FALSE
    BY <1>10 DEF RemoveAgent, Accident, fileVars
  <2>2. Keys' = Keys
    BY <2>1 DEF Keys
  <2>3. Identities' = Identities /\ AgentRecords' = AgentRecords /\ Registrations' = Registrations
    BY <2>1, <2>2 DEF Identities, AgentRecords, Registrations
  <2>4. /\ agents' \in [Clients -> AgentRecords \cup {None}]
        /\ \A d \in Clients : agents'[d] # None => agents'[d] = agents[d]
    BY <1>0, <2>1 DEF RegistrationTypes
  <2>5. RegistrationTypes'
    BY <1>0, <2>1, <2>3, <2>4 DEF RegistrationTypes
  <2>6. StartupKnows' /\ KeysAreSaved' /\ StartupBinds' /\ HubKeyIsOnDisk'
    BY <1>0, <2>1, <2>4 DEF StartupKnows, KeysAreSaved, StartupBinds, HubKeyIsOnDisk
  <2> QED
    BY <1>0, <2>1, <2>5, <2>6 DEF RegistrationInv
<1>11. CASE UNCHANGED vars
  BY <1>1, <1>11 DEF vars, serviceVars, worldVars
<1> QED
  BY <1>3, <1>4, <1>5, <1>6, <1>7, <1>8, <1>9, <1>10, <1>11 DEF Next

LEMMA RegistrationInvariant == Spec => []RegistrationInv
  BY RegistrationStart, RegistrationSteps, PTL DEF Spec

(* Restarts and accidents are within their bounds.                         *)
WorldTypes == restarts \in 0..MaxRestarts /\ accidents \in 0..MaxAccidents

LEMMA WorldInvariant == Spec => []WorldTypes
<1>0. MaxRestarts \in Nat /\ MaxAccidents \in Nat
  BY LifecycleAssumption
<1>1. Init => WorldTypes
  BY <1>0 DEF Init, WorldTypes
<1>2. WorldTypes /\ [Next]_vars => WorldTypes'
  <2> SUFFICES ASSUME WorldTypes, [Next]_vars
               PROVE  WorldTypes'
    OBVIOUS
  <2>1. CASE UNCHANGED worldVars
    BY <2>1 DEF worldVars, WorldTypes
  <2>2. CASE Restart
    BY <1>0, <2>2 DEF Restart, WorldTypes
  <2>3. CASE Accident /\ UNCHANGED restarts
    BY <1>0, <2>3 DEF Accident, WorldTypes
  <2> QED
    BY <2>1, <2>2, <2>3
    DEF Next, ServiceStep, StartAgain, Start, Listen, Listening, ServeGrpc, Stop, Release, Closed,
        HubStep, goOffline, gateway_start, gateway_stop, LoseIdentity, RemoveAgent, vars
<1> QED
  BY <1>1, <1>2, PTL DEF Spec

(* Every variable of the service and of the hub start-up has its type, for *)
(* all configurations and any number of failures, restarts and accidents.  *)
THEOREM LifecycleTypes == Spec => []TypeOK
<1>1. RegistrationInv /\ ServiceInv /\ WorldTypes => TypeOK
  <2> SUFFICES ASSUME RegistrationInv, ServiceInv, WorldTypes
               PROVE  TypeOK
    OBVIOUS
  <2>1. /\ RegistrationTypes /\ ServiceTypes /\ lost \in BOOLEAN
        /\ restarts \in 0..MaxRestarts /\ accidents \in 0..MaxAccidents
    BY DEF RegistrationInv, ServiceInv, WorldTypes
  <2>2. /\ registration \in [agent: 1..(nextAgent - 1), client: Clients, enc: Keys,
                             signing: Keys, descriptor: STRING \X Clients \X Keys \X Keys]
                                \cup {None}
        /\ \A c \in Clients : agents[c] \in [id: 1..(nextAgent - 1), signing: Keys,
                                             online: BOOLEAN, profile: BOOLEAN] \cup {None}
        /\ startup \in {"none", "lookup", "register", "user", "conflict", "presence",
                        "challenge", "verify", "profile", "done"}
    BY <2>1 DEF RegistrationTypes, Registrations, AgentRecords, Stages
  <2> QED
    BY <2>1, <2>2 DEF RegistrationTypes, ServiceTypes, TypeOK
<1> QED
  BY <1>1, RegistrationInvariant, ServiceInvariant, WorldInvariant, PTL

(* The identity is saved before the hub learns of it                       *)
(* (loadOrCreateIdentity before registerWithHub): wherever the process     *)
(* ends, the key on disk signs for every agent it has at the hub.          *)
THEOREM HubKeySaved == Spec => []HubKeyIsOnDisk
<1>1. RegistrationInv => HubKeyIsOnDisk
  BY DEF RegistrationInv
<1> QED
  BY <1>1, RegistrationInvariant, PTL

(* The last step of a clean start-up.                                      *)
LEMMA LastStep ==
    ASSUME RegistrationInv, RegistrationInv', Next,
           startup # "done", startup' = "done", clean', config.hub = "on"
    PROVE  Bound' /\ (config.autoSync /\ ~lost' => agents'[identity'.client].profile)
<1>1. HubStartupStep /\ UNCHANGED <<lost, shutdown>>
  <2>1. ~ startHubLifecycle
    BY DEF startHubLifecycle, saveIdentity
  <2>2. ~ UNCHANGED registrationVars
    BY DEF registrationVars, startupVars
  <2>3. ~ ServiceStep
    BY <2>1, <2>2 DEF ServiceStep, StartAgain, Start, Listen, Listening, ServeGrpc, Stop, Release, Closed
  <2>4. ~ goOffline /\ ~ gateway_start /\ ~ gateway_stop
    BY <2>1, <2>2 DEF goOffline, gateway_start, gateway_stop
  <2>5. ~ Restart /\ ~ LoseIdentity /\ \A c \in Clients : ~ RemoveAgent(c)
    BY DEF Restart, LoseIdentity, RemoveAgent
  <2> QED
    BY <2>3, <2>4, <2>5 DEF Next, HubStep, serviceVars, worldVars
<1>2. UNCHANGED config
  BY <1>1 DEF HubStartupStep, lookupExisting, registerWithHub, registerHubUser, lookupConflict,
              updatePresence, requestChallenge, verifyChallenge, updateProfile
<1>3. Bound'
  BY <1>2 DEF RegistrationInv, StartupBinds, Registered, sameRegistration, Bound
<1>4. identity' = own'
  BY <1>2 DEF RegistrationInv, StartupBinds
<1>5. ASSUME config.autoSync, ~lost'
      PROVE  agents'[identity'.client].profile
  <2>1. CASE updateProfile
    <3>1. own' = own
      BY <2>1 DEF updateProfile
    <3> QED
      BY <1>1, <1>4, <2>1, <3>1, Profile
  <2>2. ~ verifyChallenge
    <3> SUFFICES ASSUME verifyChallenge
                 PROVE  FALSE
      OBVIOUS
    <3>1. clean /\ startup = "verify" /\ ~Fails
      BY DEF verifyChallenge, Fails
    <3>2. /\ Registered /\ registration.client = own.client
          /\ identity = own /\ own.client \in Clients
      BY <3>1, FindsAgent
    <3>3. agents[own.client].signing = own.signing
      BY <1>1, <1>5, <3>2 DEF RegistrationInv, HubKeyIsOnDisk, Registered
    <3> QED
      BY <3>1, <3>2, <3>3 DEF verifyChallenge, Registered
  <2>3. ~ requestChallenge
    BY <1>1, Challenge
  <2>4. ~ updatePresence
    BY <1>5 DEF updatePresence, afterPresence
  <2>5. ~ lookupExisting /\ ~ registerWithHub /\ ~ registerHubUser /\ ~ lookupConflict
    BY DEF lookupExisting, registerWithHub, registerHubUser, lookupConflict, saveRegistration, RetryOr
  <2> QED
    BY <1>1, <2>1, <2>2, <2>3, <2>4, <2>5 DEF HubStartupStep
<1> QED
  BY <1>3, <1>5

(* A start-up that meets no failure ends bound, and with its profile       *)
(* published (startHubLifecycle, runHubRegistration, syncHubProfile), from *)
(* whatever the failures, crashes and accidents before it left.            *)
THEOREM CleanStartups == Spec => CleanStartupBinds
<1>1. RegistrationInv /\ RegistrationInv' /\ [Next]_vars
      => [startup # "done" /\ startup' = "done" /\ clean' /\ config.hub = "on"
          => /\ Bound'
             /\ config.autoSync /\ ~lost' => agents'[identity'.client].profile]_vars
  BY LastStep
<1> QED
  BY <1>1, RegistrationInvariant, PTL DEF Spec, CleanStartupBinds
=============================================================================
