--------------------------- MODULE HubRegistration ---------------------------
(***************************************************************************)
(* The start-up of the hub side of a gateway (startHubLifecycle in         *)
(* src/index.ts): it loads or creates the identity, registers the agent    *)
(* with the hub or confirms the registration it has on disk, sets its      *)
(* presence and publishes its profile with a token it obtains by signing a *)
(* challenge. Two files outlive the process, the identity and the          *)
(* registration; both are replaced by a rename.                            *)
(*                                                                         *)
(* The hub is external and modelled from how the clients use it: one agent *)
(* per client id; a registration of a client id that is taken is answered  *)
(* with 409, or accepted when the keys agree; a challenge is verified with *)
(* the signing key of the agent. A call succeeds, fails, or takes effect   *)
(* while its response is lost.                                             *)
(***************************************************************************)
EXTENDS Integers, FiniteSets

CONSTANTS
    Configs,        \* the configurations a process may be started with:
                    \* [hub, client, descriptor, password, autoSync]
    RandomIds,      \* what randomClientId() may return
    None,
    Retries,        \* retries of retryWithBackoff()
    MaxFailures     \* bound on hub calls and file writes that do not succeed

Clients == RandomIds \cup ({c.client : c \in Configs} \ {None})

ASSUME ConfigsAssumption ==
    Configs \subseteq [hub: {"off", "presence", "on"}, client: Clients \cup {None},
                       descriptor: STRING, password: BOOLEAN, autoSync: BOOLEAN]
ASSUME BoundsAssumption == Retries \in Nat /\ MaxFailures \in Nat
ASSUME NoneAssumption ==          \* null is no client id and none of the objects below
    /\ None \notin RandomIds
    /\ None \notin [client: Clients, enc: Nat, signing: Nat]
    /\ None \notin [agent: Nat, client: Clients, enc: Nat, signing: Nat,
                   descriptor: STRING \X Clients \X Nat \X Nat]
    /\ None \notin [id: Nat, signing: Nat, online: BOOLEAN, profile: BOOLEAN]

VARIABLES
    identity,       \* a2a-identity.json: [client, enc, signing]; signing 0: an old file
    registration,   \* a2a-registration.json: [agent, client, enc, signing, descriptor]
    agents,         \* hub: the agent of each client id: [id, signing, online, profile]
    users,          \* hub: agents that have a user for the web login
    nextAgent,      \* hub: the next agent id
    config,         \* the configuration of this process
    startup,        \* hubStartupPromise: what it awaits, "none" or "done"
    own,            \* the identity the start-up works with
    attempt,        \* attempts of the call under retryWithBackoff()
    agentId,        \* the agent id the start-up obtained
    clean,          \* the start-up met no failure so far
    nextKey,        \* the next key pair
    failures        \* calls and writes that did not succeed

hubVars     == <<agents, users, nextAgent>>
fileVars    == <<identity, registration>>
startupVars == <<startup, own, attempt, agentId, clean>>
registrationVars == <<hubVars, fileVars, startupVars, config, nextKey, failures>>

Keys == 0..(nextKey - 1)
Identities == [client: Clients, enc: Keys, signing: Keys]

(* A first start, or a start on the files of a version without signing keys. *)
RegistrationInit ==
    /\ identity \in {None} \cup [client: RandomIds, enc: {1}, signing: {0}]
    /\ registration = None
    /\ agents = [c \in Clients |-> None]
    /\ users = {}
    /\ nextAgent = 1
    /\ config \in Configs
    /\ startup = "none"
    /\ own = None
    /\ attempt = 0
    /\ agentId = 0
    /\ clean = TRUE
    /\ nextKey = 2
    /\ failures = 0

-----------------------------------------------------------------------------
(* Identity *)

(* randomClientId() never returns an id that is in use. *)
Unused == {r \in RandomIds :
              /\ agents[r] = None
              /\ identity # None => identity.client # r
              /\ registration # None => registration.client # r}

(* What loadOrCreateIdentity() may return and saves when it is new: the    *)
(* configured client id wins, missing signing keys are created.            *)
loadOrCreateIdentity(client) ==
    IF identity = None
    THEN {[client |-> c, enc |-> nextKey, signing |-> nextKey] :
             c \in IF client # None THEN {client} ELSE Unused}
    ELSE {[client  |-> IF client # None THEN client ELSE identity.client,
           enc     |-> identity.enc,
           signing |-> IF identity.signing = 0 THEN nextKey ELSE identity.signing]}

(* Mutant: a new identity is used but not saved. *)
SaveNothing(i) == UNCHANGED identity /\ nextKey' = nextKey + 1

saveIdentity(i) ==
    /\ identity' = i
    /\ nextKey' = IF nextKey \in {i.enc, i.signing} THEN nextKey + 1 ELSE nextKey

Fails == failures < MaxFailures /\ failures' = failures + 1 /\ clean' = FALSE

-----------------------------------------------------------------------------
(* runHubRegistration() *)

(* The descriptor names the identity and what the configuration publishes. *)
buildHubConnectionDescriptor(i) == <<config.descriptor, i.client, i.enc, i.signing>>

(* There is one hub, so the hubUrl of the registration is the configured   *)
(* one.                                                                    *)
sameRegistration(i) ==
    /\ registration # None
    /\ registration.client = i.client
    /\ registration.enc = i.enc
    /\ registration.signing = i.signing
    /\ registration.descriptor = buildHubConnectionDescriptor(i)

(* The start-up runs to its first call of the hub. *)
startHubLifecycle ==
    /\ config.hub # "off"
    /\ startup = "none"
    /\ attempt' = 0
    /\ \/ /\ config.hub = "presence"
          /\ startup' = "presence"
          /\ UNCHANGED <<own, fileVars, nextKey, clean, failures>>
       \/ /\ config.hub = "on"
          /\ \E i \in loadOrCreateIdentity(config.client) :
                /\ own' = i
                /\ saveIdentity(i)
                /\ startup' = IF sameRegistration(i) THEN "lookup" ELSE "register"
          /\ UNCHANGED <<registration, clean, failures>>
       \/ /\ config.hub = "on"
          /\ \A i \in loadOrCreateIdentity(config.client) : i # identity
          /\ Fails                                  \* saveIdentity() throws
          /\ startup' = "presence"
          /\ UNCHANGED <<own, fileVars, nextKey>>
    /\ UNCHANGED <<hubVars, config, agentId>>

(* The agent the hub holds has the signing key (hasMatchingSigningKey).    *)
(* Keys are ed25519 and active: the hub is not taken to suspend one.       *)
Confirmed(a) == a # None /\ a.id = registration.agent /\ a.signing = own.signing

(* The registration on disk is looked up at the hub. *)
lookupExisting ==
    /\ startup = "lookup"
    /\ \/ /\ startup' = IF Confirmed(agents[own.client]) THEN "presence" ELSE "register"
          /\ UNCHANGED <<clean, failures>>
       \/ Fails /\ startup' = "register"
    /\ UNCHANGED <<hubVars, fileVars, config, own, attempt, agentId, nextKey>>

RegistrationOf(id) ==
    [agent |-> id, client |-> own.client, enc |-> own.enc, signing |-> own.signing,
     descriptor |-> buildHubConnectionDescriptor(own)]

(* saveRegistration(), whose failure is only logged; the start-up goes on. *)
saveRegistration(id) ==
    /\ startup' = "presence"
    /\ \/ /\ registration' = RegistrationOf(id)
          /\ UNCHANGED <<clean, failures>>
       \/ Fails /\ UNCHANGED registration

(* Mutant: the call is repeated as long as it fails. *)
RetryForever(giveUp) == UNCHANGED <<attempt, startup>>

(* A call under retryWithBackoff() failed: it is repeated, or gives up. *)
RetryOr(giveUp) ==
    \/ attempt < Retries /\ attempt' = attempt + 1 /\ UNCHANGED startup
    \/ attempt = Retries /\ attempt' = 0 /\ startup' = giveUp

(* Hub: the client id is free, or its agent has the same or no signing key. *)
Accepts(c)   == agents[c] # None => agents[c].signing \in {0, own.signing}
Conflicts(c) == agents[c] # None /\ agents[c].signing # 0

Upsert(c) ==
    IF agents[c] = None
    THEN /\ agents' = [agents EXCEPT ![c] =
                          [id |-> nextAgent, signing |-> own.signing,
                           online |-> FALSE, profile |-> FALSE]]
         /\ nextAgent' = nextAgent + 1
    ELSE /\ agents' = [agents EXCEPT ![c].signing = own.signing]
         /\ UNCHANGED nextAgent

registerWithHub ==
    /\ startup = "register"
    /\ \/ /\ Accepts(own.client)
          /\ Upsert(own.client)
          /\ agentId' = agents'[own.client].id
          /\ attempt' = 0
          /\ \/ /\ config.password
                /\ startup' = "user"
                /\ UNCHANGED <<registration, clean, failures>>
             \/ ~config.password /\ saveRegistration(agentId')
       \/ /\ Conflicts(own.client)
          /\ RetryOr("conflict")
          /\ UNCHANGED <<agents, nextAgent, registration, agentId, clean, failures>>
       \/ /\ Fails
          /\ RetryOr("presence")
          /\ \/ Accepts(own.client) /\ Upsert(own.client)   \* the response is lost
             \/ UNCHANGED <<agents, nextAgent>>
          /\ UNCHANGED <<registration, agentId>>
    /\ UNCHANGED <<users, identity, config, own, nextKey>>

(* The web user: 409 counts as success, and a failure is only logged. *)
registerHubUser ==
    /\ startup = "user"
    /\ \/ /\ users' = users \cup {agentId}
          /\ attempt' = 0
          /\ saveRegistration(agentId)
       \/ /\ Fails
          /\ users' \in {users, users \cup {agentId}}
          /\ \/ attempt < Retries /\ attempt' = attempt + 1 /\ UNCHANGED <<startup, registration>>
             \/ /\ attempt = Retries
                /\ attempt' = 0
                /\ startup' = "presence"
                /\ registration' \in {registration, RegistrationOf(agentId)}
    /\ UNCHANGED <<agents, nextAgent, identity, config, own, agentId, nextKey>>

(* Mutant: a conflict keeps the agent id that is on disk. *)
KeepRegisteredId ==
    /\ startup = "conflict"
    /\ startup' = "presence"
    /\ UNCHANGED <<hubVars, fileVars, config, own, attempt, agentId, clean, nextKey, failures>>

(* After a conflict the agent that has the client id is taken for its own. *)
lookupConflict ==
    /\ startup = "conflict"
    /\ \/ /\ agents[own.client] # None
          /\ agentId' = agents[own.client].id
          /\ saveRegistration(agentId')
       \/ /\ agents[own.client] = None
          /\ startup' = "presence"
          /\ UNCHANGED <<registration, agentId, clean, failures>>
       \/ /\ Fails
          /\ startup' = "presence"
          /\ UNCHANGED <<registration, agentId>>
    /\ UNCHANGED <<hubVars, identity, config, own, attempt, nextKey>>

-----------------------------------------------------------------------------
(* Presence and profile *)

AgentWith(id) == {c \in Clients : agents[c] # None /\ agents[c].id = id}

setPresence(online) ==
    agents' = [c \in Clients |->
                  IF c \in AgentWith(registration.agent)
                  THEN [agents[c] EXCEPT !.online = online] ELSE agents[c]]

afterPresence == IF config.autoSync THEN "challenge" ELSE "done"

(* updatePresence("online"); without a registration there is no client. *)
updatePresence ==
    /\ startup = "presence"
    /\ startup' = afterPresence
    /\ \/ registration = None /\ UNCHANGED <<agents, clean, failures>>
       \/ registration # None /\ setPresence(TRUE) /\ UNCHANGED <<clean, failures>>
       \/ registration # None /\ Fails /\ (setPresence(TRUE) \/ UNCHANGED agents)
    /\ UNCHANGED <<users, nextAgent, fileVars, config, own, attempt, agentId, nextKey>>

(* syncHubProfile() to the challenge of getHubBearerToken(), which makes   *)
(* the client id of the registration the one of the identity file.         *)
requestChallenge ==
    /\ startup = "challenge"
    /\ \/ /\ registration = None \/ identity = None
          /\ startup' = "done"
          /\ UNCHANGED <<own, identity, nextKey, clean, failures>>
       \/ /\ registration # None /\ identity # None
          /\ \E i \in loadOrCreateIdentity(registration.client) :
                own' = i /\ saveIdentity(i)
          /\ LET a == agents[registration.client] IN
             \/ /\ startup' = IF a # None /\ a.id = registration.agent
                              THEN "verify" ELSE "done"
                /\ UNCHANGED <<clean, failures>>
             \/ Fails /\ startup' = "done"
    /\ UNCHANGED <<hubVars, registration, config, attempt, agentId>>

(* The hub verifies the signature with the agent's key and issues a token. *)
verifyChallenge ==
    /\ startup = "verify"
    /\ LET a == agents[registration.client] IN
       \/ /\ startup' = IF /\ a # None
                           /\ a.id = registration.agent
                           /\ a.signing = own.signing
                        THEN "profile" ELSE "done"
          /\ UNCHANGED <<clean, failures>>
       \/ Fails /\ startup' = "done"
    /\ UNCHANGED <<hubVars, fileVars, config, own, attempt, agentId, nextKey>>

publish ==
    agents' = [c \in Clients |->
                  IF c \in AgentWith(registration.agent)
                  THEN [agents[c] EXCEPT !.profile = TRUE] ELSE agents[c]]

updateProfile ==
    /\ startup = "profile"
    /\ startup' = "done"
    /\ \/ publish /\ UNCHANGED <<clean, failures>>
       \/ Fails /\ (publish \/ UNCHANGED agents)
    /\ UNCHANGED <<users, nextAgent, fileVars, config, own, attempt, agentId, nextKey>>

HubStartupStep ==
    \/ lookupExisting
    \/ registerWithHub
    \/ registerHubUser
    \/ lookupConflict
    \/ updatePresence
    \/ requestChallenge
    \/ verifyChallenge
    \/ updateProfile
=============================================================================
