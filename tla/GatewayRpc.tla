----------------------------- MODULE GatewayRpc -----------------------------
(***************************************************************************)
(* GatewayRpcConnection and dispatchViaGatewayRpc (src/src/executor.ts):   *)
(* one WebSocket conversation with the OpenClaw gateway, from connect() to *)
(* the answer of the agent.                                                *)
(*                                                                         *)
(* A connection is a record; each operator below is what one callback (a   *)
(* socket event, a message, a timer) makes of it, up to the next await of  *)
(* dispatchViaGatewayRpc. AgentExecutor holds the connections of the runs  *)
(* and turns the callbacks into steps.                                     *)
(***************************************************************************)
EXTENDS Naturals

(* at:        what dispatchViaGatewayRpc awaits, or how it ended           *)
(* device:    connect() offers the device identity, reconnect() does not   *)
(* ws:        the WebSocket of this.socket (or the one left behind)        *)
(* held:      this.socket is set and its listeners are attached            *)
(* challenge: the promise of awaitConnectChallenge()                       *)
(* handled:   somebody awaits that promise                                 *)
(* unhandled: it was rejected while nobody did                             *)
(* timers:    armed setTimeouts: "open", "challenge", and one per request  *)
(* pending:   methods in the pending map                                   *)
(* connected: connect() has returned                                       *)
Methods == {"connect", "agent", "chat.history"}

Waits == {"opening", "challenge"} \cup Methods
Ends  == {"returned", "threw"}

Connections ==
    [at : {"start"} \cup Waits \cup Ends, device : BOOLEAN,
     ws : {"none", "connecting", "open", "closed"}, held : BOOLEAN,
     challenge : {"none", "waiting", "resolved", "rejected"}, handled : BOOLEAN,
     unhandled : BOOLEAN, timers : SUBSET ({"open", "challenge"} \cup Methods),
     pending : SUBSET Methods, connected : BOOLEAN]

NewConnection ==
    [at |-> "start", device |-> TRUE, ws |-> "none", held |-> FALSE,
     challenge |-> "none", handled |-> FALSE, unhandled |-> FALSE,
     timers |-> {}, pending |-> {}, connected |-> FALSE]

-----------------------------------------------------------------------------
(* Pieces of the connection's methods. *)

(* rejectConnectChallenge(): a promise nobody awaits is left unhandled,    *)
(* unless the caller attaches its catch right after (caught).              *)
rejectConnectChallenge(g, caught) ==
    IF g.challenge = "waiting"
    THEN [g EXCEPT !.challenge = "rejected",
                   !.timers = @ \ {"challenge"},
                   !.unhandled = @ \/ (~g.handled /\ ~caught)]
    ELSE g

(* Mutant: the timers of the rejected requests stay armed. *)
rejectAllPendingArmed(g) == [g EXCEPT !.pending = {}]

rejectAllPending(g) == [g EXCEPT !.pending = {}, !.timers = @ \ g.pending]

(* Mutant: the listeners come off but the socket is not closed. *)
closeDetached(g) ==
    rejectAllPending(rejectConnectChallenge([g EXCEPT !.held = FALSE], FALSE))

close(g) ==
    rejectAllPending(rejectConnectChallenge([g EXCEPT !.held = FALSE, !.ws = "closed"], FALSE))

(* The dispatch ends. Only what follows connect() is inside the try block  *)
(* whose finally closes the connection.                                    *)
Finish(g, end) ==
    IF g.at \in {"agent", "chat.history"} THEN [close(g) EXCEPT !.at = end] ELSE [g EXCEPT !.at = end]

(* request(): the frame is sent, or the socket is no longer open and the   *)
(* promise rejects at once.                                                *)
Request(g, method) ==
    {[g EXCEPT !.at = method, !.pending = @ \cup {method}, !.timers = @ \cup {method}],
     Finish([g EXCEPT !.at = method], "threw")}

-----------------------------------------------------------------------------
(* Callbacks. *)

(* connect() and reconnect() up to their await of the open event. *)
Opens(g, device) ==
    [g EXCEPT !.at = "opening", !.device = device, !.ws = "connecting", !.held = TRUE,
              !.challenge = "waiting", !.handled = FALSE, !.timers = @ \cup {"open", "challenge"}]

reconnect(g) == Opens(close(g), FALSE)

(* onOpen: the challenge is awaited from here on; it may have timed out.   *)
OnOpen(g) ==
    LET opened == [g EXCEPT !.ws = "open", !.timers = @ \ {"open"}, !.handled = TRUE]
    IN  IF g.challenge = "rejected" THEN Finish(opened, "threw")
        ELSE [opened EXCEPT !.at = "challenge"]

(* onError, onClose or the open timer. connect() catches the rejected      *)
(* challenge; reconnect() does not.                                        *)
OpenFails(g, ws) ==
    Finish(rejectConnectChallenge([g EXCEPT !.ws = ws, !.timers = @ \ {"open"}], g.device), "threw")

(* Mutant: the wait is cleared and nobody is told. *)
ChallengeTimesOutSilently(g) == [g EXCEPT !.timers = @ \ {"challenge"}]

(* The 2 s timer, armed when the socket was created. *)
ChallengeTimesOut(g) ==
    LET rejected == rejectConnectChallenge(g, FALSE)
    IN  IF g.at = "challenge" THEN Finish(rejected, "threw") ELSE rejected

(* The connect.challenge event: connect() goes on to the connect request.  *)
ChallengeArrives(g) ==
    Request([g EXCEPT !.challenge = "resolved", !.timers = @ \ {"challenge"}], "connect")

(* handleMessage() takes a pending request out of the map. *)
Settle(g, method) == [g EXCEPT !.pending = @ \ {method}, !.timers = @ \ {method}]

(* The gateway's answer to connect. *)
ConnectAnswered(g, answer) ==
    LET settled == Settle(g, "connect") IN
    CASE answer = "ok" -> Request([settled EXCEPT !.connected = TRUE], "agent")
      [] answer = "pairing required" /\ g.device -> {reconnect(settled)}
      [] OTHER -> {Finish(settled, "threw")}

(* Its answer to agent: "accepted" is not final; a final one without text  *)
(* sends the dispatch to the chat history.                                 *)
AgentAnswered(g, answer) ==
    CASE answer = "accepted" -> {g}
      [] answer = "text" -> {Finish(Settle(g, "agent"), "returned")}
      [] answer = "ok" -> Request(Settle(g, "agent"), "chat.history")
      [] OTHER -> {Finish(Settle(g, "agent"), "threw")}

HistoryAnswered(g, answer) ==
    {Finish(Settle(g, "chat.history"), IF answer = "text" THEN "returned" ELSE "threw")}

(* The timer of a request. *)
RequestTimesOut(g, method) == Finish(Settle(g, method), "threw")

(* The close event of an open socket: what is awaited rejects. *)
SocketCloses(g) ==
    LET closed == rejectAllPending(rejectConnectChallenge([g EXCEPT !.ws = "closed"], FALSE))
    IN  IF g.at \in Waits THEN Finish(closed, "threw") ELSE closed
=============================================================================
