---------------------------- MODULE SharedContext ----------------------------
(***************************************************************************)
(* SharedContextStore (src/src/shared-context.ts): rooms, messages and     *)
(* artifacts kept as an append-only file of JSON lines. Every writing call *)
(* loads the whole file, checks the room against what it loaded, and       *)
(* queues its lines on writeQueue; calls interleave at each await.         *)
(*                                                                         *)
(* `log` holds the lines loadState() can parse. A write cut short leaves   *)
(* part of a line at the end of the file (`torn`): the next line is glued  *)
(* to it, and loadState() skips the result as malformed.                   *)
(* A call stands for the room, the message or the artifact it creates: ids *)
(* are random UUIDs. Reading calls load a state and change nothing.        *)
(***************************************************************************)
EXTENDS Integers, Sequences, FiniteSets

CONSTANTS Calls,          \* calls of createRoom, archiveRoom, postMessage, attachArtifact
          None,           \* no id
          MaxFailures     \* bound on failed writes and restarts

ASSUME CallsAssumption == IsFiniteSet(Calls) /\ None \notin Calls
ASSUME FailuresAssumption == MaxFailures \in Nat

VARIABLES
    log,            \* the events loadState() finds in the file, in order
    torn,           \* the file ends in part of a line
    writeQueue,     \* the writes chained on writeQueue, the running one first
    op,             \* the arguments of each call
    pc,             \* what each call awaits, or how it ended
    snap,           \* how much of log the call's loadState() returned
    failures        \* failed writes and restarts so far

vars == <<log, torn, writeQueue, op, pc, snap, failures>>

(* Arguments: the room, for an attachment the message it refers to, and    *)
(* for a message whether it comes with an artifact.                        *)
Ops == [kind : {"create", "archive", "post", "attach"}, room : Calls \cup {None},
        message : Calls \cup {None}, artifact : BOOLEAN]

Unused == [kind |-> "none", room |-> None, message |-> None, artifact |-> FALSE]

(* Ids come from earlier calls; None is one that names nothing. *)
Created(kind) == {c \in Calls : op[c].kind = kind} \cup {None}

Inputs(c) ==
    {o \in [kind : {"archive", "post", "attach"}, room : Created("create"),
            message : Created("post"), artifact : BOOLEAN] :
        /\ o.kind # "attach" => o.message = None
        /\ o.kind # "post" => ~o.artifact}
    \cup {[kind |-> "create", room |-> c, message |-> None, artifact |-> FALSE]}

-----------------------------------------------------------------------------
(* Events, and the state loadState() builds from them with applyEvent(). *)

Events == [type : {"room.created", "room.updated", "message.posted", "artifact.attached"},
           room : Calls, status : {"open", "archived", "none"},
           message : Calls \cup {None}, by : Calls]

RoomEvent(c, type, status) ==
    [type |-> type, room |-> op[c].room, status |-> status, message |-> None, by |-> c]
MessagePosted(c) ==
    [type |-> "message.posted", room |-> op[c].room, status |-> "none", message |-> c, by |-> c]
ArtifactAttached(c, m) ==
    [type |-> "artifact.attached", room |-> op[c].room, status |-> "none", message |-> m, by |-> c]

RoomEvents(n, r) == {i \in 1..n : log[i].room = r /\ log[i].type \in {"room.created", "room.updated"}}

(* state.rooms.get(r).status after the first n events: the last one wins.  *)
Status(n, r) ==
    IF RoomEvents(n, r) = {} THEN "none"
    ELSE log[CHOOSE i \in RoomEvents(n, r) : \A j \in RoomEvents(n, r) : j <= i].status

HasMessage(n, r, m) ==
    \E i \in 1..n : log[i].type = "message.posted" /\ log[i].room = r /\ log[i].message = m

-----------------------------------------------------------------------------
Init ==
    /\ log = <<>>
    /\ torn = FALSE
    /\ writeQueue = <<>>
    /\ op = [c \in Calls |-> Unused]
    /\ pc = [c \in Calls |-> "none"]
    /\ snap = [c \in Calls |-> 0]
    /\ failures = 0

(* Mutant: a write does not wait for the ones before it. *)
appendManyUnqueued(c, events) ==
    /\ writeQueue' = <<[call |-> c, left |-> events]>> \o writeQueue
    /\ pc' = [pc EXCEPT ![c] = "writing"]

(* The directory is there: a failing mkdirSync() is not modelled, nor a    *)
(* whole line that lacks only its newline.                                 *)
appendMany(c, events) ==
    /\ writeQueue' = Append(writeQueue, [call |-> c, left |-> events])
    /\ pc' = [pc EXCEPT ![c] = "writing"]

(* createRoom() with a usable title: it appends without loading. *)
createRoom(c, o) ==
    /\ o.kind = "create"
    /\ op' = [op EXCEPT ![c] = o]
    /\ appendMany(c, <<[type |-> "room.created", room |-> c, status |-> "open",
                        message |-> None, by |-> c]>>)

(* The other calls begin with `await this.loadState()`. *)
Call(c, o) ==
    /\ o.kind # "create"
    /\ op' = [op EXCEPT ![c] = o]
    /\ pc' = [pc EXCEPT ![c] = "loading"]
    /\ UNCHANGED writeQueue

Start(c, o) ==
    /\ pc[c] = "none"
    /\ createRoom(c, o) \/ Call(c, o)
    /\ UNCHANGED <<log, torn, snap, failures>>

(* loadState() reads to the end of the file: the call goes on later with   *)
(* what the file held then.                                                *)
loadState(c) ==
    /\ pc[c] = "loading"
    /\ pc' = [pc EXCEPT ![c] = "loaded"]
    /\ snap' = [snap EXCEPT ![c] = Len(log)]
    /\ UNCHANGED <<log, torn, writeQueue, op, failures>>

Loaded(c) == Status(snap[c], op[c].room)

(* Mutant: the status of the room is not looked at. *)
AdmittedAlways(c) ==
    /\ Loaded(c) # "none"
    /\ op[c].kind = "attach" /\ op[c].message # None
         => HasMessage(snap[c], op[c].room, op[c].message)

(* Mutant: the message an artifact refers to is not looked up. *)
AdmittedUnreferenced(c) ==
    /\ Loaded(c) # "none"
    /\ op[c].kind \in {"post", "attach"} => Loaded(c) # "archived"

(* The loaded state allows the call. *)
Admitted(c) ==
    /\ Loaded(c) # "none"
    /\ op[c].kind \in {"post", "attach"} => Loaded(c) # "archived"
    /\ op[c].kind = "attach" /\ op[c].message # None
         => HasMessage(snap[c], op[c].room, op[c].message)

archiveRoom(c) ==
    /\ op[c].kind = "archive"
    /\ appendMany(c, <<RoomEvent(c, "room.updated", "archived")>>)

(* The room is written back as it was loaded, but for updatedAt. *)
postMessage(c) ==
    /\ op[c].kind = "post"
    /\ appendMany(c, <<MessagePosted(c)>>
                       \o (IF op[c].artifact THEN <<ArtifactAttached(c, c)>> ELSE <<>>)
                       \o <<RoomEvent(c, "room.updated", Loaded(c))>>)

attachArtifact(c) ==
    /\ op[c].kind = "attach"
    /\ appendMany(c, <<ArtifactAttached(c, op[c].message)>>)

(* A call goes on after its loadState(). *)
Continue(c) ==
    /\ pc[c] = "loaded"
    /\ Admitted(c)
    /\ archiveRoom(c) \/ postMessage(c) \/ attachArtifact(c)
    /\ UNCHANGED <<log, torn, op, snap, failures>>

(* The call throws: what it loaded does not allow it, or its content or    *)
(* artifact is not acceptable.                                             *)
Throw(c) ==
    /\ pc[c] = "loaded"
    /\ ~Admitted(c) \/ op[c].kind \in {"post", "attach"}
    /\ pc' = [pc EXCEPT ![c] = "threw"]
    /\ UNCHANGED <<log, torn, writeQueue, op, snap, failures>>

-----------------------------------------------------------------------------
(* The file. *)

(* appendFile() gets one more line of the running write into the file; the *)
(* call resolves with the last one.                                        *)
WriteLine ==
    LET w == Head(writeQueue) IN
    /\ writeQueue # <<>>
    /\ log' = IF torn THEN log ELSE Append(log, Head(w.left))
    /\ torn' = FALSE
    /\ IF Len(w.left) = 1
       THEN /\ writeQueue' = Tail(writeQueue)
            /\ pc' = [pc EXCEPT ![w.call] = "ok"]
       ELSE /\ writeQueue' = [writeQueue EXCEPT ![1].left = Tail(@)]
            /\ UNCHANGED pc
    /\ UNCHANGED <<op, snap, failures>>

(* Mutant: the chain is left rejected, so the writes behind it never run.  *)
WriteFailsForGood ==
    /\ writeQueue # <<>>
    /\ failures < MaxFailures
    /\ failures' = failures + 1
    /\ pc' = [pc EXCEPT ![Head(writeQueue).call] = "threw"]
    /\ torn' \in {torn, TRUE}
    /\ writeQueue' = <<>>
    /\ UNCHANGED <<log, op, snap>>

(* appendFile() fails, possibly in the middle of a line: the call throws   *)
(* and `write.catch(() => {})` lets the next write run.                    *)
WriteFails ==
    /\ writeQueue # <<>>
    /\ failures < MaxFailures
    /\ failures' = failures + 1
    /\ pc' = [pc EXCEPT ![Head(writeQueue).call] = "threw"]
    /\ torn' \in {torn, TRUE}
    /\ writeQueue' = Tail(writeQueue)
    /\ UNCHANGED <<log, op, snap>>

InProgress(c) == pc[c] \in {"loading", "loaded", "writing"}

(* The gateway dies and is started again on the same file. *)
Restart ==
    /\ failures < MaxFailures
    /\ failures' = failures + 1
    /\ pc' = [c \in Calls |-> IF InProgress(c) THEN "lost" ELSE pc[c]]
    /\ torn' \in IF writeQueue = <<>> THEN {torn} ELSE {torn, TRUE}
    /\ writeQueue' = <<>>
    /\ UNCHANGED <<log, op, snap>>

Next ==
    \/ \E c \in Calls : \/ \E o \in Inputs(c) : Start(c, o)
                        \/ loadState(c) \/ Continue(c) \/ Throw(c)
    \/ WriteLine
    \/ WriteFails
    \/ Restart

Spec == Init /\ [][Next]_vars

(* Reading a local file and appending to it come to an end. *)
Fairness ==
    /\ \A c \in Calls : WF_vars(loadState(c)) /\ WF_vars(Continue(c) \/ Throw(c))
    /\ WF_vars(WriteLine \/ WriteFails)

LiveSpec == Spec /\ Fairness

-----------------------------------------------------------------------------
(* Properties. *)

TypeOK ==
    /\ log \in Seq(Events)
    /\ torn \in BOOLEAN
    /\ writeQueue \in Seq([call : Calls, left : Seq(Events) \ {<<>>}])
    /\ op \in [Calls -> Ops \cup {Unused}]
    /\ pc \in [Calls -> {"none", "loading", "loaded", "writing", "ok", "threw", "lost"}]
    /\ snap \in [Calls -> Nat]
    /\ \A c \in Calls : snap[c] <= Len(log)
    /\ failures \in 0..MaxFailures

Content(e) == e.type \in {"message.posted", "artifact.attached"}

(* Every message and artifact in the file was let in by a load in which    *)
(* its room existed and was open, and that load came before it: no write   *)
(* failure or restart, and no order of concurrent calls, stores content    *)
(* for a room its writer had not seen open.                                *)
WritesSawOpenRoom ==
    \A i \in DOMAIN log :
        Content(log[i]) => /\ snap[log[i].by] < i
                           /\ Status(snap[log[i].by], log[i].room) = "open"

(* An artifact that names a message comes after that message in the file,  *)
(* in the same room, so every replay finds what it refers to. (A line torn *)
(* by a failed write may take the message with it and leave the artifact.) *)
ArtifactsFollowMessages ==
    failures = 0 =>
        \A i \in DOMAIN log :
            log[i].type = "artifact.attached" /\ log[i].message # None
                => HasMessage(i - 1, log[i].room, log[i].message)

EventsOf(c) == {i \in DOMAIN log : log[i].by = c}

(* How many lines a completed call writes. *)
Lines(c) == IF op[c].kind # "post" THEN 1 ELSE IF op[c].artifact THEN 3 ELSE 2

Complete(c) == \E i \in 0..Len(log) : EventsOf(c) = (i + 1)..(i + Lines(c))

(* A call that has resolved has all its lines in the file, next to each    *)
(* other whatever else was being written, but for one call at most for     *)
(* every failed write or restart: the one whose first line is glued to     *)
(* what was left of a torn line.                                           *)
AcknowledgedIsStored ==
    Cardinality({c \in Calls : pc[c] = "ok" /\ ~Complete(c)}) <= failures

(* A room whose archiving has been acknowledged is archived, whatever      *)
(* calls were in progress: it takes no more writes. Not so in the code:    *)
(* README, Divergences.                                                    *)
ArchivedIsReadOnly ==
    \A c \in Calls : op[c].kind = "archive" /\ pc[c] = "ok"
                        => Status(Len(log), op[c].room) = "archived"

(* Every call ends, though writes before it fail and the gateway restarts. *)
EveryCallEnds == \A c \in Calls : InProgress(c) ~> ~InProgress(c)
=============================================================================
