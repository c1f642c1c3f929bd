------------------------------ MODULE TaskStore ------------------------------
(***************************************************************************)
(* FileTaskStore (src/src/task-store.ts): one JSON file per task. save()   *)
(* waits for the directory, writes a temporary file named after the task   *)
(* and the millisecond, and renames it over the task's file.               *)
(*                                                                         *)
(* The callers are external: the request handlers of the A2A SDK save a    *)
(* task on every event of its bus, and the handler of a request and the    *)
(* one of a cancellation may save the same task at once. Events of a task  *)
(* may follow its terminal one (a canceled task keeps publishing), but not *)
(* for long.                                                               *)
(***************************************************************************)
EXTENDS Integers, FiniteSets

CONSTANTS
    Tasks,
    Savers,         \* calls of save() that may overlap
    States,         \* the task states that are saved
    None,           \* no timestamp
    Absent, Torn,   \* no file; a file that is no whole JSON document
    Linger,         \* how long a finished task may still be saved, and how long
                    \* mkdir and the write and rename of a file may each last
    MaxTime,        \* bound on the clock
    MaxSaves,       \* bound on the saves of a task
    MaxFailures     \* bound on file operations that fail

ASSUME StoreAssumption ==
    {Linger, MaxTime, MaxSaves, MaxFailures} \subseteq Nat /\ Linger > 0

VARIABLES
    file,           \* what each task's file holds
    tmp,            \* the temporary files of each task, by millisecond
    dirReady,       \* the directory: "none", "pending" or "ready"
    saver,          \* what each call of save() awaits
    saving,         \* the task, the version and the millisecond of each call
    acked,          \* the last version of each task whose save() resolved
    collided,       \* tasks two calls used one temporary file for
    saves,
    clock,
    failures

storeVars == <<file, tmp, dirReady, saver, saving, acked, collided, saves, clock, failures>>

Time == 0..MaxTime
TERMINAL_STATES == {"completed", "failed", "canceled", "rejected"}
Versions == [state: States, stamp: Time \cup {None}]

ASSUME FilesAssumption == Absent # Torn /\ Absent \notin Versions

Idle == [task |-> None, version |-> None, ms |-> 0]

StoreInit ==
    /\ file = [t \in Tasks |-> Absent]
    /\ tmp = [t \in Tasks |-> [m \in Time |-> Absent]]
    /\ dirReady = "none"
    /\ saver = [s \in Savers |-> "idle"]
    /\ saving = [s \in Savers |-> Idle]
    /\ acked = [t \in Tasks |-> Absent]
    /\ collided = {}
    /\ saves = [t \in Tasks |-> 0]
    /\ clock = 0
    /\ failures = 0

Fails == failures < MaxFailures /\ failures' = failures + 1

Finished(v) == v \in Versions /\ v.state \in TERMINAL_STATES

-----------------------------------------------------------------------------
(* save() *)

(* The SDK saves a task it knows, not a finished one of long ago. *)
Wanted(t) ==
    /\ saves[t] < MaxSaves
    /\ \A v \in {acked[t]} \cup {saving[s].version : s \in {x \in Savers : saving[x].task = t}} :
          Finished(v) /\ v.stamp # None => clock - v.stamp < Linger

(* save() joins mkdir, or begins it. *)
save(s, t, v) ==
    /\ saver[s] = "idle"
    /\ Wanted(t)
    /\ v.stamp \in {clock, None}
    /\ saver' = [saver EXCEPT ![s] = "dir"]
    /\ saving' = [saving EXCEPT ![s] = [task |-> t, version |-> v, ms |-> clock]]
    /\ saves' = [saves EXCEPT ![t] = @ + 1]
    /\ dirReady' = IF dirReady = "none" THEN "pending" ELSE dirReady
    /\ UNCHANGED <<file, tmp, acked, collided, clock, failures>>

End(ended) ==
    /\ saver' = [s \in Savers |-> IF s \in ended THEN "idle" ELSE saver[s]]
    /\ saving' = [s \in Savers |-> IF s \in ended THEN Idle ELSE saving[s]]

(* mkdir ends; when it fails every save that waits rejects, and the next   *)
(* one tries again.                                                        *)
ensureDir ==
    /\ dirReady = "pending"
    /\ \/ dirReady' = "ready" /\ UNCHANGED <<saver, saving, failures>>
       \/ Fails /\ dirReady' = "none" /\ End({s \in Savers : saver[s] = "dir"})
    /\ UNCHANGED <<file, tmp, acked, collided, saves, clock>>

SameTmp(s) ==
    {x \in Savers \ {s} : /\ saver[x] \in {"opened", "written"}
                          /\ saving[x].task = saving[s].task
                          /\ saving[x].ms = clock}

(* writeFile() opens the temporary file, which empties it. *)
open(s) ==
    /\ saver[s] = "dir"
    /\ dirReady = "ready"
    /\ saver' = [saver EXCEPT ![s] = "opened"]
    /\ saving' = [saving EXCEPT ![s].ms = clock]
    /\ tmp' = [tmp EXCEPT ![saving[s].task][clock] = Torn]
    /\ collided' = IF SameTmp(s) = {} THEN collided ELSE collided \cup {saving[s].task}
    /\ UNCHANGED <<file, dirReady, acked, saves, clock, failures>>

(* What a file of which two writers share the inode may come to hold. *)
Content(s) ==
    IF saving[s].task \in collided THEN {saving[s].version, Torn} ELSE {saving[s].version}

(* Mutant: the task's own file is written. *)
WriteInPlace(s) ==
    /\ saver[s] = "opened"
    /\ saver' = [saver EXCEPT ![s] = "written"]
    /\ file' = [file EXCEPT ![saving[s].task] = saving[s].version]
    /\ tmp' = [tmp EXCEPT ![saving[s].task][saving[s].ms] = saving[s].version]
    /\ UNCHANGED <<dirReady, saving, acked, collided, saves, clock, failures>>

(* It writes the payload. When another call has renamed the file already,  *)
(* the payload ends up in the task's file.                                 *)
write(s) ==
    LET t == saving[s].task IN
    /\ saver[s] = "opened"
    /\ saver' = [saver EXCEPT ![s] = "written"]
    /\ \E c \in Content(s) :
          IF tmp[t][saving[s].ms] # Absent
          THEN tmp' = [tmp EXCEPT ![t][saving[s].ms] = c] /\ UNCHANGED file
          ELSE file' = [file EXCEPT ![t] = c] /\ UNCHANGED tmp
    /\ UNCHANGED <<dirReady, saving, acked, collided, saves, clock, failures>>

(* writeFile() or rename() fails: the temporary file stays. *)
writeFails(s) ==
    /\ saver[s] \in {"opened", "written"}
    /\ Fails
    /\ End({s})
    /\ UNCHANGED <<file, tmp, dirReady, acked, collided, saves, clock>>

(* rename() replaces the task's file and save() resolves; or the temporary *)
(* file is gone, renamed by another call, and save() rejects.              *)
renameTmp(s) ==
    LET t == saving[s].task  m == saving[s].ms IN
    /\ saver[s] = "written"
    /\ End({s})
    /\ \/ /\ tmp[t][m] # Absent
          /\ file' = [file EXCEPT ![t] = tmp[t][m]]
          /\ tmp' = [tmp EXCEPT ![t][m] = Absent]
          /\ acked' = [acked EXCEPT ![t] = saving[s].version]
       \/ tmp[t][m] = Absent /\ UNCHANGED <<file, tmp, acked>>
    /\ UNCHANGED <<dirReady, collided, saves, clock, failures>>

StoreStep == ensureDir \/ \E s \in Savers : open(s) \/ write(s) \/ renameTmp(s)

-----------------------------------------------------------------------------
(* Time passes; no file operation takes longer than Linger. *)
Tick ==
    /\ clock < MaxTime
    /\ \A s \in Savers : saver[s] # "idle" => clock - saving[s].ms < Linger
    /\ clock' = clock + 1

(* The process ends: what is in memory is gone, the files stay. *)
CrashStore ==
    /\ clock < MaxTime
    /\ clock' = clock + 1
    /\ End(Savers)
    /\ dirReady' = "none"
    /\ UNCHANGED <<file, tmp, acked, collided, saves, failures>>
=============================================================================
