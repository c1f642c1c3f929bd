----------------------------- MODULE TaskCleanup -----------------------------
(***************************************************************************)
(* runTaskCleanup() (src/src/task-cleanup.ts) beside the saves of the task *)
(* store: it lists the task files, loads each task and deletes those that  *)
(* finished longer than ttlMs before the cleanup began. It is run at the   *)
(* start of the service and by an interval; a run that finds another one   *)
(* on the same store does nothing.                                         *)
(***************************************************************************)
EXTENDS TaskStore

CONSTANTS Runs,         \* runs of the cleanup that may overlap
          Ttl,          \* ttlMs
          MaxCrashes    \* bound on restarts of the process

(* The last save of a finished task is over before the task expires: it    *)
(* begins, waits for the directory and writes within Linger each.          *)
ASSUME TtlAssumption == Ttl \in Nat /\ Ttl >= 3 * Linger /\ MaxCrashes \in Nat

VARIABLES
    active,         \* the store is in ACTIVE_CLEANUPS
    run,            \* what each run awaits
    now,            \* when the run began
    taskIds,        \* tasks the run has still to look at
    current,        \* the task it is about to delete
    crashes

cleanupVars == <<active, run, now, taskIds, current, crashes>>
vars == <<storeVars, cleanupVars>>

Init ==
    /\ StoreInit
    /\ active = FALSE
    /\ run = [r \in Runs |-> "idle"]
    /\ now = [r \in Runs |-> 0]
    /\ taskIds = [r \in Runs |-> {}]
    /\ current = [r \in Runs |-> None]
    /\ crashes = 0

-----------------------------------------------------------------------------
runTaskCleanup(r) ==
    /\ run[r] = "idle"
    /\ ~active
    /\ active' = TRUE
    /\ run' = [run EXCEPT ![r] = "list"]
    /\ now' = [now EXCEPT ![r] = clock]
    /\ UNCHANGED <<storeVars, taskIds, current, crashes>>

(* The finally block. *)
Leave(r) ==
    /\ run' = [run EXCEPT ![r] = "idle"]
    /\ now' = [now EXCEPT ![r] = 0]
    /\ active' = FALSE

(* listAll() sees the task files, not the temporary ones; or fails. *)
listAll(r) ==
    /\ run[r] = "list"
    /\ \/ /\ taskIds' = [taskIds EXCEPT ![r] = {t \in Tasks : file[t] # Absent}]
          /\ run' = [run EXCEPT ![r] = "load"]
          /\ UNCHANGED <<active, now, failures>>
       \/ Fails /\ Leave(r) /\ UNCHANGED taskIds
    /\ UNCHANGED <<file, tmp, dirReady, saver, saving, acked, collided, saves, clock,
                   current, crashes>>

(* The task finished at least ttlMs before the run began. *)
Expires(v, at) == Finished(v) /\ v.stamp # None /\ at - v.stamp >= Ttl

(* What the run does with the next task. *)
Visit(r, t, expires) ==
    /\ run[r] = "load"
    /\ t \in taskIds[r]
    /\ taskIds' = [taskIds EXCEPT ![r] = @ \ {t}]
    /\ IF expires
       THEN /\ run' = [run EXCEPT ![r] = "delete"]
            /\ current' = [current EXCEPT ![r] = t]
       ELSE UNCHANGED <<run, current>>
    /\ UNCHANGED <<storeVars, active, now, crashes>>

(* Mutant: the state of the task does not matter. *)
LoadAnyState(r, t) ==
    Visit(r, t, file[t] \in Versions /\ file[t].stamp # None /\ now[r] - file[t].stamp >= Ttl)

(* Mutant: the age is compared in the wrong unit. *)
LoadInSeconds(r, t) == Visit(r, t, Finished(file[t]) /\ Expires(file[t], now[r] \div 1000))

(* load() of the next task: one that is gone, that is no JSON document or  *)
(* that does not expire is left alone.                                     *)
load(r, t) == Visit(r, t, Expires(file[t], now[r]))

(* So is one whose file cannot be read, until the next run.                *)
loadFails(r, t) ==
    /\ run[r] = "load"
    /\ t \in taskIds[r]
    /\ Fails
    /\ taskIds' = [taskIds EXCEPT ![r] = @ \ {t}]
    /\ UNCHANGED <<file, tmp, dirReady, saver, saving, acked, collided, saves, clock,
                   active, run, now, current, crashes>>

(* delete() unlinks whatever the task's file is by now, or fails. *)
delete(r) ==
    /\ run[r] = "delete"
    /\ run' = [run EXCEPT ![r] = "load"]
    /\ current' = [current EXCEPT ![r] = None]
    /\ \/ file' = [file EXCEPT ![current[r]] = Absent] /\ UNCHANGED failures
       \/ Fails /\ UNCHANGED file
    /\ UNCHANGED <<tmp, dirReady, saver, saving, acked, collided, saves, clock,
                   active, now, taskIds, crashes>>

finish(r) ==
    /\ run[r] = "load"
    /\ taskIds[r] = {}
    /\ UNCHANGED <<storeVars, taskIds, current, crashes>>
    /\ Leave(r)

CleanupStep(r) ==
    listAll(r) \/ (\E t \in Tasks : load(r, t) \/ loadFails(r, t)) \/ delete(r) \/ finish(r)

-----------------------------------------------------------------------------
Crash ==
    /\ crashes < MaxCrashes
    /\ crashes' = crashes + 1
    /\ CrashStore
    /\ active' = FALSE
    /\ run' = [r \in Runs |-> "idle"]
    /\ now' = [r \in Runs |-> 0]
    /\ taskIds' = [r \in Runs |-> {}]
    /\ current' = [r \in Runs |-> None]

TimePasses ==
    /\ Tick
    /\ UNCHANGED <<file, tmp, dirReady, saver, saving, acked, collided, saves, failures,
                   cleanupVars>>

Save == \E s \in Savers, t \in Tasks, v \in Versions : save(s, t, v) /\ UNCHANGED cleanupVars
Store == StoreStep /\ UNCHANGED cleanupVars
WriteFails == \E s \in Savers : writeFails(s) /\ UNCHANGED cleanupVars
Cleanup == \E r \in Runs : runTaskCleanup(r)

Next ==
    \/ Save
    \/ Store
    \/ WriteFails
    \/ Cleanup
    \/ \E r \in Runs : CleanupStep(r)
    \/ TimePasses
    \/ Crash

(* File operations end, the interval of the cleanup fires, time passes. *)
Fairness ==
    /\ WF_vars(Store)
    /\ \A r \in Runs : WF_vars(CleanupStep(r))
    /\ WF_vars(Cleanup)
    /\ WF_vars(TimePasses)

Spec == Init /\ [][Next]_vars /\ Fairness

-----------------------------------------------------------------------------
(* Properties *)

(* Every variable has its type. *)
TypeOK ==
    /\ file \in [Tasks -> Versions \cup {Absent, Torn}]
    /\ tmp \in [Tasks -> [Time -> Versions \cup {Absent, Torn}]]
    /\ dirReady \in {"none", "pending", "ready"}
    /\ saver \in [Savers -> {"idle", "dir", "opened", "written"}]
    /\ saving \in [Savers -> {Idle} \cup [task: Tasks, version: Versions, ms: Time]]
    /\ acked \in [Tasks -> Versions \cup {Absent}]
    /\ collided \subseteq Tasks
    /\ saves \in [Tasks -> 0..MaxSaves]
    /\ clock \in Time /\ failures \in 0..MaxFailures /\ crashes \in 0..MaxCrashes
    /\ active \in BOOLEAN
    /\ run \in [Runs -> {"idle", "list", "load", "delete"}]
    /\ now \in [Runs -> Time]
    /\ taskIds \in [Runs -> SUBSET Tasks]
    /\ current \in [Runs -> Tasks \cup {None}]

(* A task's file, unless it was deleted, is the last version that save()   *)
(* acknowledged, and whole, whatever crashes and failures come between.    *)
(* Not so when two calls of save() meet in one millisecond: they share the *)
(* temporary file.                                                         *)
FileIsLastSaved == \A t \in Tasks \ collided : file[t] \in {acked[t], Absent}

(* "Active tasks and tasks without a timestamp are always skipped"         *)
(* (task-cleanup.ts): what the cleanup unlinks is, at that moment, a       *)
(* finished task of ttlMs ago, although it looked at an earlier file. Not  *)
(* so when calls of save() met in one millisecond: the file may then be    *)
(* older than what was acknowledged, and a later save replace it before    *)
(* the unlink.                                                             *)
DeletesOnlyExpired ==
    [][\A t \in Tasks \ collided : file[t] # Absent /\ file'[t] = Absent
          => Expires(file[t], clock)]_vars

(* A finished task does not stay for ever: it is removed once it expired,  *)
(* unless its unlink failed or the clock of the model ran out.             *)
ExpiredIsRemoved ==
    \A t \in Tasks :
        Expires(file[t], clock) ~> (file[t] = Absent \/ ~Expires(file[t], clock))
=============================================================================
