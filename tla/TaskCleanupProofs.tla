------------------------- MODULE TaskCleanupProofs -------------------------
(***************************************************************************)
(* What the task store and the cleanup guarantee for any number of tasks,  *)
(* overlapping saves, failing file operations and crashes.                 *)
(***************************************************************************)
EXTENDS TaskCleanup, TLAPS

Saving == [task: Tasks, version: Versions, ms: Time]

Active(s)  == saver[s] # "idle"
Writing(s) == saver[s] \in {"opened", "written"}

(* A call of save() that is under way has a task and a version, and is not *)
(* older than a file operation may last.                                   *)
SavesAreShort ==
    \A s \in Savers : Active(s) =>
        /\ saving[s] \in Saving
        /\ saving[s].ms <= clock /\ clock - saving[s].ms <= Linger

(* The temporary file of a call belongs to it alone, unless calls of its   *)
(* task collided, and holds its version once that is written.              *)
TmpIsOwned ==
    \A s \in Savers : Writing(s) /\ saving[s].task \notin collided =>
        /\ saver[s] = "opened" => tmp[saving[s].task][saving[s].ms] # Absent
        /\ saver[s] = "written" => tmp[saving[s].task][saving[s].ms] = saving[s].version
        /\ \A x \in Savers \ {s} :
              Writing(x) /\ saving[x].task = saving[s].task => saving[x].ms # saving[s].ms

(* The version is of a task that finished at a known time. *)
Stamped(v) == Finished(v) /\ v.stamp # None

(* How long after the end of its task a call may begin its operation.      *)
Grace(s) == IF saver[s] = "dir" THEN Linger ELSE 2 * Linger

(* No call of save() is left when a version its task has, or is about to   *)
(* have, expires.                                                          *)
SavesAreTimely ==
    \A s \in Savers : Active(s) =>
        /\ Stamped(acked[saving[s].task])
              => saving[s].ms - acked[saving[s].task].stamp < Grace(s)
        /\ \A x \in Savers : Active(x) /\ saving[x].task = saving[s].task
                               /\ Stamped(saving[x].version)
              => saving[s].ms - saving[x].version.stamp < Grace(s)

(* One run of the cleanup at a time; what it is about to delete expired    *)
(* when it began.                                                          *)
OneRun ==
    \A r \in Runs : run[r] # "idle" =>
        /\ active
        /\ now[r] <= clock
        /\ \A o \in Runs : run[o] # "idle" => o = r
        /\ run[r] = "delete" =>
              /\ current[r] \in Tasks
              /\ current[r] \notin collided => Expires(file[current[r]], now[r])

(* The inductive invariant. *)
CleanupInv ==
    /\ TypeOK
    /\ SavesAreShort
    /\ TmpIsOwned
    /\ SavesAreTimely
    /\ OneRun
    /\ FileIsLastSaved

-----------------------------------------------------------------------------
(* Facts about the operators *)

(* A version with a known end has a stamp that is a time. *)
LEMMA StampIsTime ==
    ASSUME NEW v, Stamped(v)
    PROVE  v \in Versions /\ v.stamp \in Time /\ v.stamp \in Int
  BY StoreAssumption DEF Stamped, Finished, Versions, Time

(* What expired when the cleanup began has expired since. *)
LEMMA ExpiresForGood ==
    ASSUME NEW v, NEW a \in Int, NEW b \in Int, a <= b, Expires(v, a)
    PROVE  Expires(v, b) /\ Stamped(v)
  <1>1. Stamped(v) BY DEF Expires, Stamped
  <1>2. v.stamp \in Int BY <1>1, StampIsTime
  <1> QED BY <1>1, <1>2, TtlAssumption DEF Expires

(* What a call of save() that is under way works on. *)
LEMMA ActiveSaves ==
    ASSUME CleanupInv, NEW s \in Savers, Active(s)
    PROVE  /\ saving[s].task \in Tasks /\ saving[s].version \in Versions
           /\ saving[s].ms \in Time /\ saving[s].ms \in Int
           /\ saving[s].ms <= clock /\ clock - saving[s].ms <= Linger
  BY StoreAssumption DEF CleanupInv, SavesAreShort, Saving, Time

(* The clock is a number. *)
LEMMA ClockIsInt ==
    ASSUME TypeOK
    PROVE  clock \in Int /\ clock \in Time /\ Linger \in Int /\ Linger > 0
  BY StoreAssumption DEF TypeOK, Time

(* A save that ends, for whatever reason, leaves the others as they are.   *)
LEMMA EndIsTyped ==
    ASSUME TypeOK, NEW ended \in SUBSET Savers, End(ended)
    PROVE  /\ saver' \in [Savers -> {"idle", "dir", "opened", "written"}]
           /\ saving' \in [Savers -> {Idle} \cup [task: Tasks, version: Versions, ms: Time]]
           /\ \A s \in Savers : Active(s)' =>
                 Active(s) /\ s \notin ended /\ saver'[s] = saver[s] /\ saving'[s] = saving[s]
  BY DEF TypeOK, End, Active

(* The saves are as they were when only calls ended. *)
LEMMA FewerSaves ==
    ASSUME CleanupInv, UNCHANGED <<tmp, acked, collided, clock>>,
           \A s \in Savers : Active(s)' =>
               Active(s) /\ saver'[s] = saver[s] /\ saving'[s] = saving[s]
    PROVE  SavesAreShort' /\ TmpIsOwned' /\ SavesAreTimely'
  <1>1. SavesAreShort' BY DEF CleanupInv, SavesAreShort
  <1>2. TmpIsOwned' BY DEF CleanupInv, TmpIsOwned, Writing, Active
  <1>3. SavesAreTimely' BY DEF CleanupInv, SavesAreTimely, Grace
  <1> QED BY <1>1, <1>2, <1>3

(* A run goes on as long as its file stays and time moves on. *)
LEMMA RunsUnchanged ==
    ASSUME CleanupInv, UNCHANGED <<active, run, now, current>>,
           clock' \in Int, clock <= clock', collided \subseteq collided',
           \A t \in Tasks \ collided' : Stamped(file[t]) /\ clock - file[t].stamp >= Ttl
               => file'[t] = file[t]
    PROVE  OneRun'
  <1> SUFFICES ASSUME NEW r \in Runs, (run[r] # "idle")'
               PROVE  /\ active'
                      /\ now'[r] <= clock'
                      /\ \A o \in Runs : run'[o] # "idle" => o = r
                      /\ run'[r] = "delete" =>
                            /\ current'[r] \in Tasks
                            /\ current'[r] \notin collided' => Expires(file[current[r]], now[r])'
    BY DEF OneRun
  <1>0. run[r] # "idle" /\ now[r] \in Int /\ clock \in Int
    BY StoreAssumption DEF CleanupInv, TypeOK, Time
  <1>1. active' /\ now'[r] <= clock' /\ \A o \in Runs : run'[o] # "idle" => o = r
    BY <1>0 DEF CleanupInv, OneRun
  <1>2. ASSUME run'[r] = "delete"
        PROVE  /\ current'[r] \in Tasks
               /\ current'[r] \notin collided' => Expires(file[current[r]], now[r])'
    <2>1. current[r] \in Tasks BY <1>0, <1>2 DEF CleanupInv, OneRun
    <2>2. ASSUME current[r] \notin collided'
          PROVE  Expires(file[current[r]], now[r])'
      <3>1. Expires(file[current[r]], now[r]) /\ now[r] <= clock
        BY <1>0, <1>2, <2>2 DEF CleanupInv, OneRun
      <3>2. Expires(file[current[r]], clock) /\ Stamped(file[current[r]])
        BY <1>0, <3>1, ExpiresForGood
      <3>3. file'[current[r]] = file[current[r]]
        BY <2>1, <2>2, <3>2 DEF Expires
      <3> QED BY <3>1, <3>3 DEF Expires, Finished
    <2> QED BY <2>1, <2>2
  <1> QED BY <1>1, <1>2

-----------------------------------------------------------------------------
(* The steps of the store *)

(* Nothing is stored and nothing runs at first. *)
LEMMA CleanupInit == Init => CleanupInv
  <1> SUFFICES ASSUME Init PROVE CleanupInv
    OBVIOUS
  <1> USE StoreAssumption, TtlAssumption DEF Init, StoreInit
  <1>1. TypeOK
    <2>1. 0 \in Time /\ 0 \in 0..MaxSaves /\ 0 \in 0..MaxFailures /\ 0 \in 0..MaxCrashes
      BY DEF Time
    <2>2. /\ file \in [Tasks -> Versions \cup {Absent, Torn}]
          /\ tmp \in [Tasks -> [Time -> Versions \cup {Absent, Torn}]]
          /\ acked \in [Tasks -> Versions \cup {Absent}]
      OBVIOUS
    <2>3. /\ saver \in [Savers -> {"idle", "dir", "opened", "written"}]
          /\ saving \in [Savers -> {Idle} \cup [task: Tasks, version: Versions, ms: Time]]
      OBVIOUS
    <2>4. /\ run \in [Runs -> {"idle", "list", "load", "delete"}]
          /\ now \in [Runs -> Time]
          /\ taskIds \in [Runs -> SUBSET Tasks]
          /\ current \in [Runs -> Tasks \cup {None}]
          /\ active \in BOOLEAN
      BY <2>1
    <2> QED BY <2>1, <2>2, <2>3, <2>4 DEF TypeOK
  <1>2. SavesAreShort /\ TmpIsOwned /\ SavesAreTimely
    BY DEF SavesAreShort, TmpIsOwned, SavesAreTimely, Active, Writing
  <1>3. OneRun /\ FileIsLastSaved BY DEF OneRun, FileIsLastSaved
  <1> QED BY <1>1, <1>2, <1>3 DEF CleanupInv

(* save() begins only while what its task had, or is about to have, is     *)
(* fresh.                                                                  *)
LEMMA SaveStep ==
    ASSUME CleanupInv, NEW s \in Savers, NEW t \in Tasks, NEW v \in Versions,
           save(s, t, v), UNCHANGED cleanupVars
    PROVE  CleanupInv'
  <1> USE DEF save, cleanupVars
  <1>1. TypeOK /\ clock \in Int /\ clock \in Time /\ Linger \in Int /\ Linger > 0
    BY ClockIsInt DEF CleanupInv
  <1>2. /\ saver'[s] = "dir" /\ saving'[s] = [task |-> t, version |-> v, ms |-> clock]
        /\ \A x \in Savers \ {s} : saver'[x] = saver[x] /\ saving'[x] = saving[x]
        /\ ~Active(s)
    BY <1>1 DEF TypeOK, Active
  <1>3. TypeOK'
    <2>1. saver' \in [Savers -> {"idle", "dir", "opened", "written"}]
      BY <1>1 DEF TypeOK
    <2>2. saving' \in [Savers -> {Idle} \cup [task: Tasks, version: Versions, ms: Time]]
      BY <1>1 DEF TypeOK
    <2>3. saves' \in [Tasks -> 0..MaxSaves]
      BY <1>1, StoreAssumption DEF TypeOK, Wanted
    <2>4. dirReady' \in {"none", "pending", "ready"}
      BY <1>1 DEF TypeOK
    <2> QED BY <1>1, <2>1, <2>2, <2>3, <2>4 DEF TypeOK
  <1>4. SavesAreShort'
    BY <1>1, <1>2 DEF CleanupInv, SavesAreShort, Active, Saving
  <1>5. TmpIsOwned'
    BY <1>1, <1>2 DEF CleanupInv, TmpIsOwned, Writing, Active
  <1>6. SavesAreTimely'
    <2> SUFFICES ASSUME NEW y \in Savers, Active(y)'
                 PROVE  /\ Stamped(acked[saving'[y].task])
                              => saving'[y].ms - acked[saving'[y].task].stamp < Grace(y)'
                        /\ \A x \in Savers : Active(x)' /\ saving'[x].task = saving'[y].task
                                               /\ Stamped(saving'[x].version)
                              => saving'[y].ms - saving'[x].version.stamp < Grace(y)'
      BY DEF SavesAreTimely, Stamped, Finished
    <2>1. Grace(y)' \in Int /\ Grace(y)' > 0
      BY <1>1 DEF Grace
    <2>2. saving'[y].ms \in Int /\ saving'[y].ms <= clock
      BY <1>1, <1>2, ActiveSaves DEF Active
    <2>3. CASE y = s
      <3>1. Grace(y)' = Linger /\ saving'[y].ms = clock /\ saving'[y].task = t
        BY <2>3, <1>2 DEF Grace
      <3>2. Stamped(acked[t]) => clock - acked[t].stamp < Linger
        BY DEF Wanted, Stamped
      <3>3. ASSUME NEW x \in Savers, Active(x)', saving'[x].task = t, Stamped(saving'[x].version)
            PROVE  clock - saving'[x].version.stamp < Linger
        <4>1. CASE x = s
          <5>1. saving'[x].version = v BY <4>1, <1>2
          <5>2. v.stamp = clock BY <3>3, <5>1 DEF Stamped
          <5> QED BY <5>1, <5>2, <1>1
        <4>2. CASE x # s
          <5>1. saving'[x] = saving[x] BY <4>2, <1>2
          <5>2. saving[x].version \in {saving[z].version : z \in {w \in Savers : saving[w].task = t}}
            BY <3>3, <5>1
          <5> QED BY <3>3, <5>1, <5>2 DEF Wanted, Stamped
        <4> QED BY <4>1, <4>2
      <3> QED BY <3>1, <3>2, <3>3
    <2>4. CASE y # s
      <3>1. saver'[y] = saver[y] /\ saving'[y] = saving[y] /\ Active(y) /\ Grace(y)' = Grace(y)
        BY <2>4, <1>2 DEF Active, Grace
      <3>2. Stamped(acked[saving'[y].task])
               => saving'[y].ms - acked[saving'[y].task].stamp < Grace(y)'
        BY <3>1 DEF CleanupInv, SavesAreTimely
      <3>3. ASSUME NEW x \in Savers, Active(x)', saving'[x].task = saving'[y].task,
                   Stamped(saving'[x].version)
            PROVE  saving'[y].ms - saving'[x].version.stamp < Grace(y)'
        <4>1. CASE x = s
          <5>1. saving'[x].version = v BY <4>1, <1>2
          <5>2. v.stamp = clock BY <3>3, <5>1 DEF Stamped
          <5> QED BY <5>1, <5>2, <1>1, <2>1, <2>2
        <4>2. CASE x # s
          <5>1. saving'[x] = saving[x] /\ Active(x) BY <3>3, <4>2, <1>2 DEF Active
          <5> QED BY <3>1, <3>3, <5>1 DEF CleanupInv, SavesAreTimely
        <4> QED BY <4>1, <4>2
      <3> QED BY <3>2, <3>3
    <2> QED BY <2>3, <2>4
  <1>7. OneRun'
    BY <1>1, RunsUnchanged
  <1>8. FileIsLastSaved'
    BY DEF CleanupInv, FileIsLastSaved
  <1> QED BY <1>3, <1>4, <1>5, <1>6, <1>7, <1>8 DEF CleanupInv

(* mkdir ends, or the saves that wait for it reject. *)
LEMMA EnsureDirStep ==
    ASSUME CleanupInv, ensureDir, UNCHANGED cleanupVars
    PROVE  CleanupInv'
  <1> USE DEF ensureDir, cleanupVars
  <1>1. TypeOK /\ clock \in Int BY ClockIsInt DEF CleanupInv
  <1>2. /\ saver' \in [Savers -> {"idle", "dir", "opened", "written"}]
        /\ saving' \in [Savers -> {Idle} \cup [task: Tasks, version: Versions, ms: Time]]
        /\ \A s \in Savers : Active(s)' =>
              Active(s) /\ saver'[s] = saver[s] /\ saving'[s] = saving[s]
    <2>1. CASE UNCHANGED <<saver, saving>> BY <1>1, <2>1 DEF TypeOK, Active
    <2>2. CASE End({s \in Savers : saver[s] = "dir"}) BY <1>1, <2>2, EndIsTyped
    <2> QED BY <2>1, <2>2
  <1>3. TypeOK'
    <2>1. failures' \in 0..MaxFailures BY <1>1, StoreAssumption DEF TypeOK, Fails
    <2> QED BY <1>1, <1>2, <2>1 DEF TypeOK
  <1>4. SavesAreShort' /\ TmpIsOwned' /\ SavesAreTimely' BY <1>2, FewerSaves
  <1>5. OneRun' BY <1>1, RunsUnchanged
  <1>6. FileIsLastSaved' BY DEF CleanupInv, FileIsLastSaved
  <1> QED BY <1>3, <1>4, <1>5, <1>6 DEF CleanupInv

(* The write fails: the call ends, the temporary file stays. *)
LEMMA WriteFailsStep ==
    ASSUME CleanupInv, NEW s \in Savers, writeFails(s), UNCHANGED cleanupVars
    PROVE  CleanupInv'
  <1> USE DEF writeFails, cleanupVars
  <1>1. TypeOK /\ clock \in Int BY ClockIsInt DEF CleanupInv
  <1>2. /\ saver' \in [Savers -> {"idle", "dir", "opened", "written"}]
        /\ saving' \in [Savers -> {Idle} \cup [task: Tasks, version: Versions, ms: Time]]
        /\ \A x \in Savers : Active(x)' =>
              Active(x) /\ saver'[x] = saver[x] /\ saving'[x] = saving[x]
    BY <1>1, EndIsTyped
  <1>3. TypeOK'
    <2>1. failures' \in 0..MaxFailures BY <1>1, StoreAssumption DEF TypeOK, Fails
    <2> QED BY <1>1, <1>2, <2>1 DEF TypeOK
  <1>4. SavesAreShort' /\ TmpIsOwned' /\ SavesAreTimely' BY <1>2, FewerSaves
  <1>5. OneRun' BY <1>1, RunsUnchanged
  <1>6. FileIsLastSaved' BY DEF CleanupInv, FileIsLastSaved
  <1> QED BY <1>3, <1>4, <1>5, <1>6 DEF CleanupInv

(* The temporary file is opened: nobody else of the task has it, or the    *)
(* task counts as collided.                                                *)
LEMMA OpenStep ==
    ASSUME CleanupInv, NEW s \in Savers, open(s), UNCHANGED cleanupVars
    PROVE  CleanupInv'
  <1> USE DEF open, cleanupVars
  <1> DEFINE t == saving[s].task
  <1>1. TypeOK /\ clock \in Int /\ clock \in Time /\ Linger \in Int /\ Linger > 0
    BY ClockIsInt DEF CleanupInv
  <1>2. /\ Active(s) /\ t \in Tasks /\ saving[s].version \in Versions /\ saving[s].ms \in Int
        /\ clock - saving[s].ms <= Linger
    BY ActiveSaves DEF Active
  <1>3. saving[s] \in Saving BY <1>2 DEF CleanupInv, SavesAreShort
  <1>4. /\ saver'[s] = "opened"
        /\ saving'[s] = [task |-> t, version |-> saving[s].version, ms |-> clock]
        /\ \A x \in Savers \ {s} : saver'[x] = saver[x] /\ saving'[x] = saving[x]
    BY <1>1, <1>3 DEF TypeOK, Saving
  <1>5. /\ tmp'[t][clock] = Torn
        /\ \A u \in Tasks, m \in Time : u # t \/ m # clock => tmp'[u][m] = tmp[u][m]
        /\ tmp' \in [Tasks -> [Time -> Versions \cup {Absent, Torn}]]
    BY <1>1, <1>2 DEF TypeOK
  <1>6. collided' \subseteq Tasks /\ collided \subseteq collided'
        /\ (SameTmp(s) # {} => t \in collided')
    BY <1>1, <1>2 DEF TypeOK
  <1> HIDE DEF t
  <1>7. TypeOK'
    <2>1. saver' \in [Savers -> {"idle", "dir", "opened", "written"}]
      BY <1>1 DEF TypeOK
    <2>2. saving' \in [Savers -> {Idle} \cup [task: Tasks, version: Versions, ms: Time]]
      BY <1>1, <1>2, <1>4 DEF TypeOK
    <2> QED BY <1>1, <1>5, <1>6, <2>1, <2>2 DEF TypeOK
  <1>8. SavesAreShort'
    BY <1>1, <1>2, <1>4 DEF CleanupInv, SavesAreShort, Active, Saving
  <1>9. TmpIsOwned'
    <2> SUFFICES ASSUME NEW y \in Savers, Writing(y)', saving'[y].task \notin collided'
                 PROVE  /\ saver'[y] = "opened" => tmp'[saving'[y].task][saving'[y].ms] # Absent
                        /\ saver'[y] = "written"
                              => tmp'[saving'[y].task][saving'[y].ms] = saving'[y].version
                        /\ \A x \in Savers \ {y} : Writing(x)' /\ saving'[x].task = saving'[y].task
                              => saving'[x].ms # saving'[y].ms
      BY DEF TmpIsOwned
    <2>1. ASSUME t \notin collided', NEW x \in Savers \ {s}, Writing(x), saving[x].task = t
          PROVE  saving[x].ms # clock
      BY <1>6, <2>1 DEF SameTmp, Writing, t
    <2>2. CASE y = s
      <3>1. t \notin collided' /\ saving'[y].ms = clock /\ saving'[y].task = t BY <2>2, <1>4
      <3>2. saver'[y] = "opened" /\ tmp'[t][clock] # Absent
        BY <2>2, <1>4, <1>5, FilesAssumption
      <3>3. \A x \in Savers \ {y} : Writing(x)' /\ saving'[x].task = t => saving'[x].ms # clock
        BY <2>1, <2>2, <3>1, <1>4 DEF Writing
      <3> QED BY <3>1, <3>2, <3>3
    <2>3. CASE y # s
      <3>1. saver'[y] = saver[y] /\ saving'[y] = saving[y] /\ Writing(y) /\ Active(y)
        BY <2>3, <1>4 DEF Writing, Active
      <3>2. saving[y].task \in Tasks /\ saving[y].ms \in Time BY <3>1, ActiveSaves
      <3>3. saving[y].task \notin collided BY <1>6, <3>1
      <3>4. saving[y].task = t => saving[y].ms # clock BY <2>1, <2>3, <3>1
      <3>5. tmp'[saving[y].task][saving[y].ms] = tmp[saving[y].task][saving[y].ms]
        BY <1>5, <3>2, <3>4
      <3>6. \A x \in Savers \ {y} : Writing(x)' /\ saving'[x].task = saving[y].task
               => saving'[x].ms # saving[y].ms
        BY <1>4, <3>1, <3>3, <3>4 DEF CleanupInv, TmpIsOwned, Writing
      <3> QED BY <3>1, <3>3, <3>5, <3>6 DEF CleanupInv, TmpIsOwned
    <2> QED BY <2>2, <2>3
  <1>10. SavesAreTimely'
    <2> SUFFICES ASSUME NEW y \in Savers, Active(y)'
                 PROVE  /\ Stamped(acked[saving'[y].task])
                              => saving'[y].ms - acked[saving'[y].task].stamp < Grace(y)'
                        /\ \A x \in Savers : Active(x)' /\ saving'[x].task = saving'[y].task
                                               /\ Stamped(saving'[x].version)
                              => saving'[y].ms - saving'[x].version.stamp < Grace(y)'
      BY DEF SavesAreTimely, Stamped, Finished
    <2>1. Active(y) /\ saving'[y].task = saving[y].task
      BY <1>2, <1>4 DEF Active, t
    <2>2. \A x \in Savers : Active(x)' => /\ Active(x) /\ saving'[x].task = saving[x].task
                                          /\ saving'[x].version = saving[x].version
      BY <1>2, <1>4 DEF Active, t
    <2>3. ASSUME NEW v, Stamped(v), saving[y].ms - v.stamp < Grace(y)
          PROVE  saving'[y].ms - v.stamp < Grace(y)'
      <3>1. v.stamp \in Int BY <2>3, StampIsTime
      <3>2. CASE y = s
        <4>1. Grace(y) = Linger /\ Grace(y)' = 2 * Linger /\ saving'[y].ms = clock
          BY <3>2, <1>4 DEF Grace
        <4> QED BY <1>1, <1>2, <2>3, <3>1, <3>2, <4>1
      <3>3. CASE y # s BY <1>4, <2>3, <3>3 DEF Grace
      <3> QED BY <3>2, <3>3
    <2>4. Stamped(acked[saving[y].task])
             => saving[y].ms - acked[saving[y].task].stamp < Grace(y)
      BY <2>1 DEF CleanupInv, SavesAreTimely
    <2>5. \A x \in Savers : Active(x) /\ saving[x].task = saving[y].task
                              /\ Stamped(saving[x].version)
             => saving[y].ms - saving[x].version.stamp < Grace(y)
      BY <2>1 DEF CleanupInv, SavesAreTimely
    <2> QED BY <2>1, <2>2, <2>3, <2>4, <2>5
  <1>11. OneRun'
    BY <1>1, <1>6, RunsUnchanged
  <1>12. FileIsLastSaved'
    BY <1>6 DEF CleanupInv, FileIsLastSaved
  <1> QED BY <1>7, <1>8, <1>9, <1>10, <1>11, <1>12 DEF CleanupInv

(* The payload is written: into the temporary file that is the call's own, *)
(* unless its task collided.                                               *)
LEMMA WriteStep ==
    ASSUME CleanupInv, NEW s \in Savers, write(s), UNCHANGED cleanupVars
    PROVE  CleanupInv'
  <1> USE DEF write, cleanupVars
  <1> DEFINE t == saving[s].task
             m == saving[s].ms
  <1>1. TypeOK /\ clock \in Int BY ClockIsInt DEF CleanupInv
  <1>2. Active(s) /\ t \in Tasks /\ saving[s].version \in Versions /\ m \in Time
    BY ActiveSaves DEF Active
  <1>3. PICK c \in Content(s) :
           IF tmp[t][m] # Absent
           THEN tmp' = [tmp EXCEPT ![t][m] = c] /\ UNCHANGED file
           ELSE file' = [file EXCEPT ![t] = c] /\ UNCHANGED tmp
    OBVIOUS
  <1>4. c \in Versions \cup {Torn} /\ (t \notin collided => c = saving[s].version)
    BY <1>2 DEF Content
  <1>5. t \notin collided => tmp[t][m] # Absent
    BY DEF CleanupInv, TmpIsOwned, Writing
  <1>6. /\ t \notin collided => tmp'[t][m] = saving[s].version
        /\ \A u \in Tasks, k \in Time : u # t \/ k # m => tmp'[u][k] = tmp[u][k]
        /\ tmp' \in [Tasks -> [Time -> Versions \cup {Absent, Torn}]]
    <2>1. CASE tmp[t][m] # Absent
      <3>1. tmp \in [Tasks -> [Time -> Versions \cup {Absent, Torn}]] BY <1>1 DEF TypeOK
      <3>2. tmp' = [tmp EXCEPT ![t][m] = c] BY <1>3, <2>1
      <3> HIDE DEF t, m
      <3> QED BY <1>2, <1>4, <3>1, <3>2
    <2>2. CASE tmp[t][m] = Absent
      BY <1>1, <1>3, <1>5, <2>2 DEF TypeOK
    <2> QED BY <2>1, <2>2
  <1>7. /\ file' \in [Tasks -> Versions \cup {Absent, Torn}]
        /\ \A u \in Tasks \ collided : file'[u] = file[u]
    BY <1>1, <1>2, <1>3, <1>4, <1>5 DEF TypeOK
  <1>8. /\ saver'[s] = "written" /\ saver[s] = "opened"
        /\ \A x \in Savers \ {s} : saver'[x] = saver[x]
        /\ saver' \in [Savers -> {"idle", "dir", "opened", "written"}]
    BY <1>1 DEF TypeOK
  <1> HIDE DEF t, m
  <1>9. TypeOK' BY <1>1, <1>6, <1>7, <1>8 DEF TypeOK
  <1>10. SavesAreShort'
    BY <1>8 DEF CleanupInv, SavesAreShort, Active
  <1>11. TmpIsOwned'
    <2> SUFFICES ASSUME NEW y \in Savers, Writing(y)', saving[y].task \notin collided
                 PROVE  /\ saver'[y] = "opened" => tmp'[saving[y].task][saving[y].ms] # Absent
                        /\ saver'[y] = "written"
                              => tmp'[saving[y].task][saving[y].ms] = saving[y].version
                        /\ \A x \in Savers \ {y} : Writing(x)' /\ saving[x].task = saving[y].task
                              => saving[x].ms # saving[y].ms
      BY DEF TmpIsOwned
    <2>1. \A x \in Savers : Writing(x)' => Writing(x) /\ Active(x)
      BY <1>8 DEF Writing, Active
    <2>2. \A x \in Savers \ {y} : Writing(x)' /\ saving[x].task = saving[y].task
             => saving[x].ms # saving[y].ms
      BY <2>1 DEF CleanupInv, TmpIsOwned
    <2>3. CASE y = s
      BY <1>6, <1>8, <2>2, <2>3 DEF t, m
    <2>4. CASE y # s
      <3>1. saving[y].task \in Tasks /\ saving[y].ms \in Time BY <2>1, ActiveSaves
      <3>2. saving[y].task = t => saving[y].ms # m
        BY <1>8, <2>1, <2>4 DEF CleanupInv, TmpIsOwned, Writing, t, m
      <3>3. tmp'[saving[y].task][saving[y].ms] = tmp[saving[y].task][saving[y].ms]
        BY <1>6, <3>1, <3>2
      <3> QED BY <1>8, <2>1, <2>2, <2>4, <3>3 DEF CleanupInv, TmpIsOwned
    <2> QED BY <2>3, <2>4
  <1>12. SavesAreTimely'
    <2>1. \A x \in Savers : (Active(x)' => Active(x)) /\ Grace(x)' = Grace(x)
      BY <1>8 DEF Active, Grace
    <2> QED BY <2>1 DEF CleanupInv, SavesAreTimely, Stamped, Finished
  <1>13. OneRun'
    BY <1>1, <1>7, RunsUnchanged
  <1>14. FileIsLastSaved'
    BY <1>1, <1>7 DEF CleanupInv, FileIsLastSaved
  <1> QED BY <1>9, <1>10, <1>11, <1>12, <1>13, <1>14 DEF CleanupInv

(* A save that is under way never replaces a file that has expired: it     *)
(* would have begun too long after the end of its task.                    *)
LEMMA NoLateRename ==
    ASSUME CleanupInv, NEW s \in Savers, Active(s),
           NEW v, v \in {acked[saving[s].task], saving[s].version}, Stamped(v)
    PROVE  clock - v.stamp < Ttl
  <1>1. TypeOK /\ clock \in Int /\ Linger \in Int /\ Linger > 0
    BY ClockIsInt DEF CleanupInv
  <1>2. saving[s].ms \in Int /\ clock - saving[s].ms <= Linger BY ActiveSaves
  <1>3. v.stamp \in Int BY StampIsTime
  <1>4. saving[s].ms - v.stamp < Grace(s) BY DEF CleanupInv, SavesAreTimely
  <1>5. Grace(s) \in Int /\ Grace(s) <= 2 * Linger BY <1>1 DEF Grace
  <1>6. saving[s].ms - v.stamp < 2 * Linger BY <1>1, <1>2, <1>3, <1>4, <1>5
  <1> QED BY <1>1, <1>2, <1>3, <1>6, TtlAssumption

(* The temporary file becomes the task's file: the version acknowledged.   *)
LEMMA RenameStep ==
    ASSUME CleanupInv, NEW s \in Savers, renameTmp(s), UNCHANGED cleanupVars
    PROVE  CleanupInv'
  <1> USE DEF renameTmp, cleanupVars
  <1> DEFINE t == saving[s].task
             m == saving[s].ms
  <1>1. TypeOK /\ clock \in Int BY ClockIsInt DEF CleanupInv
  <1>2. Active(s) /\ Writing(s) /\ t \in Tasks /\ saving[s].version \in Versions /\ m \in Time
    BY ActiveSaves DEF Active, Writing
  <1>3. /\ saver' \in [Savers -> {"idle", "dir", "opened", "written"}]
        /\ saving' \in [Savers -> {Idle} \cup [task: Tasks, version: Versions, ms: Time]]
        /\ \A x \in Savers : Active(x)' =>
              Active(x) /\ x # s /\ saver'[x] = saver[x] /\ saving'[x] = saving[x]
    BY <1>1, EndIsTyped
  <1>4. CASE tmp[t][m] = Absent /\ UNCHANGED <<file, tmp, acked>>
    <2>1. TypeOK' BY <1>1, <1>3, <1>4 DEF TypeOK
    <2>2. SavesAreShort' /\ TmpIsOwned' /\ SavesAreTimely' BY <1>3, <1>4, FewerSaves
    <2>3. OneRun' BY <1>1, <1>4, RunsUnchanged
    <2>4. FileIsLastSaved' BY <1>4 DEF CleanupInv, FileIsLastSaved
    <2> QED BY <2>1, <2>2, <2>3, <2>4 DEF CleanupInv
  <1>5. CASE /\ tmp[t][m] # Absent
             /\ file' = [file EXCEPT ![t] = tmp[t][m]]
             /\ tmp' = [tmp EXCEPT ![t][m] = Absent]
             /\ acked' = [acked EXCEPT ![t] = saving[s].version]
    <2>1. /\ \A u \in Tasks \ {t} : file'[u] = file[u] /\ acked'[u] = acked[u]
          /\ file'[t] = tmp[t][m] /\ acked'[t] = saving[s].version
          /\ file' \in [Tasks -> Versions \cup {Absent, Torn}]
          /\ acked' \in [Tasks -> Versions \cup {Absent}]
      <3> HIDE DEF t, m
      <3>0. tmp \in [Tasks -> [Time -> Versions \cup {Absent, Torn}]] BY <1>1 DEF TypeOK
      <3>1. tmp[t][m] \in Versions \cup {Absent, Torn} BY <1>2, <3>0
      <3>2. /\ file \in [Tasks -> Versions \cup {Absent, Torn}]
            /\ acked \in [Tasks -> Versions \cup {Absent}]
        BY <1>1 DEF TypeOK
      <3> QED BY <1>2, <1>5, <3>1, <3>2
    <2>2. /\ \A u \in Tasks, k \in Time : u # t \/ k # m => tmp'[u][k] = tmp[u][k]
          /\ tmp' \in [Tasks -> [Time -> Versions \cup {Absent, Torn}]]
      BY <1>1, <1>2, <1>5 DEF TypeOK
    <2>3. t \notin collided => tmp[t][m] = saving[s].version
      BY <1>2 DEF CleanupInv, TmpIsOwned
    <2>4. TypeOK' BY <1>1, <1>3, <2>1, <2>2 DEF TypeOK
    <2>5. SavesAreShort' BY <1>3 DEF CleanupInv, SavesAreShort
    <2>6. TmpIsOwned'
      <3> SUFFICES ASSUME NEW y \in Savers, Writing(y)', saving'[y].task \notin collided
                   PROVE  /\ saver'[y] = "opened" => tmp'[saving'[y].task][saving'[y].ms] # Absent
                          /\ saver'[y] = "written"
                                => tmp'[saving'[y].task][saving'[y].ms] = saving'[y].version
                          /\ \A x \in Savers \ {y} :
                                Writing(x)' /\ saving'[x].task = saving'[y].task
                                => saving'[x].ms # saving'[y].ms
        BY DEF TmpIsOwned
      <3>1. \A x \in Savers : Writing(x)' => /\ x # s /\ Writing(x) /\ Active(x)
                                             /\ saver'[x] = saver[x] /\ saving'[x] = saving[x]
        BY <1>3 DEF Writing, Active
      <3>2. saving[y].task \in Tasks /\ saving[y].ms \in Time BY <3>1, ActiveSaves
      <3>3. saving[y].task = t => saving[y].ms # m
        BY <1>2, <3>1 DEF CleanupInv, TmpIsOwned
      <3>4. tmp'[saving[y].task][saving[y].ms] = tmp[saving[y].task][saving[y].ms]
        BY <2>2, <3>2, <3>3
      <3>5. saving[y].task \notin collided /\ Writing(y) BY <3>1
      <3> QED BY <3>1, <3>4, <3>5 DEF CleanupInv, TmpIsOwned
    <2>7. SavesAreTimely'
      <3> SUFFICES ASSUME NEW y \in Savers, Active(y)'
                   PROVE  /\ Stamped(acked'[saving'[y].task])
                                => saving'[y].ms - acked'[saving'[y].task].stamp < Grace(y)'
                          /\ \A x \in Savers : Active(x)' /\ saving'[x].task = saving'[y].task
                                                 /\ Stamped(saving'[x].version)
                                => saving'[y].ms - saving'[x].version.stamp < Grace(y)'
        BY DEF SavesAreTimely, Stamped, Finished
      <3>1. Active(y) /\ saving'[y] = saving[y] /\ Grace(y)' = Grace(y) BY <1>3 DEF Grace
      <3>2. saving[y].task \in Tasks BY <3>1, ActiveSaves
      <3>3. ASSUME Stamped(acked'[saving[y].task])
            PROVE  saving[y].ms - acked'[saving[y].task].stamp < Grace(y)
        <4>1. CASE saving[y].task = t
          BY <1>2, <2>1, <3>1, <3>3, <4>1 DEF CleanupInv, SavesAreTimely
        <4>2. CASE saving[y].task # t
          BY <2>1, <3>1, <3>2, <3>3, <4>2 DEF CleanupInv, SavesAreTimely
        <4> QED BY <4>1, <4>2
      <3>4. \A x \in Savers : Active(x)' /\ saving'[x].task = saving[y].task
                                /\ Stamped(saving'[x].version)
               => saving[y].ms - saving'[x].version.stamp < Grace(y)
        BY <1>3, <3>1 DEF CleanupInv, SavesAreTimely
      <3> QED BY <3>1, <3>3, <3>4
    <2>8. OneRun'
      <3>1. ASSUME NEW u \in Tasks \ collided, Stamped(file[u]), clock - file[u].stamp >= Ttl
            PROVE  file'[u] = file[u]
        <4>1. file[u] # Absent BY <3>1, StampIsTime, FilesAssumption
        <4>2. file[u] = acked[u] BY <3>1, <4>1 DEF CleanupInv, FileIsLastSaved
        <4>3. u # t
          <5> SUFFICES ASSUME u = t PROVE FALSE OBVIOUS
          <5>1. clock - file[u].stamp < Ttl BY <1>2, <3>1, <4>2, NoLateRename
          <5>2. file[u].stamp \in Int BY <3>1, StampIsTime
          <5> QED BY <1>1, <3>1, <5>1, <5>2, TtlAssumption
        <4> QED BY <2>1, <4>3
      <3> QED BY <1>1, <3>1, RunsUnchanged
    <2>9. FileIsLastSaved'
      BY <2>1, <2>3 DEF CleanupInv, FileIsLastSaved
    <2> QED BY <2>4, <2>5, <2>6, <2>7, <2>8, <2>9 DEF CleanupInv
  <1> QED BY <1>4, <1>5

-----------------------------------------------------------------------------
(* The steps of the cleanup, of time and of crashes *)

(* The steps of a run leave the saves alone. *)
LEMMA CleanupSteps ==
    ASSUME CleanupInv, NEW r \in Runs,
           runTaskCleanup(r) \/ CleanupStep(r)
    PROVE  CleanupInv'
  <1>1. TypeOK /\ clock \in Int /\ clock \in Time /\ OneRun /\ FileIsLastSaved
    BY ClockIsInt DEF CleanupInv
  <1>2. UNCHANGED <<tmp, saver, saving, acked, collided, clock>> =>
           SavesAreShort' /\ TmpIsOwned' /\ SavesAreTimely'
    BY FewerSaves DEF Active
  <1>3. now \in [Runs -> Time] /\ now[r] \in Int /\ Absent \in Versions \cup {Absent, Torn}
    BY <1>1, StoreAssumption DEF TypeOK, Time
  <1>4. CASE runTaskCleanup(r)
    <2> USE <1>4 DEF runTaskCleanup, storeVars
    <2>1. TypeOK' BY <1>1 DEF TypeOK
    <2>2. OneRun' BY <1>1 DEF TypeOK, OneRun
    <2>3. FileIsLastSaved' BY <1>1 DEF FileIsLastSaved
    <2> QED BY <1>2, <2>1, <2>2, <2>3 DEF CleanupInv
  <1>5. CASE listAll(r)
    <2> USE <1>5 DEF listAll, Leave
    <2>1. TypeOK'
      <3>1. failures' \in 0..MaxFailures BY <1>1, StoreAssumption DEF TypeOK, Fails
      <3>2. now' \in [Runs -> Time]
        <4>1. 0 \in Time BY StoreAssumption DEF Time
        <4> QED BY <1>1, <4>1 DEF TypeOK
      <3>4. active' \in BOOLEAN BY <1>1 DEF TypeOK
      <3>3. /\ run' \in [Runs -> {"idle", "list", "load", "delete"}]
            /\ taskIds' \in [Runs -> SUBSET Tasks]
        BY <1>1 DEF TypeOK
      <3> QED BY <1>1, <3>1, <3>2, <3>3, <3>4 DEF TypeOK
    <2>2. OneRun' BY <1>1 DEF TypeOK, OneRun, Expires, Finished
    <2>3. FileIsLastSaved' BY <1>1 DEF FileIsLastSaved
    <2> QED BY <1>2, <2>1, <2>2, <2>3 DEF CleanupInv
  <1>6. ASSUME NEW t \in Tasks, load(r, t) PROVE CleanupInv'
    <2> USE <1>6 DEF load, Visit, storeVars
    <2>1. TypeOK' BY <1>1 DEF TypeOK
    <2>2. OneRun' BY <1>1 DEF TypeOK, OneRun, Expires, Finished
    <2>3. FileIsLastSaved' BY <1>1 DEF FileIsLastSaved
    <2> QED BY <1>2, <2>1, <2>2, <2>3 DEF CleanupInv
  <1>9. ASSUME NEW t \in Tasks, loadFails(r, t) PROVE CleanupInv'
    <2> USE <1>9 DEF loadFails
    <2>1. TypeOK'
      <3>1. failures' \in 0..MaxFailures BY <1>1, StoreAssumption DEF TypeOK, Fails
      <3>2. taskIds' \in [Runs -> SUBSET Tasks] BY <1>1 DEF TypeOK
      <3> QED BY <1>1, <3>1, <3>2 DEF TypeOK
    <2>2. OneRun' BY <1>1 DEF TypeOK, OneRun
    <2>3. FileIsLastSaved' BY <1>1 DEF FileIsLastSaved
    <2> QED BY <1>2, <2>1, <2>2, <2>3 DEF CleanupInv
  <1>7. CASE delete(r)
    <2> USE <1>7 DEF delete
    <2>1. TypeOK'
      <3>1. failures' \in 0..MaxFailures BY <1>1, StoreAssumption DEF TypeOK, Fails
      <3>2. file' \in [Tasks -> Versions \cup {Absent, Torn}] BY <1>1 DEF TypeOK
      <3> QED BY <1>1, <3>1, <3>2 DEF TypeOK
    <2>2. OneRun' BY <1>1 DEF TypeOK, OneRun
    <2>3. FileIsLastSaved' BY <1>1 DEF TypeOK, FileIsLastSaved
    <2> QED BY <1>2, <2>1, <2>2, <2>3 DEF CleanupInv
  <1>8. CASE finish(r)
    <2> USE <1>8 DEF finish, Leave, storeVars
    <2>1. TypeOK'
      <3>1. now' \in [Runs -> Time] BY <1>1, StoreAssumption DEF TypeOK, Time
      <3> QED BY <1>1, <3>1 DEF TypeOK
    <2>2. OneRun' BY <1>1 DEF TypeOK, OneRun
    <2>3. FileIsLastSaved' BY <1>1 DEF FileIsLastSaved
    <2> QED BY <1>2, <2>1, <2>2, <2>3 DEF CleanupInv
  <1> QED BY <1>4, <1>5, <1>6, <1>7, <1>8, <1>9 DEF CleanupStep

(* Time passes no call of save() by. *)
LEMMA TimeStep ==
    ASSUME CleanupInv, TimePasses
    PROVE  CleanupInv'
  <1> USE DEF TimePasses, Tick, cleanupVars
  <1>1. TypeOK /\ clock \in Int /\ Linger \in Int BY ClockIsInt DEF CleanupInv
  <1>2. clock' \in Time /\ clock' \in Int /\ clock <= clock'
    BY <1>1, StoreAssumption DEF TypeOK, Time
  <1>3. TypeOK' BY <1>1, <1>2 DEF TypeOK
  <1>4. SavesAreShort'
    <2> SUFFICES ASSUME NEW s \in Savers, Active(s)
                 PROVE  /\ saving[s] \in Saving
                        /\ saving[s].ms <= clock' /\ clock' - saving[s].ms <= Linger
      BY DEF SavesAreShort, Active
    <2>1. saving[s] \in Saving BY DEF CleanupInv, SavesAreShort
    <2>2. saving[s].ms \in Int /\ saving[s].ms <= clock BY ActiveSaves
    <2>3. clock - saving[s].ms < Linger BY DEF Active
    <2> QED BY <1>1, <1>2, <2>1, <2>2, <2>3
  <1>5. TmpIsOwned' /\ SavesAreTimely'
    BY DEF CleanupInv, TmpIsOwned, Writing, SavesAreTimely, Active, Grace
  <1>6. OneRun' BY <1>1, <1>2, RunsUnchanged
  <1>7. FileIsLastSaved' BY DEF CleanupInv, FileIsLastSaved
  <1> QED BY <1>3, <1>4, <1>5, <1>6, <1>7 DEF CleanupInv

(* A crash ends every call and every run and leaves the files. *)
LEMMA CrashStep ==
    ASSUME CleanupInv, Crash
    PROVE  CleanupInv'
  <1> USE DEF Crash, CrashStore
  <1>1. TypeOK /\ clock \in Int BY ClockIsInt DEF CleanupInv
  <1>2. /\ saver' \in [Savers -> {"idle", "dir", "opened", "written"}]
        /\ saving' \in [Savers -> {Idle} \cup [task: Tasks, version: Versions, ms: Time]]
        /\ \A s \in Savers : ~Active(s)'
    BY <1>1, EndIsTyped
  <1>3. TypeOK'
    <2>1. clock' \in Time /\ crashes' \in 0..MaxCrashes /\ 0 \in Time
      BY <1>1, StoreAssumption, TtlAssumption DEF TypeOK, Time
    <2> QED BY <1>1, <1>2, <2>1 DEF TypeOK
  <1>4. SavesAreShort' /\ TmpIsOwned' /\ SavesAreTimely'
    BY <1>2 DEF SavesAreShort, TmpIsOwned, SavesAreTimely, Writing, Active
  <1>5. OneRun' BY DEF OneRun
  <1>6. FileIsLastSaved' BY DEF CleanupInv, FileIsLastSaved
  <1> QED BY <1>3, <1>4, <1>5, <1>6 DEF CleanupInv

-----------------------------------------------------------------------------
(* The invariant is kept by every step. *)
LEMMA CleanupNext == CleanupInv /\ [Next]_vars => CleanupInv'
  <1> SUFFICES ASSUME CleanupInv, [Next]_vars PROVE CleanupInv'
    OBVIOUS
  <1>1. CASE Save BY <1>1, SaveStep DEF Save
  <1>2. CASE Store
    BY <1>2, EnsureDirStep, OpenStep, WriteStep, RenameStep DEF Store, StoreStep
  <1>3. CASE WriteFails BY <1>3, WriteFailsStep DEF WriteFails
  <1>4. CASE Cleanup BY <1>4, CleanupSteps DEF Cleanup
  <1>5. CASE \E r \in Runs : CleanupStep(r) BY <1>5, CleanupSteps
  <1>6. CASE TimePasses BY <1>6, TimeStep
  <1>7. CASE Crash BY <1>7, CrashStep
  <1>8. CASE UNCHANGED vars
    <2> USE <1>8 DEF vars, storeVars, cleanupVars
    <2>1. TypeOK' BY DEF CleanupInv, TypeOK
    <2>2. SavesAreShort' /\ TmpIsOwned' /\ SavesAreTimely'
      BY FewerSaves DEF Active
    <2>3. OneRun' BY ClockIsInt, RunsUnchanged DEF CleanupInv
    <2>4. FileIsLastSaved' BY DEF CleanupInv, FileIsLastSaved
    <2> QED BY <2>1, <2>2, <2>3, <2>4 DEF CleanupInv
  <1> QED BY <1>1, <1>2, <1>3, <1>4, <1>5, <1>6, <1>7, <1>8 DEF Next

(* The inductive invariant holds of every execution of store and cleanup.  *)
THEOREM CleanupCorrect == Spec => []CleanupInv
  BY CleanupInit, CleanupNext, PTL DEF Spec

(* Whatever saves overlap, fail or are cut off by a crash, a task's file is *)
(* the last version save() acknowledged, or was deleted.                    *)
THEOREM FilesAreAcknowledged == Spec => []FileIsLastSaved
  <1>1. CleanupInv => FileIsLastSaved BY DEF CleanupInv
  <1> QED BY <1>1, CleanupCorrect, PTL

(* Only delete() removes a file. *)
LEMMA OnlyDeleteRemoves ==
    ASSUME CleanupInv, Next, NEW t \in Tasks \ collided,
           file[t] # Absent, file'[t] = Absent
    PROVE  \E r \in Runs : delete(r) /\ t = current[r]
  <1>1. TypeOK BY DEF CleanupInv
  <1>2. file' # file BY DEF CleanupInv, TypeOK
  <1>3. ~Save /\ ~WriteFails /\ ~Cleanup /\ ~TimePasses /\ ~Crash
    BY <1>2 DEF Save, save, WriteFails, writeFails, Cleanup, runTaskCleanup, storeVars,
                TimePasses, Crash, CrashStore
  <1>4. ASSUME NEW s \in Savers, write(s) PROVE FALSE
    <2>1. Active(s) /\ saving[s].task \in Tasks /\ saving[s].version \in Versions
      BY <1>4, ActiveSaves DEF Active, write
    <2>2. \A c \in Content(s) : c # Absent BY <2>1, FilesAssumption DEF Content
    <2> QED BY <1>1, <1>2, <1>4, <2>1, <2>2 DEF write, TypeOK
  <1>5. ASSUME NEW s \in Savers, renameTmp(s) PROVE FALSE
    BY <1>1, <1>2, <1>5 DEF renameTmp, TypeOK
  <1>6. ~Store BY <1>2, <1>4, <1>5 DEF Store, StoreStep, ensureDir, open
  <1>7. PICK r \in Runs : CleanupStep(r) BY <1>3, <1>6 DEF Next
  <1>8. delete(r)
    BY <1>2, <1>7 DEF CleanupStep, listAll, load, loadFails, Visit, finish, storeVars
  <1>9. t = current[r] BY <1>1, <1>8 DEF delete, TypeOK
  <1> QED BY <1>8, <1>9

(* What the cleanup unlinks is a task that finished ttlMs ago, at the      *)
(* moment of the unlink, although the decision is older.                   *)
THEOREM OnlyExpiredIsDeleted == Spec => DeletesOnlyExpired
  <1>1. ASSUME CleanupInv, [Next]_vars
        PROVE  [\A t \in Tasks \ collided : file[t] # Absent /\ file'[t] = Absent
                   => Expires(file[t], clock)]_vars
    <2>1. ASSUME Next, NEW t \in Tasks \ collided, file[t] # Absent, file'[t] = Absent
          PROVE  Expires(file[t], clock)
      <3>1. PICK r \in Runs : delete(r) /\ t = current[r] BY <1>1, <2>1, OnlyDeleteRemoves
      <3>2. run[r] = "delete" BY <3>1 DEF delete
      <3>3. now[r] <= clock /\ Expires(file[t], now[r])
        BY <1>1, <2>1, <3>1, <3>2 DEF CleanupInv, OneRun
      <3>4. now[r] \in Int /\ clock \in Int
        BY <1>1, StoreAssumption DEF CleanupInv, TypeOK, Time
      <3> QED BY <3>3, <3>4, ExpiresForGood
    <2> QED BY <1>1, <2>1
  <1> QED BY <1>1, CleanupCorrect, PTL DEF Spec, DeletesOnlyExpired
=============================================================================
