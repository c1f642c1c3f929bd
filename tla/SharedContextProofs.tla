------------------------- MODULE SharedContextProofs -------------------------
(***************************************************************************)
(* What SharedContextStore guarantees for any number of concurrent calls,  *)
(* failed writes and restarts.                                             *)
(***************************************************************************)
EXTENDS SharedContext, SequenceTheorems, FiniteSetTheorems, WellFoundedInduction, TLAPS

(* What a state replayed from the first n lines of a file says: Status and *)
(* HasMessage with the file as a parameter.                                *)
RoomLines(l, n, r) == {i \in 1..n : l[i].room = r /\ l[i].type \in {"room.created", "room.updated"}}
StatusIn(l, n, r) ==
    IF RoomLines(l, n, r) = {} THEN "none"
    ELSE l[CHOOSE i \in RoomLines(l, n, r) : \A j \in RoomLines(l, n, r) : j <= i].status
HasIn(l, n, r, m) ==
    \E i \in 1..n : l[i].type = "message.posted" /\ l[i].room = r /\ l[i].message = m

LinesBy(l, c) == {i \in 1..Len(l) : l[i].by = c}
LinesOf(o) == IF o.kind # "post" THEN 1 ELSE IF o.artifact THEN 3 ELSE 2

-----------------------------------------------------------------------------
(* The inductive invariant *)

Begun == {"writing", "ok", "threw", "lost"}

(* A line comes from a call that will not load again, and content from one *)
(* that saw its room open before.                                          *)
LinesAreSeen ==
    \A i \in 1..Len(log) :
        /\ pc[log[i].by] \in Begun
        /\ Content(log[i]) => /\ snap[log[i].by] < i
                              /\ StatusIn(log, snap[log[i].by], log[i].room) = "open"

(* The lines of a write are its call's own, and content is for a room the  *)
(* first n lines of the file show open.                                    *)
Sound(w, l, n) ==
    \A k \in 1..Len(w.left) :
        /\ w.left[k].by = w.call
        /\ Content(w.left[k]) => StatusIn(l, n, w.left[k].room) = "open"

(* A queued write is the only one of its call, which saw the room open;    *)
(* all but the first have all their lines still to write.                  *)
WritesAreQueued ==
    \A i \in 1..Len(writeQueue) :
        /\ pc[writeQueue[i].call] = "writing"
        /\ \A j \in 1..Len(writeQueue) : writeQueue[j].call = writeQueue[i].call => j = i
        /\ Sound(writeQueue[i], log, snap[writeQueue[i].call])
        /\ i > 1 => /\ LinesBy(log, writeQueue[i].call) = {}
                    /\ Len(writeQueue[i].left) = LinesOf(op[writeQueue[i].call])

(* The message an artifact names is in the file or before it in its write. *)
Named(left, l) ==
    \A k \in 1..Len(left) :
        left[k].type = "artifact.attached" /\ left[k].message # None =>
            \/ HasIn(l, Len(l), left[k].room, left[k].message)
            \/ \E j \in 1..(k - 1) : /\ left[j].type = "message.posted"
                                     /\ left[j].room = left[k].room
                                     /\ left[j].message = left[k].message
MessagesComeFirst ==
    failures = 0 => \A i \in 1..Len(writeQueue) : Named(writeQueue[i].left, log)

(* The running write has lost no line: what it wrote ends the file and     *)
(* makes, with what is left, all its lines.                                *)
Whole(l, c, n, lines) ==
    \E k \in 0..Len(l) : k + n = lines /\ LinesBy(l, c) = (Len(l) - k + 1)..Len(l)
HeadIsWhole ==
    writeQueue # <<>> => Whole(log, writeQueue[1].call, Len(writeQueue[1].left),
                               LinesOf(op[writeQueue[1].call]))

(* All lines of the call are in the file, next to each other. *)
StoredIn(l, c, lines) == \E i \in 0..Len(l) : LinesBy(l, c) = (i + 1)..(i + lines)
Damaged == {c \in Calls : pc[c] = "ok" /\ ~StoredIn(log, c, LinesOf(op[c]))}

(* A failure that has not yet cost a call its lines may cost one more.     *)
LossesAreCounted ==
    /\ Cardinality(Damaged) <= failures
    /\ torn \/ ~HeadIsWhole => Cardinality(Damaged) < failures

(* The inductive invariant. *)
ContextInv ==
    /\ TypeOK
    /\ LinesAreSeen
    /\ WritesAreQueued
    /\ MessagesComeFirst
    /\ LossesAreCounted
    /\ ArtifactsFollowMessages

-----------------------------------------------------------------------------
(* Facts about the operators *)

(* A non-empty set of positions in a file has a last one. *)
LEMMA LastExists ==
    ASSUME NEW n \in Nat, NEW I, I \subseteq 1..n, I # {}
    PROVE  \E i \in I : \A j \in I : j <= i
<1> DEFINE T == {i..n : i \in I}
<1>1. T \subseteq FiniteSubsetsOf(Nat)
  <2> SUFFICES ASSUME NEW i \in I PROVE i..n \in FiniteSubsetsOf(Nat)
    OBVIOUS
  <2>1. IsFiniteSet(i..n)
    BY FS_Interval
  <2>2. QED
    BY <2>1 DEF FiniteSubsetsOf
<1>0. T # {}
  OBVIOUS
<1>2. PICK U \in T : \A V \in T : ~(<<V, U>> \in StrictSubsetOrdering(Nat))
  BY <1>0, <1>1, WFMin, FS_StrictSubsetOrderingWellFounded
<1>3. PICK x \in I : U = x..n
  OBVIOUS
<1>4. \A y \in I : y <= x
  <2> SUFFICES ASSUME NEW y \in I, x < y PROVE FALSE
    OBVIOUS
  <2>1. y..n \subseteq x..n /\ x \in x..n /\ x \notin y..n /\ x..n \subseteq Nat
    OBVIOUS
  <2>2. <<y..n, x..n>> \in StrictSubsetOrdering(Nat)
    BY <2>1 DEF StrictSubsetOrdering
  <2>3. QED
    BY <2>2, <1>2, <1>3
<1>5. QED
  BY <1>4

(* The status of a room is that of one of its lines. *)
LEMMA StatusLine ==
    ASSUME NEW l, NEW n \in Nat, NEW r, RoomLines(l, n, r) # {}
    PROVE  LET i == CHOOSE i \in RoomLines(l, n, r) : \A j \in RoomLines(l, n, r) : j <= i IN
           i \in RoomLines(l, n, r) /\ i \in 1..n /\ StatusIn(l, n, r) = l[i].status
<1>1. RoomLines(l, n, r) \subseteq 1..n
  BY DEF RoomLines
<1>2. \E i \in RoomLines(l, n, r) : \A j \in RoomLines(l, n, r) : j <= i
  BY <1>1, LastExists
<1>3. QED
  BY <1>1, <1>2 DEF StatusIn

(* A room with a status is one that was created. *)
LEMMA StatusType ==
    ASSUME NEW l \in Seq(Events), NEW n \in 0..Len(l), NEW r
    PROVE  /\ StatusIn(l, n, r) \in {"open", "archived", "none"}
           /\ StatusIn(l, n, r) # "none" => r \in Calls
<1>1. CASE RoomLines(l, n, r) = {}
  BY <1>1 DEF StatusIn
<1>2. CASE RoomLines(l, n, r) # {}
  <2>1. PICK i \in 1..n : i \in RoomLines(l, n, r) /\ StatusIn(l, n, r) = l[i].status
    BY <1>2, StatusLine
  <2>2. i \in 1..Len(l)
    BY LenProperties
  <2>3. l[i] \in Events /\ l[i].room = r
    BY <2>1, <2>2, ElementOfSeq DEF RoomLines
  <2>4. QED
    BY <2>1, <2>3 DEF Events
<1>3. QED
  BY <1>1, <1>2

(* What was replayed from the first lines stays so when more are written.  *)
LEMMA ReplayIsStable ==
    ASSUME NEW l, NEW m, NEW n \in Nat, \A i \in 1..n : m[i] = l[i], NEW r
    PROVE  /\ StatusIn(m, n, r) = StatusIn(l, n, r)
           /\ \A x : HasIn(m, n, r, x) <=> HasIn(l, n, r, x)
<1>1. RoomLines(m, n, r) = RoomLines(l, n, r)
  BY DEF RoomLines
<1>2. StatusIn(m, n, r) = StatusIn(l, n, r)
  <2>1. CASE RoomLines(l, n, r) = {}
    BY <1>1, <2>1 DEF StatusIn
  <2>2. CASE RoomLines(l, n, r) # {}
    <3> DEFINE i == CHOOSE i \in RoomLines(l, n, r) : \A j \in RoomLines(l, n, r) : j <= i
    <3>1. i \in 1..n
      BY <2>2, StatusLine
    <3>2. m[i] = l[i]
      BY <3>1
    <3>3. QED
      BY <1>1, <2>2, <3>2 DEF StatusIn
  <2>3. QED
    BY <2>1, <2>2
<1>3. QED
  BY <1>2 DEF HasIn

(* A message found early is found later. *)
LEMMA HasMore ==
    ASSUME NEW l, NEW n \in Nat, NEW k \in Nat, n <= k, NEW r, NEW x, HasIn(l, n, r, x)
    PROVE  HasIn(l, k, r, x)
<1>1. PICK i \in 1..n : l[i].type = "message.posted" /\ l[i].room = r /\ l[i].message = x
  BY DEF HasIn
<1>2. i \in 1..k
  OBVIOUS
<1>3. QED
  BY <1>1, <1>2 DEF HasIn

(* One more line in the file. *)
LEMMA OneMoreLine ==
    ASSUME NEW l \in Seq(Events), NEW e \in Events, NEW m, m = Append(l, e)
    PROVE  /\ m \in Seq(Events) /\ Len(l) \in Nat /\ Len(m) = Len(l) + 1
           /\ \A i \in 1..Len(l) : m[i] = l[i]
           /\ m[Len(l) + 1] = e
           /\ LinesBy(m, e.by) = LinesBy(l, e.by) \cup {Len(l) + 1}
<1>1. /\ m \in Seq(Events) /\ Len(l) \in Nat /\ Len(m) = Len(l) + 1
      /\ \A i \in 1..Len(l) : m[i] = l[i]
      /\ m[Len(l) + 1] = e
  BY AppendProperties, LenProperties
<1>2. 1..Len(m) = 1..Len(l) \cup {Len(l) + 1}
  BY <1>1
<1>3. LinesBy(m, e.by) = LinesBy(l, e.by) \cup {Len(l) + 1}
  BY <1>1, <1>2 DEF LinesBy
<1>4. QED
  BY <1>1, <1>3

(* It adds nothing to the lines of the other calls. *)
LEMMA OtherLines ==
    ASSUME NEW l \in Seq(Events), NEW e \in Events, NEW c, c # e.by
    PROVE  LinesBy(Append(l, e), c) = LinesBy(l, c)
<1> DEFINE m == Append(l, e)
<1>1. /\ Len(l) \in Nat /\ Len(m) = Len(l) + 1
      /\ \A i \in 1..Len(l) : m[i] = l[i]
      /\ m[Len(l) + 1] = e
  BY AppendProperties, LenProperties
<1> HIDE DEF m
<1>2. 1..Len(m) = 1..Len(l) \cup {Len(l) + 1} /\ Len(l) + 1 \notin 1..Len(l)
  BY <1>1
<1>3. LinesBy(m, c) = LinesBy(l, c)
  BY <1>1, <1>2 DEF LinesBy
<1>4. QED
  BY <1>3 DEF m

(* A line of the running write that gets into the file keeps it whole. *)
LEMMA WholeGrows ==
    ASSUME NEW l \in Seq(Events), NEW e \in Events, NEW m, m = Append(l, e),
           NEW n \in Nat, NEW lines \in Nat, Whole(l, e.by, n + 1, lines)
    PROVE  Whole(m, e.by, n, lines) /\ (n = 0 => StoredIn(m, e.by, lines))
<1>1. PICK k \in 0..Len(l) : k + (n + 1) = lines /\ LinesBy(l, e.by) = (Len(l) - k + 1)..Len(l)
  BY DEF Whole
<1>2. /\ Len(l) \in Nat /\ Len(m) = Len(l) + 1
      /\ LinesBy(m, e.by) = LinesBy(l, e.by) \cup {Len(l) + 1}
  BY OneMoreLine
<1>3. LinesBy(m, e.by) = (Len(m) - (k + 1) + 1)..Len(m)
  BY <1>1, <1>2
<1>4. k + 1 \in 0..Len(m) /\ (k + 1) + n = lines
  BY <1>1, <1>2
<1>5. Whole(m, e.by, n, lines)
  BY <1>3, <1>4 DEF Whole
<1>6. ASSUME n = 0 PROVE StoredIn(m, e.by, lines)
  <2>1. Len(m) - lines \in 0..Len(m) /\ (Len(m) - lines) + lines = Len(m)
        /\ Len(m) - (k + 1) + 1 = (Len(m) - lines) + 1
    BY <1>2, <1>4, <1>6
  <2>2. LinesBy(m, e.by) = ((Len(m) - lines) + 1)..((Len(m) - lines) + lines)
    BY <1>3, <2>1
  <2>3. QED
    BY <2>1, <2>2 DEF StoredIn
<1>7. QED
  BY <1>5, <1>6

(* A write of which no line is in the file yet is whole. *)
LEMMA WholeAtFirst ==
    ASSUME NEW l \in Seq(Events), NEW c, NEW n \in Nat, LinesBy(l, c) = {}
    PROVE  Whole(l, c, n, n)
<1>1. Len(l) \in Nat
  BY LenProperties
<1>2. 0 \in 0..Len(l) /\ 0 + n = n /\ (Len(l) - 0 + 1)..Len(l) = {}
  BY <1>1
<1>3. QED
  BY <1>2 DEF Whole

(* A call whose lines are in the file keeps them there. *)
LEMMA StoredStays ==
    ASSUME NEW l \in Seq(Events), NEW m \in Seq(Events), Len(l) <= Len(m), NEW c, NEW lines,
           LinesBy(m, c) = LinesBy(l, c), StoredIn(l, c, lines)
    PROVE  StoredIn(m, c, lines)
<1>1. PICK i \in 0..Len(l) : LinesBy(l, c) = (i + 1)..(i + lines)
  BY DEF StoredIn
<1>2. i \in 0..Len(m)
  BY LenProperties
<1>3. QED
  BY <1>1, <1>2 DEF StoredIn

(* The counts of lines are positive. *)
LEMMA LinesType == \A o : LinesOf(o) \in Nat
BY DEF LinesOf

-----------------------------------------------------------------------------
(* Facts about the states *)

(* The file and the queue are sequences of what they should be. *)
LEMMA Shapes ==
    ASSUME TypeOK
    PROVE  /\ log \in Seq(Events) /\ Len(log) \in Nat
           /\ \A i \in 1..Len(log) : log[i] \in Events /\ log[i].by \in Calls
           /\ Len(writeQueue) \in Nat
           /\ \A i \in 1..Len(writeQueue) :
                 /\ writeQueue[i].call \in Calls
                 /\ writeQueue[i].left \in Seq(Events) /\ Len(writeQueue[i].left) \in Nat \ {0}
           /\ \A c \in Calls : snap[c] \in 0..Len(log)
           /\ failures \in Nat
<1>1. log \in Seq(Events) /\ Len(log) \in Nat
  BY LenProperties DEF TypeOK
<1>2. \A i \in 1..Len(log) : log[i] \in Events
  BY <1>1, ElementOfSeq
<1>3. \A i \in 1..Len(log) : log[i].by \in Calls
  BY <1>2 DEF Events
<1>4. Len(writeQueue) \in Nat
  BY LenProperties DEF TypeOK
<1>5. ASSUME NEW i \in 1..Len(writeQueue)
      PROVE  /\ writeQueue[i].call \in Calls
             /\ writeQueue[i].left \in Seq(Events) /\ Len(writeQueue[i].left) \in Nat \ {0}
  <2>1. writeQueue[i] \in [call : Calls, left : Seq(Events) \ {<<>>}]
    BY <1>5, ElementOfSeq DEF TypeOK
  <2>2. writeQueue[i].left \in Seq(Events) /\ writeQueue[i].left # <<>>
    BY <2>1
  <2>3. QED
    BY <2>1, <2>2, EmptySeq, LenProperties
<1>6. \A c \in Calls : snap[c] \in 0..Len(log)
  BY <1>1 DEF TypeOK
<1>7. QED
  BY <1>1, <1>2, <1>3, <1>4, <1>5, <1>6, FailuresAssumption DEF TypeOK

(* The damaged calls are finitely many. *)
LEMMA DamagedFinite == IsFiniteSet(Damaged) /\ Cardinality(Damaged) \in Nat
BY CallsAssumption, FS_Subset, FS_CardinalityType DEF Damaged

(* A torn file, or a write that lost a line, is the work of a failure. *)
LEMMA TornIsFailure ==
    ASSUME ContextInv, torn \/ ~HeadIsWhole
    PROVE  failures # 0
BY DamagedFinite, Shapes DEF ContextInv, LossesAreCounted

(* A call that has not begun to write has no line, in the file or queued.  *)
LEMMA NotBegun ==
    ASSUME ContextInv, NEW c \in Calls, pc[c] \in {"none", "loading", "loaded"}
    PROVE  /\ \A i \in 1..Len(log) : log[i].by # c
           /\ LinesBy(log, c) = {}
           /\ \A i \in 1..Len(writeQueue) : writeQueue[i].call # c
<1>1. \A i \in 1..Len(log) : log[i].by # c
  BY DEF ContextInv, LinesAreSeen, Begun
<1>2. \A i \in 1..Len(writeQueue) : writeQueue[i].call # c
  BY DEF ContextInv, WritesAreQueued
<1>3. QED
  BY <1>1, <1>2 DEF LinesBy

(* A step of a call that has not begun to write, and does not resolve in   *)
(* it, disturbs nobody else's lines.                                       *)
LEMMA OthersKept ==
    ASSUME ContextInv, NEW c \in Calls, pc[c] \in {"none", "loading", "loaded"},
           UNCHANGED <<log, torn, failures>>,
           pc'[c] # "ok",
           \A x \in Calls \ {c} : pc'[x] = pc[x] /\ snap'[x] = snap[x] /\ op'[x] = op[x]
    PROVE  /\ LinesAreSeen' /\ ArtifactsFollowMessages' /\ Damaged' = Damaged
           /\ \A i \in 1..Len(writeQueue) :
                 /\ pc'[writeQueue[i].call] = pc[writeQueue[i].call]
                 /\ snap'[writeQueue[i].call] = snap[writeQueue[i].call]
                 /\ op'[writeQueue[i].call] = op[writeQueue[i].call]
<1>1. TypeOK
  BY DEF ContextInv
<1>2. LinesAreSeen'
  <2> SUFFICES ASSUME NEW i \in 1..Len(log)
               PROVE  /\ pc'[log[i].by] \in Begun
                      /\ Content(log[i]) =>
                            /\ snap'[log[i].by] < i
                            /\ StatusIn(log, snap'[log[i].by], log[i].room) = "open"
    BY DEF LinesAreSeen, Content
  <2>1. log[i].by \in Calls \ {c}
    BY <1>1, Shapes, NotBegun
  <2>2. QED
    BY <2>1 DEF ContextInv, LinesAreSeen
<1>3. ArtifactsFollowMessages'
  BY DEF ContextInv, ArtifactsFollowMessages, HasMessage
<1>4. Damaged' = Damaged
  BY DEF Damaged
<1>5. \A i \in 1..Len(writeQueue) : writeQueue[i].call \in Calls \ {c}
  BY <1>1, Shapes, NotBegun
<1>6. QED
  BY <1>2, <1>3, <1>4, <1>5

(* So it keeps the invariant when it queues nothing. *)
LEMMA NothingQueued ==
    ASSUME ContextInv, TypeOK', NEW c \in Calls, pc[c] \in {"none", "loading", "loaded"},
           UNCHANGED <<log, torn, failures, writeQueue>>,
           pc'[c] # "ok",
           \A x \in Calls \ {c} : pc'[x] = pc[x] /\ snap'[x] = snap[x] /\ op'[x] = op[x]
    PROVE  ContextInv'
<1>1. /\ LinesAreSeen' /\ ArtifactsFollowMessages' /\ Damaged' = Damaged
      /\ \A i \in 1..Len(writeQueue) :
            /\ pc'[writeQueue[i].call] = pc[writeQueue[i].call]
            /\ snap'[writeQueue[i].call] = snap[writeQueue[i].call]
            /\ op'[writeQueue[i].call] = op[writeQueue[i].call]
  BY OthersKept
<1>2. WritesAreQueued'
  <2> SUFFICES ASSUME NEW i \in 1..Len(writeQueue)
               PROVE  /\ pc'[writeQueue[i].call] = "writing"
                      /\ \A j \in 1..Len(writeQueue) :
                            writeQueue[j].call = writeQueue[i].call => j = i
                      /\ Sound(writeQueue[i], log, snap'[writeQueue[i].call])
                      /\ i > 1 => /\ LinesBy(log, writeQueue[i].call) = {}
                                  /\ Len(writeQueue[i].left) = LinesOf(op'[writeQueue[i].call])
    BY DEF WritesAreQueued
  <2>1. QED
    BY <1>1 DEF ContextInv, WritesAreQueued
<1>3. MessagesComeFirst'
  BY DEF ContextInv, MessagesComeFirst
<1>4. HeadIsWhole' = HeadIsWhole
  <2>1. CASE writeQueue = <<>>
    BY <2>1 DEF HeadIsWhole
  <2>2. CASE writeQueue # <<>>
    <3>1. 1 \in 1..Len(writeQueue)
      BY <2>2, Shapes, EmptySeq DEF ContextInv, TypeOK
    <3>2. QED
      BY <1>1, <3>1 DEF HeadIsWhole
  <2>3. QED
    BY <2>1, <2>2
<1>5. LossesAreCounted'
  BY <1>1, <1>4 DEF ContextInv, LossesAreCounted
<1>6. QED
  BY <1>1, <1>2, <1>3, <1>5 DEF ContextInv

(* A call that queues its write, with a status it saw and messages that    *)
(* are there, keeps the invariant.                                         *)
LEMMA Enqueued ==
    ASSUME ContextInv, NEW c \in Calls, pc[c] \in {"none", "loaded"},
           UNCHANGED <<log, torn, failures, snap>>,
           pc' = [pc EXCEPT ![c] = "writing"],
           op' = [op EXCEPT ![c] = op'[c]], op'[c] \in Ops,
           NEW evs \in Seq(Events), evs # <<>>,
           writeQueue' = Append(writeQueue, [call |-> c, left |-> evs]),
           Len(evs) = LinesOf(op'[c]),
           Sound([call |-> c, left |-> evs], log, snap[c]),
           Named(evs, log)
    PROVE  ContextInv'
<1> DEFINE w == [call |-> c, left |-> evs]
<1>1. TypeOK /\ Len(writeQueue) \in Nat
  BY Shapes DEF ContextInv
<1>2. pc' \in [Calls -> {"none", "loading", "loaded", "writing", "ok", "threw", "lost"}]
      /\ pc'[c] = "writing" /\ \A x \in Calls \ {c} : pc'[x] = pc[x]
  BY <1>1 DEF TypeOK
<1>3. op' \in [Calls -> Ops \cup {Unused}] /\ \A x \in Calls \ {c} : op'[x] = op[x]
  BY <1>1 DEF TypeOK
<1>4. w \in [call : Calls, left : Seq(Events) \ {<<>>}] /\ w.call = c /\ w.left = evs
  OBVIOUS
<1> HIDE DEF w
<1>5. /\ writeQueue' \in Seq([call : Calls, left : Seq(Events) \ {<<>>}])
      /\ Len(writeQueue') = Len(writeQueue) + 1
      /\ \A i \in 1..Len(writeQueue) : writeQueue'[i] = writeQueue[i]
      /\ writeQueue'[Len(writeQueue) + 1] = w
  BY <1>1, <1>4, AppendProperties DEF TypeOK, w
<1>6. TypeOK'
  BY <1>1, <1>2, <1>3, <1>5 DEF TypeOK
<1>7. /\ LinesAreSeen' /\ ArtifactsFollowMessages' /\ Damaged' = Damaged
      /\ \A i \in 1..Len(writeQueue) :
            /\ pc'[writeQueue[i].call] = pc[writeQueue[i].call]
            /\ snap'[writeQueue[i].call] = snap[writeQueue[i].call]
            /\ op'[writeQueue[i].call] = op[writeQueue[i].call]
  BY <1>2, <1>3, OthersKept
<1>8. \A i \in 1..Len(writeQueue') : i \in 1..Len(writeQueue) \/ i = Len(writeQueue) + 1
  BY <1>1, <1>5
<1>9. /\ \A i \in 1..Len(writeQueue) : writeQueue[i].call # c
      /\ LinesBy(log, c) = {}
  BY NotBegun
<1>10. WritesAreQueued'
  <2> SUFFICES ASSUME NEW i \in 1..Len(writeQueue')
               PROVE  /\ pc'[writeQueue'[i].call] = "writing"
                      /\ \A j \in 1..Len(writeQueue') :
                            writeQueue'[j].call = writeQueue'[i].call => j = i
                      /\ Sound(writeQueue'[i], log, snap[writeQueue'[i].call])
                      /\ i > 1 => /\ LinesBy(log, writeQueue'[i].call) = {}
                                  /\ Len(writeQueue'[i].left) = LinesOf(op'[writeQueue'[i].call])
    BY DEF WritesAreQueued
  <2>1. CASE i \in 1..Len(writeQueue)
    <3>1. writeQueue'[i] = writeQueue[i]
      BY <1>5, <2>1
    <3>2. \A j \in 1..Len(writeQueue') : writeQueue'[j].call = writeQueue'[i].call => j = i
      BY <1>4, <1>5, <1>8, <1>9, <2>1 DEF ContextInv, WritesAreQueued
    <3>3. /\ pc[writeQueue[i].call] = "writing"
          /\ Sound(writeQueue[i], log, snap[writeQueue[i].call])
          /\ i > 1 => /\ LinesBy(log, writeQueue[i].call) = {}
                      /\ Len(writeQueue[i].left) = LinesOf(op[writeQueue[i].call])
      BY <2>1 DEF ContextInv, WritesAreQueued
    <3>4. /\ pc'[writeQueue[i].call] = pc[writeQueue[i].call]
          /\ op'[writeQueue[i].call] = op[writeQueue[i].call]
      BY <1>7, <2>1
    <3>5. QED
      BY <3>1, <3>2, <3>3, <3>4
  <2>2. CASE i = Len(writeQueue) + 1
    <3>1. writeQueue'[i] = w
      BY <1>5, <2>2
    <3>2. \A j \in 1..Len(writeQueue') : writeQueue'[j].call = c => j = i
      BY <1>5, <1>8, <1>9, <2>2
    <3>3. Sound(w, log, snap[c])
      BY DEF w
    <3>4. QED
      BY <1>2, <1>4, <1>9, <3>1, <3>2, <3>3
  <2>3. QED
    BY <1>8, <2>1, <2>2
<1>11. MessagesComeFirst'
  <2> SUFFICES ASSUME failures = 0, NEW i \in 1..Len(writeQueue')
               PROVE  Named(writeQueue'[i].left, log)
    BY DEF MessagesComeFirst
  <2>1. CASE i \in 1..Len(writeQueue)
    BY <1>5, <2>1 DEF ContextInv, MessagesComeFirst
  <2>2. CASE i = Len(writeQueue) + 1
    BY <1>4, <1>5, <2>2
  <2>3. QED
    BY <1>8, <2>1, <2>2
<1>12. HeadIsWhole => HeadIsWhole'
  <2>1. CASE writeQueue = <<>>
    <3>1. writeQueue'[1] = w
      BY <1>5, <2>1, EmptySeq
    <3>2. Len(evs) \in Nat
      BY LenProperties
    <3>3. Whole(log, c, Len(evs), LinesOf(op'[c]))
      BY <1>1, <1>9, <3>2, WholeAtFirst DEF TypeOK
    <3>4. QED
      BY <1>4, <3>1, <3>3 DEF HeadIsWhole
  <2>2. CASE writeQueue # <<>>
    <3>1. 1 \in 1..Len(writeQueue)
      BY <1>1, <2>2, EmptySeq DEF TypeOK
    <3>2. writeQueue'[1] = writeQueue[1] /\ op'[writeQueue[1].call] = op[writeQueue[1].call]
      BY <1>5, <1>7, <3>1
    <3>3. QED
      BY <2>2, <3>2 DEF HeadIsWhole
  <2>3. QED
    BY <2>1, <2>2
<1>13. LossesAreCounted'
  BY <1>7, <1>12 DEF ContextInv, LossesAreCounted
<1>14. QED
  BY <1>6, <1>7, <1>10, <1>11, <1>13 DEF ContextInv

-----------------------------------------------------------------------------
(* The calls *)

(* Ids that a call can be given are ids or None. *)
LEMMA InputsType ==
    ASSUME NEW c \in Calls, NEW o \in Inputs(c)
    PROVE  o \in Ops
<1>1. Created("create") \subseteq Calls \cup {None} /\ Created("post") \subseteq Calls \cup {None}
  BY DEF Created
<1>2. CASE o = [kind |-> "create", room |-> c, message |-> None, artifact |-> FALSE]
  BY <1>2 DEF Ops
<1>3. CASE o \in [kind : {"archive", "post", "attach"}, room : Created("create"),
                  message : Created("post"), artifact : BOOLEAN]
  BY <1>1, <1>3 DEF Ops
<1>4. QED
  BY <1>2, <1>3 DEF Inputs

(* createRoom() queues its line; the other calls load first. *)
LEMMA StartStep ==
    ASSUME ContextInv, NEW c \in Calls, NEW o \in Inputs(c), Start(c, o)
    PROVE  ContextInv'
<1>1. TypeOK /\ pc[c] = "none" /\ UNCHANGED <<log, torn, snap, failures>> /\ o \in Ops
  BY InputsType DEF ContextInv, Start
<1>2. op' = [op EXCEPT ![c] = o] /\ op'[c] = o /\ op' \in [Calls -> Ops \cup {Unused}]
      /\ \A x \in Calls \ {c} : op'[x] = op[x]
  BY <1>1 DEF Start, createRoom, Call, TypeOK
<1>3. CASE createRoom(c, o)
  <2> DEFINE e == [type |-> "room.created", room |-> c, status |-> "open", message |-> None, by |-> c]
  <2>1. /\ writeQueue' = Append(writeQueue, [call |-> c, left |-> <<e>>])
        /\ pc' = [pc EXCEPT ![c] = "writing"]
    BY <1>3 DEF createRoom, appendMany
  <2>2. e \in Events /\ e.by = c /\ ~Content(e) /\ e.type # "artifact.attached"
    BY DEF Events, Content
  <2> HIDE DEF e
  <2>3. /\ <<e>> \in Seq(Events) /\ <<e>> # <<>> /\ Len(<<e>>) = 1
        /\ \A k \in 1..Len(<<e>>) : <<e>>[k] = e
    BY <2>2
  <2>4. LinesOf(op'[c]) = 1
    BY <1>2, <1>3 DEF createRoom, LinesOf
  <2>5. Sound([call |-> c, left |-> <<e>>], log, snap[c])
    BY <2>2, <2>3 DEF Sound
  <2>6. Named(<<e>>, log)
    BY <2>2, <2>3 DEF Named
  <2>7. QED
    BY <1>1, <1>2, <2>1, <2>3, <2>4, <2>5, <2>6, Enqueued
<1>4. CASE Call(c, o)
  <2>1. writeQueue' = writeQueue /\ pc' = [pc EXCEPT ![c] = "loading"]
    BY <1>4 DEF Call
  <2>2. /\ pc' \in [Calls -> {"none", "loading", "loaded", "writing", "ok", "threw", "lost"}]
        /\ pc'[c] = "loading" /\ \A x \in Calls \ {c} : pc'[x] = pc[x]
    BY <1>1, <2>1 DEF TypeOK
  <2>3. TypeOK'
    BY <1>1, <1>2, <2>1, <2>2 DEF TypeOK
  <2>4. QED
    BY <1>1, <1>2, <2>1, <2>2, <2>3, NothingQueued
<1>5. QED
  BY <1>3, <1>4 DEF Start

(* A call loads the file, or throws. *)
LEMMA LoadOrThrow ==
    ASSUME ContextInv, NEW c \in Calls, loadState(c) \/ Throw(c)
    PROVE  ContextInv'
<1>1. TypeOK /\ Len(log) \in Nat
  BY Shapes DEF ContextInv
<1>2. /\ pc[c] \in {"loading", "loaded"} /\ UNCHANGED <<log, torn, failures, writeQueue, op>>
      /\ pc' \in [Calls -> {"none", "loading", "loaded", "writing", "ok", "threw", "lost"}]
      /\ pc'[c] # "ok" /\ \A x \in Calls \ {c} : pc'[x] = pc[x]
  BY <1>1 DEF loadState, Throw, TypeOK
<1>3. /\ snap' \in [Calls -> Nat] /\ \A x \in Calls \ {c} : snap'[x] = snap[x]
      /\ \A x \in Calls : snap'[x] <= Len(log)
  <2>1. snap \in [Calls -> Nat] /\ \A x \in Calls : snap[x] <= Len(log)
    BY <1>1 DEF TypeOK
  <2>2. CASE snap' = snap
    BY <2>1, <2>2
  <2>3. CASE snap' = [snap EXCEPT ![c] = Len(log)]
    BY <1>1, <2>1, <2>3
  <2>4. QED
    BY <2>2, <2>3 DEF loadState, Throw
<1>4. TypeOK'
  BY <1>1, <1>2, <1>3 DEF TypeOK
<1>5. QED
  BY <1>2, <1>3, <1>4, NothingQueued

(* The checks of a call are made on what it loaded. *)
LEMMA LoadedIs ==
    /\ \A c : Loaded(c) = StatusIn(log, snap[c], op[c].room)
    /\ \A n, r, m : HasMessage(n, r, m) <=> HasIn(log, n, r, m)
BY DEF Loaded, Status, RoomEvents, StatusIn, RoomLines, HasMessage, HasIn

(* Two lines, one after the other. *)
LEMMA LinesTogether ==
    ASSUME NEW p \in Seq(Events), NEW e \in Events, NEW evs, evs = p \o <<e>>
    PROVE  /\ evs \in Seq(Events) /\ evs # <<>> /\ Len(evs) = Len(p) + 1
           /\ \A k \in 1..Len(p) : evs[k] = p[k]
           /\ evs[Len(p) + 1] = e
<1>1. <<e>> \in Seq(Events) /\ Len(<<e>>) = 1 /\ <<e>>[1] = e /\ Len(p) \in Nat
  BY LenProperties
<1>2. /\ evs \in Seq(Events) /\ Len(evs) = Len(p) + 1
      /\ \A k \in 1..Len(p) : evs[k] = p[k]
      /\ evs[Len(p) + 1] = e
  BY <1>1, ConcatProperties
<1>3. QED
  BY <1>1, <1>2, EmptySeq

(* A call that its loaded state admits queues its lines. *)
LEMMA ContinueStep ==
    ASSUME ContextInv, NEW c \in Calls, Continue(c)
    PROVE  ContextInv'
<1> DEFINE r == op[c].room
<1>1. /\ TypeOK /\ log \in Seq(Events) /\ snap[c] \in 0..Len(log) /\ snap[c] \in Nat
      /\ Len(log) \in Nat
  BY Shapes DEF ContextInv
<1>2. pc[c] = "loaded" /\ Admitted(c) /\ UNCHANGED <<log, torn, op, snap, failures>>
  BY DEF Continue
<1>3. /\ Loaded(c) = StatusIn(log, snap[c], r)
      /\ Loaded(c) \in {"open", "archived", "none"} /\ Loaded(c) # "none" /\ r \in Calls
  BY <1>1, <1>2, LoadedIs, StatusType DEF Admitted
<1>4. op[c] \in Ops \cup {Unused} /\ op' = [op EXCEPT ![c] = op'[c]] /\ op'[c] = op[c]
  BY <1>1, <1>2 DEF TypeOK
<1>5. op[c].kind # "none" => op[c] \in Ops
  BY <1>4 DEF Unused
<1> HIDE DEF r
<1>6. CASE archiveRoom(c)
  <2> DEFINE e == RoomEvent(c, "room.updated", "archived")
  <2>1. /\ writeQueue' = Append(writeQueue, [call |-> c, left |-> <<e>>])
        /\ pc' = [pc EXCEPT ![c] = "writing"] /\ op[c].kind = "archive"
    BY <1>6 DEF archiveRoom, appendMany
  <2>2. e \in Events /\ e.by = c /\ ~Content(e) /\ e.type # "artifact.attached"
    BY <1>3 DEF Events, Content, RoomEvent, r
  <2> HIDE DEF e
  <2>3. /\ <<e>> \in Seq(Events) /\ <<e>> # <<>> /\ Len(<<e>>) = 1
        /\ \A k \in 1..Len(<<e>>) : <<e>>[k] = e
    BY <2>2
  <2>4. LinesOf(op'[c]) = 1
    BY <1>4, <2>1 DEF LinesOf
  <2>5. Sound([call |-> c, left |-> <<e>>], log, snap[c])
    BY <2>2, <2>3 DEF Sound
  <2>6. Named(<<e>>, log)
    BY <2>2, <2>3 DEF Named
  <2>7. QED
    BY <1>2, <1>4, <1>5, <2>1, <2>3, <2>4, <2>5, <2>6, Enqueued
<1>7. CASE attachArtifact(c)
  <2> DEFINE e == ArtifactAttached(c, op[c].message)
  <2>1. /\ writeQueue' = Append(writeQueue, [call |-> c, left |-> <<e>>])
        /\ pc' = [pc EXCEPT ![c] = "writing"] /\ op[c].kind = "attach"
    BY <1>7 DEF attachArtifact, appendMany
  <2>2. e \in Events /\ e.by = c /\ e.room = r /\ e.message = op[c].message
    BY <1>3, <1>5, <2>1 DEF Events, ArtifactAttached, r, Ops
  <2> HIDE DEF e
  <2>3. /\ <<e>> \in Seq(Events) /\ <<e>> # <<>> /\ Len(<<e>>) = 1
        /\ \A k \in 1..Len(<<e>>) : <<e>>[k] = e
    BY <2>2
  <2>4. LinesOf(op'[c]) = 1
    BY <1>4, <2>1 DEF LinesOf
  <2>5. StatusIn(log, snap[c], r) = "open"
    BY <1>2, <1>3, <2>1 DEF Admitted
  <2>6. Sound([call |-> c, left |-> <<e>>], log, snap[c])
    BY <2>2, <2>3, <2>5 DEF Sound
  <2>7. e.message # None => HasIn(log, snap[c], r, e.message)
    BY <1>2, <2>1, <2>2, LoadedIs DEF Admitted, r
  <2>8. e.message # None => HasIn(log, Len(log), r, e.message)
    BY <1>1, <2>7, HasMore
  <2>9. Named(<<e>>, log)
    BY <2>2, <2>3, <2>8 DEF Named
  <2>10. QED
    BY <1>2, <1>4, <1>5, <2>1, <2>3, <2>4, <2>6, <2>9, Enqueued
<1>8. CASE postMessage(c)
  <2> DEFINE m == MessagePosted(c)
             a == ArtifactAttached(c, c)
             e == RoomEvent(c, "room.updated", Loaded(c))
             evs == <<m>> \o (IF op[c].artifact THEN <<a>> ELSE <<>>) \o <<e>>
  <2>1. /\ writeQueue' = Append(writeQueue, [call |-> c, left |-> evs])
        /\ pc' = [pc EXCEPT ![c] = "writing"] /\ op[c].kind = "post"
    BY <1>8 DEF postMessage, appendMany
  <2>2. /\ m \in Events /\ m.by = c /\ m.room = r /\ m.message = c /\ m.type = "message.posted"
        /\ a \in Events /\ a.by = c /\ a.room = r /\ a.message = c /\ a.type = "artifact.attached"
        /\ e \in Events /\ e.by = c /\ e.type = "room.updated"
    BY <1>3 DEF Events, MessagePosted, ArtifactAttached, RoomEvent, r
  <2>3. StatusIn(log, snap[c], r) = "open"
    BY <1>2, <1>3, <2>1 DEF Admitted
  <2> HIDE DEF m, a, e
  <2>4. CASE op[c].artifact
    <3> DEFINE p == <<m>> \o <<a>>
    <3>1. evs = p \o <<e>>
      BY <2>4
    <3> HIDE DEF evs
    <3>0. p \in Seq(Events) /\ Len(p) = 2 /\ p[1] = m /\ p[2] = a
      <4>1. <<m>> \in Seq(Events) /\ Len(<<m>>) = 1 /\ <<m>>[1] = m
        BY <2>2
      <4>2. QED
        BY <2>2, <4>1, LinesTogether
    <3> HIDE DEF p
    <3>2. evs \in Seq(Events) /\ evs # <<>> /\ Len(evs) = 3 /\ evs[1] = m /\ evs[2] = a /\ evs[3] = e
      BY <2>2, <3>1, <3>0, LinesTogether
    <3>3. LinesOf(op'[c]) = 3
      BY <1>4, <2>1, <2>4 DEF LinesOf
    <3>4. \A k \in 1..Len(evs) : evs[k].by = c
                                 /\ (Content(evs[k]) => evs[k].room = r)
      BY <2>2, <3>2 DEF Content
    <3>5. Sound([call |-> c, left |-> evs], log, snap[c])
      BY <2>3, <3>4 DEF Sound
    <3>6. Named(evs, log)
      <4> SUFFICES ASSUME NEW k \in 1..Len(evs), evs[k].type = "artifact.attached"
                   PROVE  \E j \in 1..(k - 1) : /\ evs[j].type = "message.posted"
                                                /\ evs[j].room = evs[k].room
                                                /\ evs[j].message = evs[k].message
        BY DEF Named
      <4>1. k = 2 /\ 1 \in 1..(k - 1)
        BY <2>2, <3>2
      <4>2. QED
        BY <2>2, <3>2, <4>1
    <3>7. QED
      BY <1>2, <1>4, <1>5, <2>1, <3>2, <3>3, <3>5, <3>6, Enqueued
  <2>5. CASE ~op[c].artifact
    <3> DEFINE p == <<m>> \o <<>>
    <3>1. evs = p \o <<e>>
      BY <2>5
    <3> HIDE DEF evs
    <3>0. p \in Seq(Events) /\ Len(p) = 1 /\ p[1] = m
      <4>1. <<m>> \in Seq(Events) /\ Len(<<m>>) = 1 /\ <<m>>[1] = m /\ p = <<m>>
        BY <2>2, ConcatEmptySeq
      <4>2. QED
        BY <4>1
    <3> HIDE DEF p
    <3>2. evs \in Seq(Events) /\ evs # <<>> /\ Len(evs) = 2 /\ evs[1] = m /\ evs[2] = e
      BY <2>2, <3>1, <3>0, LinesTogether
    <3>3. LinesOf(op'[c]) = 2
      BY <1>4, <2>1, <2>5 DEF LinesOf
    <3>4. \A k \in 1..Len(evs) : evs[k].by = c /\ evs[k].type # "artifact.attached"
                                 /\ (Content(evs[k]) => evs[k].room = r)
      BY <2>2, <3>2 DEF Content
    <3>5. Sound([call |-> c, left |-> evs], log, snap[c])
      BY <2>3, <3>4 DEF Sound
    <3>6. Named(evs, log)
      BY <3>4 DEF Named
    <3>7. QED
      BY <1>2, <1>4, <1>5, <2>1, <3>2, <3>3, <3>5, <3>6, Enqueued
  <2>6. QED
    BY <2>4, <2>5
<1>9. QED
  BY <1>6, <1>7, <1>8 DEF Continue

-----------------------------------------------------------------------------
(* The file *)

(* The write at the head of the queue. *)
LEMMA HeadOfQueue ==
    ASSUME ContextInv, writeQueue # <<>>
    PROVE  /\ 1 \in 1..Len(writeQueue) /\ Head(writeQueue) = writeQueue[1]
           /\ writeQueue[1].call \in Calls /\ pc[writeQueue[1].call] = "writing"
           /\ writeQueue[1].left \in Seq(Events) /\ Len(writeQueue[1].left) \in Nat \ {0}
           /\ Head(writeQueue[1].left) = writeQueue[1].left[1]
           /\ writeQueue[1].left[1] \in Events /\ writeQueue[1].left[1].by = writeQueue[1].call
           /\ Tail(writeQueue) \in Seq([call : Calls, left : Seq(Events) \ {<<>>}])
           /\ Len(Tail(writeQueue)) = Len(writeQueue) - 1
           /\ \A i \in 1..Len(Tail(writeQueue)) :
                 i + 1 \in 1..Len(writeQueue) /\ Tail(writeQueue)[i] = writeQueue[i + 1]
<1>1. TypeOK /\ writeQueue \in Seq([call : Calls, left : Seq(Events) \ {<<>>}])
  BY DEF ContextInv, TypeOK
<1>2. 1 \in 1..Len(writeQueue) /\ Head(writeQueue) = writeQueue[1] /\ Len(writeQueue) \in Nat
  BY <1>1, EmptySeq, Shapes
<1>3. /\ writeQueue[1].call \in Calls
      /\ writeQueue[1].left \in Seq(Events) /\ Len(writeQueue[1].left) \in Nat \ {0}
  BY <1>1, <1>2, Shapes
<1>4. pc[writeQueue[1].call] = "writing"
      /\ Sound(writeQueue[1], log, snap[writeQueue[1].call])
  BY <1>2 DEF ContextInv, WritesAreQueued
<1>5. 1 \in 1..Len(writeQueue[1].left) /\ Head(writeQueue[1].left) = writeQueue[1].left[1]
  BY <1>3
<1>6. writeQueue[1].left[1] \in Events /\ writeQueue[1].left[1].by = writeQueue[1].call
  BY <1>3, <1>4, <1>5, ElementOfSeq DEF Sound
<1>7. /\ Tail(writeQueue) \in Seq([call : Calls, left : Seq(Events) \ {<<>>}])
      /\ Len(Tail(writeQueue)) = Len(writeQueue) - 1
      /\ \A i \in 1..Len(Tail(writeQueue)) : Tail(writeQueue)[i] = writeQueue[i + 1]
  BY <1>1, HeadTailProperties
<1>8. \A i \in 1..Len(Tail(writeQueue)) : i + 1 \in 1..Len(writeQueue)
  BY <1>2, <1>7
<1>9. QED
  BY <1>2, <1>3, <1>4, <1>5, <1>6, <1>7, <1>8

(* What one more line, or one lost to a torn line, does to the file. *)
LEMMA FileGrows ==
    ASSUME ContextInv, WriteLine
    PROVE  /\ log' \in Seq(Events) /\ Len(log') \in Nat /\ Len(log) <= Len(log')
           /\ \A i \in 1..Len(log) : log'[i] = log[i]
           /\ \A n \in 0..Len(log) : \A r : StatusIn(log', n, r) = StatusIn(log, n, r)
           /\ \A x : x # writeQueue[1].call => LinesBy(log', x) = LinesBy(log, x)
           /\ \A i \in 1..Len(log') : i \in 1..Len(log) \/
                 (~torn /\ i = Len(log) + 1 /\ log'[i] = writeQueue[1].left[1])
<1> DEFINE e == writeQueue[1].left[1]
<1>1. writeQueue # <<>> /\ log \in Seq(Events) /\ Len(log) \in Nat
  BY Shapes DEF WriteLine, ContextInv
<1>2. e \in Events /\ e.by = writeQueue[1].call /\ log' = IF torn THEN log ELSE Append(log, e)
  BY <1>1, HeadOfQueue DEF WriteLine
<1> HIDE DEF e
<1>3. /\ log' \in Seq(Events) /\ Len(log') \in Nat /\ Len(log) <= Len(log')
      /\ \A i \in 1..Len(log) : log'[i] = log[i]
      /\ \A x : x # writeQueue[1].call => LinesBy(log', x) = LinesBy(log, x)
      /\ \A i \in 1..Len(log') : i \in 1..Len(log) \/ (~torn /\ i = Len(log) + 1 /\ log'[i] = e)
  <2>1. CASE torn
    BY <1>1, <1>2, <2>1
  <2>2. CASE ~torn
    <3>1. log' = Append(log, e)
      BY <1>2, <2>2
    <3>2. /\ log' \in Seq(Events) /\ Len(log') = Len(log) + 1
          /\ \A i \in 1..Len(log) : log'[i] = log[i]
          /\ log'[Len(log) + 1] = e
      BY <1>1, <1>2, <3>1, AppendProperties
    <3>4. ASSUME NEW c, c # e.by PROVE LinesBy(log', c) = LinesBy(log, c)
      BY <1>1, <1>2, <3>1, <3>4, OtherLines
    <3>3. QED
      BY <1>1, <1>2, <2>2, <3>2, <3>4
  <2>3. QED
    BY <2>1, <2>2
<1>4. ASSUME NEW n \in 0..Len(log), NEW r
      PROVE  StatusIn(log', n, r) = StatusIn(log, n, r)
  <2>1. n \in Nat /\ \A i \in 1..n : log'[i] = log[i]
    BY <1>1, <1>3
  <2>2. QED
    BY <2>1, ReplayIsStable
<1>5. QED
  BY <1>3, <1>4 DEF e

(* A write stays sound when the file grows. *)
LEMMA SoundStays ==
    ASSUME ContextInv, WriteLine, NEW w, NEW n \in 0..Len(log), Sound(w, log, n)
    PROVE  Sound(w, log', n)
BY FileGrows DEF Sound

(* A message found in the file is found when it grows. *)
LEMMA HasStays ==
    ASSUME ContextInv, WriteLine, NEW r, NEW x, HasIn(log, Len(log), r, x)
    PROVE  HasIn(log', Len(log), r, x) /\ HasIn(log', Len(log'), r, x)
<1>1. /\ Len(log) \in Nat /\ Len(log') \in Nat /\ Len(log) <= Len(log')
      /\ \A i \in 1..Len(log) : log'[i] = log[i]
  BY FileGrows, Shapes DEF ContextInv
<1>2. HasIn(log', Len(log), r, x)
  BY <1>1 DEF HasIn
<1>3. QED
  BY <1>1, <1>2, HasMore

(* The lines of the file were seen to be allowed, the new one included. *)
LEMMA NewLineIsSeen ==
    ASSUME ContextInv, WriteLine
    PROVE  LinesAreSeen' /\ ArtifactsFollowMessages'
<1> DEFINE c == writeQueue[1].call
           e == writeQueue[1].left[1]
<1>1. TypeOK /\ writeQueue # <<>> /\ snap' = snap /\ failures' = failures
  BY DEF ContextInv, WriteLine
<1>2. /\ c \in Calls /\ pc[c] = "writing" /\ e \in Events /\ e.by = c /\ 1 \in 1..Len(writeQueue)
      /\ 1 \in 1..Len(writeQueue[1].left)
  BY <1>1, HeadOfQueue
<1>3. \A x \in Calls : pc[x] \in Begun => pc'[x] \in Begun
  BY <1>1, <1>2, HeadOfQueue DEF WriteLine, Begun, TypeOK
<1>4. Content(e) => StatusIn(log, snap[c], e.room) = "open"
  BY <1>2 DEF ContextInv, WritesAreQueued, Sound
<1>5. Named(writeQueue[1].left, log) \/ failures # 0
  BY <1>2 DEF ContextInv, MessagesComeFirst
<1>6. failures = 0 /\ e.type = "artifact.attached" /\ e.message # None
         => HasIn(log, Len(log), e.room, e.message)
  BY <1>2, <1>5 DEF Named
<1> HIDE DEF c, e
<1>7. /\ \A i \in 1..Len(log) : log'[i] = log[i]
      /\ \A i \in 1..Len(log') : i \in 1..Len(log) \/ (i = Len(log) + 1 /\ log'[i] = e)
      /\ \A n \in 0..Len(log) : \A r : StatusIn(log', n, r) = StatusIn(log, n, r)
      /\ Len(log) \in Nat
  BY <1>1, FileGrows, Shapes DEF e
<1>8. \A x \in Calls : snap[x] \in 0..Len(log)
  BY <1>1, Shapes
<1>9. LinesAreSeen'
  <2> SUFFICES ASSUME NEW i \in 1..Len(log')
               PROVE  /\ pc'[log'[i].by] \in Begun
                      /\ Content(log'[i]) =>
                            /\ snap[log'[i].by] < i
                            /\ StatusIn(log', snap[log'[i].by], log'[i].room) = "open"
    BY <1>1 DEF LinesAreSeen, Content
  <2>1. CASE i \in 1..Len(log)
    <3>1. log'[i] = log[i] /\ log[i].by \in Calls
      BY <1>1, <1>7, <2>1, Shapes
    <3>2. pc[log[i].by] \in Begun
          /\ (Content(log[i]) => /\ snap[log[i].by] < i
                                 /\ StatusIn(log, snap[log[i].by], log[i].room) = "open")
      BY <2>1 DEF ContextInv, LinesAreSeen
    <3>3. QED
      BY <1>3, <1>7, <1>8, <3>1, <3>2
  <2>2. CASE i = Len(log) + 1 /\ log'[i] = e
    <3>1. pc[c] \in Begun /\ snap[c] < i
      BY <1>2, <1>7, <1>8, <2>2 DEF Begun
    <3>2. QED
      BY <1>2, <1>3, <1>4, <1>7, <1>8, <2>2, <3>1
  <2>3. QED
    BY <1>7, <2>1, <2>2
<1>10. ArtifactsFollowMessages'
  <2> SUFFICES ASSUME failures = 0, NEW i \in 1..Len(log'),
                      log'[i].type = "artifact.attached", log'[i].message # None
               PROVE  HasIn(log', i - 1, log'[i].room, log'[i].message)
    <3>1. log' \in Seq(Events) /\ DOMAIN log' = 1..Len(log')
      BY FileGrows, LenProperties
    <3>2. QED
      BY <1>1, <3>1 DEF ArtifactsFollowMessages, HasMessage, HasIn
  <2>1. CASE i \in 1..Len(log)
    <3>1. log'[i] = log[i] /\ i \in DOMAIN log
      BY <1>1, <1>7, <2>1, LenProperties DEF TypeOK
    <3>2. HasIn(log, i - 1, log[i].room, log[i].message)
      BY <3>1 DEF ContextInv, ArtifactsFollowMessages, HasMessage, HasIn
    <3>3. i - 1 \in Nat /\ \A j \in 1..(i - 1) : log'[j] = log[j]
      BY <1>7, <2>1
    <3>4. QED
      BY <3>1, <3>2, <3>3, ReplayIsStable
  <2>2. CASE i = Len(log) + 1 /\ log'[i] = e
    <3>1. HasIn(log, Len(log), e.room, e.message)
      BY <1>6, <2>2
    <3>2. HasIn(log', Len(log), e.room, e.message) /\ i - 1 = Len(log)
      BY <1>7, <2>2, <3>1, HasStays
    <3>3. QED
      BY <2>2, <3>2
  <2>3. QED
    BY <1>7, <2>1, <2>2
<1>11. QED
  BY <1>9, <1>10

(* The queue behind the head, whether the head goes or stays. *)
LEMMA QueueBehind ==
    ASSUME ContextInv, WriteLine, NEW i \in 1..Len(writeQueue), i # 1
    PROVE  /\ writeQueue[i].call # writeQueue[1].call
           /\ pc'[writeQueue[i].call] = "writing"
           /\ \A j \in 1..Len(writeQueue) : writeQueue[j].call = writeQueue[i].call => j = i
           /\ Sound(writeQueue[i], log', snap'[writeQueue[i].call])
           /\ LinesBy(log', writeQueue[i].call) = {}
           /\ Len(writeQueue[i].left) = LinesOf(op'[writeQueue[i].call])
           /\ failures = 0 => Named(writeQueue[i].left, log')
<1>1. TypeOK /\ writeQueue # <<>> /\ snap' = snap /\ op' = op
  BY DEF ContextInv, WriteLine
<1>2. /\ 1 \in 1..Len(writeQueue) /\ Head(writeQueue) = writeQueue[1] /\ writeQueue[i].call \in Calls
      /\ snap[writeQueue[i].call] \in 0..Len(log) /\ i > 1
  BY <1>1, HeadOfQueue, Shapes
<1>3. /\ pc[writeQueue[i].call] = "writing"
      /\ \A j \in 1..Len(writeQueue) : writeQueue[j].call = writeQueue[i].call => j = i
      /\ Sound(writeQueue[i], log, snap[writeQueue[i].call])
      /\ LinesBy(log, writeQueue[i].call) = {}
      /\ Len(writeQueue[i].left) = LinesOf(op[writeQueue[i].call])
  BY <1>2 DEF ContextInv, WritesAreQueued
<1>4. writeQueue[i].call # writeQueue[1].call
  BY <1>2, <1>3
<1>5. pc'[writeQueue[i].call] = pc[writeQueue[i].call]
  BY <1>1, <1>2, <1>4 DEF WriteLine, TypeOK
<1>6. LinesBy(log', writeQueue[i].call) = {}
  BY <1>3, <1>4, FileGrows
<1>7. ASSUME failures = 0 PROVE Named(writeQueue[i].left, log')
  <2>1. Named(writeQueue[i].left, log)
    BY <1>7 DEF ContextInv, MessagesComeFirst
  <2>2. QED
    BY <2>1, HasStays DEF Named
<1>8. Sound(writeQueue[i], log', snap[writeQueue[i].call])
  BY <1>2, <1>3, SoundStays
<1>9. QED
  BY <1>1, <1>3, <1>4, <1>5, <1>6, <1>7, <1>8

(* The calls that resolved before keep their lines. *)
LEMMA DamageOfOthers ==
    ASSUME ContextInv, WriteLine, NEW x \in Damaged', x # writeQueue[1].call
    PROVE  x \in Damaged
<1>1. TypeOK /\ writeQueue # <<>> /\ op' = op /\ log \in Seq(Events)
  BY DEF ContextInv, WriteLine, TypeOK
<1>2. x \in Calls /\ pc'[x] = "ok" /\ ~StoredIn(log', x, LinesOf(op[x]))
  BY <1>1 DEF Damaged
<1>3. pc[x] = "ok"
  BY <1>1, <1>2, HeadOfQueue DEF WriteLine, TypeOK
<1>4. ~StoredIn(log, x, LinesOf(op[x]))
  BY <1>1, <1>2, FileGrows, StoredStays
<1>5. QED
  BY <1>2, <1>3, <1>4 DEF Damaged

(* The types, after a line was written or lost. *)
LEMMA WriteTypes ==
    ASSUME ContextInv, WriteLine,
           writeQueue' \in Seq([call : Calls, left : Seq(Events) \ {<<>>}])
    PROVE  TypeOK'
<1>1. TypeOK /\ writeQueue # <<>> /\ UNCHANGED <<op, snap, failures>> /\ torn' = FALSE
  BY DEF ContextInv, WriteLine
<1>2. pc' \in [Calls -> {"none", "loading", "loaded", "writing", "ok", "threw", "lost"}]
  BY <1>1 DEF WriteLine, TypeOK
<1>3. log' \in Seq(Events) /\ \A c \in Calls : snap[c] <= Len(log')
  BY <1>1, FileGrows, Shapes
<1>4. QED
  BY <1>1, <1>2, <1>3 DEF TypeOK

(* The last line of a write: the call resolves, and has its lines unless   *)
(* the write had lost one.                                                 *)
LEMMA LastLine ==
    ASSUME ContextInv, WriteLine, Len(writeQueue[1].left) = 1
    PROVE  ContextInv'
<1> DEFINE c == writeQueue[1].call
           e == writeQueue[1].left[1]
<1>1. TypeOK /\ writeQueue # <<>> /\ UNCHANGED <<op, snap, failures>> /\ torn' = FALSE
  BY DEF ContextInv, WriteLine
<1>2. /\ c \in Calls /\ pc[c] = "writing" /\ e \in Events /\ e.by = c
      /\ 1 \in 1..Len(writeQueue) /\ Len(writeQueue) \in Nat
  BY <1>1, HeadOfQueue, Shapes
<1>3. /\ writeQueue' = Tail(writeQueue) /\ pc' = [pc EXCEPT ![c] = "ok"]
      /\ log' = IF torn THEN log ELSE Append(log, e)
  BY <1>1, HeadOfQueue DEF WriteLine
<1> HIDE DEF c, e
<1>4. /\ writeQueue' \in Seq([call : Calls, left : Seq(Events) \ {<<>>}])
      /\ Len(writeQueue') = Len(writeQueue) - 1
      /\ \A i \in 1..Len(writeQueue') :
            i + 1 \in 1..Len(writeQueue) /\ writeQueue'[i] = writeQueue[i + 1]
  BY <1>1, <1>3, HeadOfQueue
<1>5. TypeOK'
  BY <1>4, WriteTypes
<1>6. LinesAreSeen' /\ ArtifactsFollowMessages'
  BY NewLineIsSeen
<1>7. ASSUME NEW i \in 1..Len(writeQueue')
      PROVE  /\ pc'[writeQueue'[i].call] = "writing"
             /\ Sound(writeQueue'[i], log', snap'[writeQueue'[i].call])
             /\ LinesBy(log', writeQueue'[i].call) = {}
             /\ Len(writeQueue'[i].left) = LinesOf(op'[writeQueue'[i].call])
             /\ failures = 0 => Named(writeQueue'[i].left, log')
             /\ \A j \in 1..Len(writeQueue') : writeQueue'[j].call = writeQueue'[i].call => j = i
  <2>1. i + 1 \in 1..Len(writeQueue) /\ i + 1 # 1 /\ writeQueue'[i] = writeQueue[i + 1]
    BY <1>4
  <2>2. \A j \in 1..Len(writeQueue) : writeQueue[j].call = writeQueue[i + 1].call => j = i + 1
    BY <2>1, QueueBehind
  <2>3. ASSUME NEW j \in 1..Len(writeQueue'), writeQueue'[j].call = writeQueue'[i].call
        PROVE  j = i
    <3>1. j + 1 \in 1..Len(writeQueue) /\ writeQueue'[j] = writeQueue[j + 1]
      BY <1>4
    <3>2. j + 1 = i + 1
      BY <2>1, <2>2, <2>3, <3>1
    <3>3. QED
      BY <3>2
  <2>4. QED
    BY <2>1, <2>3, QueueBehind
<1>8. WritesAreQueued'
  BY <1>7 DEF WritesAreQueued
<1>9. MessagesComeFirst'
  BY <1>1, <1>7 DEF MessagesComeFirst
<1>10. HeadIsWhole'
  <2> SUFFICES ASSUME writeQueue' # <<>>
               PROVE  Whole(log', writeQueue'[1].call, Len(writeQueue'[1].left),
                            LinesOf(op'[writeQueue'[1].call]))
    BY DEF HeadIsWhole
  <2>1. 1 \in 1..Len(writeQueue')
    BY <1>2, <1>4, EmptySeq
  <2>2. log' \in Seq(Events)
    BY FileGrows
  <2>3. /\ LinesBy(log', writeQueue'[1].call) = {}
        /\ Len(writeQueue'[1].left) = LinesOf(op'[writeQueue'[1].call])
    BY <1>7, <2>1
  <2>4. LinesOf(op'[writeQueue'[1].call]) \in Nat
    BY LinesType
  <2>5. Whole(log', writeQueue'[1].call, LinesOf(op'[writeQueue'[1].call]),
              LinesOf(op'[writeQueue'[1].call]))
    BY <2>2, <2>3, <2>4, WholeAtFirst
  <2>6. QED
    BY <2>3, <2>5
<1>11. Damaged' \subseteq Damaged \cup {c} /\ c \notin Damaged
  BY <1>2, DamageOfOthers DEF Damaged, c
<1>12. ~torn /\ HeadIsWhole => c \notin Damaged'
  <2> SUFFICES ASSUME ~torn, HeadIsWhole PROVE StoredIn(log', c, LinesOf(op'[c]))
    BY DEF Damaged
  <2>1. Whole(log, c, 0 + 1, LinesOf(op[c]))
    BY <1>1 DEF HeadIsWhole, c
  <2>2. LinesOf(op[c]) \in Nat /\ log \in Seq(Events) /\ log' = Append(log, e)
    BY <1>1, <1>3, LinesType DEF TypeOK
  <2>3. StoredIn(log', c, LinesOf(op[c]))
    BY <1>2, <2>1, <2>2, WholeGrows
  <2>4. QED
    BY <1>1, <2>3
<1>13. IsFiniteSet(Damaged) /\ Cardinality(Damaged) \in Nat /\ failures \in Nat
  BY <1>1, DamagedFinite, Shapes
<1>14. Cardinality(Damaged') <= failures
  <2>1. CASE c \in Damaged'
    <3>1. Cardinality(Damaged) < failures
      BY <1>12, <2>1 DEF ContextInv, LossesAreCounted
    <3>2. IsFiniteSet(Damaged \cup {c}) /\ Cardinality(Damaged \cup {c}) = Cardinality(Damaged) + 1
      BY <1>11, <1>13, FS_AddElement
    <3>3. Cardinality(Damaged') <= Cardinality(Damaged \cup {c}) /\ Cardinality(Damaged') \in Nat
      BY <1>11, <3>2, FS_Subset, FS_CardinalityType
    <3>4. QED
      BY <1>13, <3>1, <3>2, <3>3
  <2>2. CASE c \notin Damaged'
    <3>1. Cardinality(Damaged') <= Cardinality(Damaged) /\ Cardinality(Damaged') \in Nat
      BY <1>11, <1>13, <2>2, FS_Subset, FS_CardinalityType
    <3>2. QED
      BY <1>13, <3>1 DEF ContextInv, LossesAreCounted
  <2>3. QED
    BY <2>1, <2>2
<1>15. LossesAreCounted'
  BY <1>1, <1>10, <1>14 DEF LossesAreCounted
<1>16. QED
  BY <1>5, <1>6, <1>8, <1>9, <1>15 DEF ContextInv

(* A write with other lines left is still the write of its call. *)
LEMMA FewerLines ==
    ASSUME NEW c, NEW left, NEW rest, NEW q, q = [call |-> c, left |-> left]
    PROVE  [q EXCEPT !.left = rest] = [call |-> c, left |-> rest]
OBVIOUS

(* A line with others to follow. *)
LEMMA OneOfMore ==
    ASSUME ContextInv, WriteLine, Len(writeQueue[1].left) # 1
    PROVE  ContextInv'
<1> DEFINE c == writeQueue[1].call
           left == writeQueue[1].left
           e == left[1]
<1>1. TypeOK /\ writeQueue # <<>> /\ UNCHANGED <<op, snap, failures>> /\ torn' = FALSE
  BY DEF ContextInv, WriteLine
<1>2. /\ c \in Calls /\ pc[c] = "writing" /\ e \in Events /\ e.by = c
      /\ 1 \in 1..Len(writeQueue) /\ Len(writeQueue) \in Nat
      /\ left \in Seq(Events) /\ Len(left) \in Nat \ {0, 1}
  BY <1>1, HeadOfQueue, Shapes
<1>3. /\ writeQueue' = [writeQueue EXCEPT ![1].left = Tail(@)] /\ pc' = pc
      /\ log' = IF torn THEN log ELSE Append(log, e)
  BY <1>1, HeadOfQueue DEF WriteLine
<1>4. writeQueue[1] = [call |-> c, left |-> left]
  <2>1. writeQueue[1] \in [call : Calls, left : Seq(Events) \ {<<>>}]
    BY <1>1, <1>2, ElementOfSeq DEF TypeOK
  <2>2. QED
    BY <2>1
<1> HIDE DEF c, left, e
<1>5. /\ Tail(left) \in Seq(Events) /\ Len(Tail(left)) = Len(left) - 1
      /\ \A k \in 1..Len(Tail(left)) : Tail(left)[k] = left[k + 1]
  <2>1. left # <<>>
    BY <1>2, EmptySeq
  <2>2. QED
    BY <1>2, <2>1, HeadTailProperties
<1>6. Tail(left) # <<>>
  <2>1. Len(Tail(left)) # 0
    BY <1>2, <1>5
  <2>2. QED
    BY <2>1, EmptySeq
<1> DEFINE w == [call |-> c, left |-> Tail(left)]
<1>7. /\ writeQueue' = [writeQueue EXCEPT ![1] = w]
      /\ w \in [call : Calls, left : Seq(Events) \ {<<>>}] /\ w.call = c /\ w.left = Tail(left)
  <2>1. w \in [call : Calls, left : Seq(Events) \ {<<>>}] /\ w.call = c /\ w.left = Tail(left)
    BY <1>2, <1>5, <1>6
  <2>2. w = [writeQueue[1] EXCEPT !.left = Tail(writeQueue[1].left)]
    <3>1. writeQueue[1].left = left
      BY DEF left
    <3>2. [writeQueue[1] EXCEPT !.left = Tail(left)] = [call |-> c, left |-> Tail(left)]
      <4> DEFINE q == writeQueue[1]
                 rest == Tail(left)
      <4>1. q = [call |-> c, left |-> left]
        BY <1>4
      <4> HIDE DEF q, rest
      <4>2. [q EXCEPT !.left = rest] = [call |-> c, left |-> rest]
        BY <4>1, FewerLines
      <4>3. QED
        BY <4>2 DEF q, rest
    <3>3. QED
      BY <3>1, <3>2
  <2>3. writeQueue' = [writeQueue EXCEPT ![1] = [writeQueue[1] EXCEPT !.left = Tail(writeQueue[1].left)]]
    BY <1>3
  <2>4. QED
    BY <2>1, <2>2, <2>3
<1> HIDE DEF w
<1>8. /\ writeQueue' \in Seq([call : Calls, left : Seq(Events) \ {<<>>}])
      /\ Len(writeQueue') = Len(writeQueue)
      /\ writeQueue'[1] = w
      /\ \A i \in 1..Len(writeQueue) : i # 1 => writeQueue'[i] = writeQueue[i]
  BY <1>1, <1>2, <1>7, ExceptSeq DEF TypeOK
<1>9. TypeOK'
  BY <1>8, WriteTypes
<1>10. LinesAreSeen' /\ ArtifactsFollowMessages'
  BY NewLineIsSeen
<1>11. /\ Sound(writeQueue[1], log, snap[c])
       /\ \A j \in 1..Len(writeQueue) : writeQueue[j].call = c => j = 1
  BY <1>2 DEF ContextInv, WritesAreQueued, c
<1>12. snap[c] \in 0..Len(log)
  BY <1>1, <1>2, Shapes
<1>13. Sound(w, log', snap[c])
  <2>1. Sound(writeQueue[1], log', snap[c])
    BY <1>11, <1>12, SoundStays
  <2>2. \A k \in 1..Len(Tail(left)) : k + 1 \in 1..Len(left)
    BY <1>2, <1>5
  <2>3. QED
    BY <1>4, <1>5, <1>7, <2>1, <2>2 DEF Sound
<1>14. ASSUME failures = 0 PROVE Named(w.left, log')
  <2>0. ~torn
    BY <1>14, TornIsFailure
  <2>1. Named(left, log)
    BY <1>2, <1>4, <1>14 DEF ContextInv, MessagesComeFirst
  <2>2. log' = Append(log, e) /\ log \in Seq(Events)
    BY <1>1, <1>3, <2>0 DEF TypeOK
  <2>3. /\ Len(log') = Len(log) + 1 /\ Len(log) \in Nat /\ log'[Len(log) + 1] = e
        /\ Len(log) + 1 \in 1..Len(log')
    BY <1>2, <2>2, OneMoreLine
  <2> DEFINE rest == Tail(left)
  <2> SUFFICES ASSUME NEW k \in 1..Len(rest),
                      rest[k].type = "artifact.attached", rest[k].message # None
               PROVE  \/ HasIn(log', Len(log'), rest[k].room, rest[k].message)
                      \/ \E j \in 1..(k - 1) : /\ rest[j].type = "message.posted"
                                               /\ rest[j].room = rest[k].room
                                               /\ rest[j].message = rest[k].message
    <3> HIDE DEF rest
    <3>1. w.left = rest
      BY <1>7 DEF rest
    <3>2. QED
      BY <3>1 DEF Named
  <2> SUFFICES ASSUME ~HasIn(log', Len(log'), rest[k].room, rest[k].message)
               PROVE  \E j \in 1..(k - 1) : /\ rest[j].type = "message.posted"
                                            /\ rest[j].room = rest[k].room
                                            /\ rest[j].message = rest[k].message
    OBVIOUS
  <2>4. Tail(left)[k] = left[k + 1] /\ k + 1 \in 1..Len(left) /\ (k + 1) - 1 = k
    BY <1>2, <1>5
  <2>5. ~HasIn(log, Len(log), left[k + 1].room, left[k + 1].message)
    BY <2>4, HasStays
  <2>6. PICK j \in 1..k : /\ left[j].type = "message.posted"
                          /\ left[j].room = left[k + 1].room
                          /\ left[j].message = left[k + 1].message
    BY <2>1, <2>4, <2>5 DEF Named
  <2>7. j # 1
    <3> SUFFICES ASSUME j = 1 PROVE FALSE
      OBVIOUS
    <3>1. HasIn(log', Len(log'), left[k + 1].room, left[k + 1].message)
      BY <2>3, <2>6 DEF HasIn, e
    <3>2. QED
      BY <2>4, <3>1
  <2>8. j - 1 \in 1..(k - 1) /\ j - 1 \in 1..Len(Tail(left)) /\ (j - 1) + 1 = j
    BY <1>2, <1>5, <2>7
  <2>9. Tail(left)[j - 1] = left[j]
    BY <1>5, <2>8
  <2>10. QED
    BY <2>4, <2>6, <2>8, <2>9
<1>15. WritesAreQueued'
  <2> SUFFICES ASSUME NEW i \in 1..Len(writeQueue)
               PROVE  /\ pc[writeQueue'[i].call] = "writing"
                      /\ \A j \in 1..Len(writeQueue) :
                            writeQueue'[j].call = writeQueue'[i].call => j = i
                      /\ Sound(writeQueue'[i], log', snap[writeQueue'[i].call])
                      /\ i > 1 => /\ LinesBy(log', writeQueue'[i].call) = {}
                                  /\ Len(writeQueue'[i].left) = LinesOf(op[writeQueue'[i].call])
    BY <1>1, <1>3, <1>8 DEF WritesAreQueued
  <2>1. \A j \in 1..Len(writeQueue) : writeQueue'[j].call = writeQueue[j].call
    BY <1>4, <1>7, <1>8
  <2>2. CASE i = 1
    BY <1>2, <1>7, <1>8, <1>11, <1>13, <2>1, <2>2
  <2>3. CASE i # 1
    <3>1. writeQueue'[i] = writeQueue[i]
      BY <1>8, <2>3
    <3>2. /\ pc'[writeQueue[i].call] = "writing"
          /\ \A j \in 1..Len(writeQueue) : writeQueue[j].call = writeQueue[i].call => j = i
          /\ Sound(writeQueue[i], log', snap'[writeQueue[i].call])
          /\ LinesBy(log', writeQueue[i].call) = {}
          /\ Len(writeQueue[i].left) = LinesOf(op'[writeQueue[i].call])
      BY <2>3, QueueBehind
    <3>3. QED
      BY <1>1, <1>3, <2>1, <3>1, <3>2
  <2>4. QED
    BY <2>2, <2>3
<1>16. MessagesComeFirst'
  <2> SUFFICES ASSUME failures = 0, NEW i \in 1..Len(writeQueue)
               PROVE  Named(writeQueue'[i].left, log')
    BY <1>1, <1>8 DEF MessagesComeFirst
  <2>1. CASE i = 1
    BY <1>8, <1>14, <2>1
  <2>2. CASE i # 1
    BY <1>8, <2>2, QueueBehind
  <2>3. QED
    BY <2>1, <2>2
<1>17. Damaged' \subseteq Damaged
  <2> SUFFICES ASSUME NEW x \in Damaged' PROVE x \in Damaged
    OBVIOUS
  <2>1. x # c
    BY <1>2, <1>3 DEF Damaged
  <2>2. QED
    BY <2>1, DamageOfOthers DEF c
<1>18. ~torn /\ HeadIsWhole => HeadIsWhole'
  <2> SUFFICES ASSUME ~torn, HeadIsWhole
               PROVE  Whole(log', c, Len(Tail(left)), LinesOf(op[c]))
    BY <1>1, <1>7, <1>8 DEF HeadIsWhole
  <2>1. Whole(log, c, Len(left), LinesOf(op[c]))
    BY <1>1 DEF HeadIsWhole, c, left
  <2>2. Len(Tail(left)) \in Nat /\ Len(left) = Len(Tail(left)) + 1
    BY <1>2, <1>5
  <2>3. LinesOf(op[c]) \in Nat /\ log \in Seq(Events) /\ log' = Append(log, e)
    BY <1>1, <1>3, LinesType DEF TypeOK
  <2> DEFINE n == Len(Tail(left))
  <2> HIDE DEF n
  <2>4. n \in Nat /\ Whole(log, e.by, n + 1, LinesOf(op[c]))
    BY <1>2, <2>1, <2>2 DEF n
  <2>5. Whole(log', e.by, n, LinesOf(op[c]))
    BY <1>2, <2>3, <2>4, WholeGrows
  <2>6. QED
    BY <1>2, <2>5 DEF n
<1>19. LossesAreCounted'
  <2>1. IsFiniteSet(Damaged) /\ Cardinality(Damaged) \in Nat /\ failures \in Nat
    BY <1>1, DamagedFinite, Shapes
  <2>2. Cardinality(Damaged') <= Cardinality(Damaged) /\ Cardinality(Damaged') \in Nat
    BY <1>17, <2>1, FS_Subset, FS_CardinalityType
  <2>3. QED
    BY <1>1, <1>18, <2>1, <2>2 DEF ContextInv, LossesAreCounted
<1>20. QED
  BY <1>9, <1>10, <1>15, <1>16, <1>19 DEF ContextInv

(* A line of the running write is written, or lost to a torn one. *)
LEMMA WriteLineStep ==
    ASSUME ContextInv, WriteLine
    PROVE  ContextInv'
BY LastLine, OneOfMore

(* A failure takes no line out of the file, and raises what may be lost.   *)
LEMMA FailureStep ==
    ASSUME ContextInv, failures < MaxFailures, failures' = failures + 1,
           UNCHANGED <<log, op, snap>>, torn' \in BOOLEAN,
           pc' \in [Calls -> {"none", "loading", "loaded", "writing", "ok", "threw", "lost"}],
           \A x \in Calls : /\ pc[x] \in Begun => pc'[x] \in Begun
                            /\ pc'[x] = "ok" => pc[x] = "ok",
           writeQueue' \in Seq([call : Calls, left : Seq(Events) \ {<<>>}]),
           WritesAreQueued'
    PROVE  ContextInv'
<1>1. TypeOK /\ failures \in Nat /\ MaxFailures \in Nat
  BY Shapes, FailuresAssumption DEF ContextInv
<1>2. failures' \in 0..MaxFailures /\ failures' # 0
  BY <1>1
<1>3. TypeOK'
  BY <1>1, <1>2 DEF TypeOK
<1>4. LinesAreSeen'
  <2> SUFFICES ASSUME NEW i \in 1..Len(log)
               PROVE  /\ pc'[log[i].by] \in Begun
                      /\ Content(log[i]) =>
                            /\ snap[log[i].by] < i
                            /\ StatusIn(log, snap[log[i].by], log[i].room) = "open"
    BY DEF LinesAreSeen, Content
  <2>1. log[i].by \in Calls
    BY <1>1, Shapes
  <2>2. QED
    BY <2>1 DEF ContextInv, LinesAreSeen
<1>5. MessagesComeFirst' /\ ArtifactsFollowMessages'
  BY <1>2 DEF MessagesComeFirst, ArtifactsFollowMessages
<1>6. Damaged' \subseteq Damaged
  BY DEF Damaged
<1>7. IsFiniteSet(Damaged) /\ Cardinality(Damaged) \in Nat
  BY DamagedFinite
<1>8. Cardinality(Damaged') <= Cardinality(Damaged) /\ Cardinality(Damaged') \in Nat
  BY <1>6, <1>7, FS_Subset, FS_CardinalityType
<1>9. Cardinality(Damaged) <= failures
  BY DEF ContextInv, LossesAreCounted
<1>10. Cardinality(Damaged') < failures'
  BY <1>1, <1>7, <1>8, <1>9
<1>11. LossesAreCounted'
  BY <1>1, <1>8, <1>10 DEF LossesAreCounted
<1>12. QED
  BY <1>3, <1>4, <1>5, <1>11 DEF ContextInv

(* The running write fails and the next one runs. *)
LEMMA WriteFailsStep ==
    ASSUME ContextInv, WriteFails
    PROVE  ContextInv'
<1> DEFINE c == writeQueue[1].call
<1>1. /\ TypeOK /\ writeQueue # <<>> /\ UNCHANGED <<log, op, snap>>
      /\ failures < MaxFailures /\ failures' = failures + 1 /\ torn' \in BOOLEAN
      /\ writeQueue' = Tail(writeQueue)
  BY DEF ContextInv, WriteFails, TypeOK
<1>2. c \in Calls /\ pc[c] = "writing" /\ 1 \in 1..Len(writeQueue) /\ Len(writeQueue) \in Nat
  BY <1>1, HeadOfQueue, Shapes
<1>3. pc' = [pc EXCEPT ![c] = "threw"]
  BY <1>1, HeadOfQueue DEF WriteFails
<1> HIDE DEF c
<1>4. /\ pc' \in [Calls -> {"none", "loading", "loaded", "writing", "ok", "threw", "lost"}]
      /\ \A x \in Calls : x # c => pc'[x] = pc[x]
      /\ \A x \in Calls : /\ pc[x] \in Begun => pc'[x] \in Begun
                          /\ pc'[x] = "ok" => pc[x] = "ok"
  BY <1>1, <1>2, <1>3 DEF TypeOK, Begun
<1>5. /\ writeQueue' \in Seq([call : Calls, left : Seq(Events) \ {<<>>}])
      /\ Len(writeQueue') = Len(writeQueue) - 1
      /\ \A i \in 1..Len(writeQueue') :
            i + 1 \in 1..Len(writeQueue) /\ writeQueue'[i] = writeQueue[i + 1]
  BY <1>1, HeadOfQueue
<1>6. WritesAreQueued'
  <2> SUFFICES ASSUME NEW i \in 1..Len(writeQueue')
               PROVE  /\ pc'[writeQueue'[i].call] = "writing"
                      /\ \A j \in 1..Len(writeQueue') :
                            writeQueue'[j].call = writeQueue'[i].call => j = i
                      /\ Sound(writeQueue'[i], log, snap[writeQueue'[i].call])
                      /\ LinesBy(log, writeQueue'[i].call) = {}
                      /\ Len(writeQueue'[i].left) = LinesOf(op[writeQueue'[i].call])
    BY <1>1 DEF WritesAreQueued
  <2>1. i + 1 \in 1..Len(writeQueue) /\ i + 1 > 1 /\ i + 1 # 1 /\ writeQueue'[i] = writeQueue[i + 1]
    BY <1>5
  <2>2. /\ pc[writeQueue[i + 1].call] = "writing"
        /\ \A j \in 1..Len(writeQueue) : writeQueue[j].call = writeQueue[i + 1].call => j = i + 1
        /\ Sound(writeQueue[i + 1], log, snap[writeQueue[i + 1].call])
        /\ LinesBy(log, writeQueue[i + 1].call) = {}
        /\ Len(writeQueue[i + 1].left) = LinesOf(op[writeQueue[i + 1].call])
    BY <2>1 DEF ContextInv, WritesAreQueued
  <2>3. writeQueue[i + 1].call \in Calls /\ writeQueue[i + 1].call # c
    BY <1>1, <1>2, <2>1, <2>2, Shapes DEF c
  <2>4. ASSUME NEW j \in 1..Len(writeQueue'), writeQueue'[j].call = writeQueue'[i].call
        PROVE  j = i
    <3>1. j + 1 \in 1..Len(writeQueue) /\ writeQueue'[j] = writeQueue[j + 1]
      BY <1>5
    <3>2. j + 1 = i + 1
      BY <2>1, <2>2, <2>4, <3>1
    <3>3. QED
      BY <3>2
  <2>5. QED
    BY <1>4, <2>1, <2>2, <2>3, <2>4
<1>7. QED
  BY <1>1, <1>4, <1>5, <1>6, FailureStep

(* The gateway is started again on the file it left. *)
LEMMA RestartStep ==
    ASSUME ContextInv, Restart
    PROVE  ContextInv'
<1>1. /\ TypeOK /\ UNCHANGED <<log, op, snap>>
      /\ failures < MaxFailures /\ failures' = failures + 1 /\ torn' \in BOOLEAN
      /\ writeQueue' = <<>>
      /\ pc' = [c \in Calls |-> IF InProgress(c) THEN "lost" ELSE pc[c]]
  BY DEF ContextInv, Restart, TypeOK
<1>2. /\ pc' \in [Calls -> {"none", "loading", "loaded", "writing", "ok", "threw", "lost"}]
      /\ \A x \in Calls : /\ pc[x] \in Begun => pc'[x] \in Begun
                          /\ pc'[x] = "ok" => pc[x] = "ok"
  BY <1>1 DEF TypeOK, Begun, InProgress
<1>3. /\ writeQueue' \in Seq([call : Calls, left : Seq(Events) \ {<<>>}])
      /\ Len(writeQueue') = 0
  BY <1>1, EmptySeq
<1>4. WritesAreQueued'
  BY <1>3 DEF WritesAreQueued
<1>5. QED
  BY <1>1, <1>2, <1>3, <1>4, FailureStep

-----------------------------------------------------------------------------
(* The theorems *)

(* An empty file, no calls. *)
LEMMA ContextInit ==
    ASSUME Init
    PROVE  ContextInv
<1>1. /\ log \in Seq(Events) /\ Len(log) = 0 /\ DOMAIN log = {} /\ writeQueue = <<>>
      /\ writeQueue \in Seq([call : Calls, left : Seq(Events) \ {<<>>}]) /\ Len(writeQueue) = 0
  BY EmptySeq DEF Init
<1>2. TypeOK
  <2>1. op \in [Calls -> Ops \cup {Unused}]
    BY DEF Init
  <2>2. /\ pc \in [Calls -> {"none", "loading", "loaded", "writing", "ok", "threw", "lost"}]
        /\ torn \in BOOLEAN
    BY DEF Init
  <2>3. snap \in [Calls -> Nat] /\ \A c \in Calls : snap[c] <= Len(log)
    BY <1>1 DEF Init
  <2>4. failures \in 0..MaxFailures
    BY FailuresAssumption DEF Init
  <2>5. QED
    BY <1>1, <2>1, <2>2, <2>3, <2>4 DEF TypeOK
<1>3. LinesAreSeen /\ WritesAreQueued /\ MessagesComeFirst /\ ArtifactsFollowMessages
  BY <1>1 DEF LinesAreSeen, WritesAreQueued, MessagesComeFirst, ArtifactsFollowMessages
<1>4. Damaged = {}
  BY DEF Damaged, Init
<1>5. Cardinality(Damaged) = 0
  BY <1>4, FS_EmptySet
<1>6. LossesAreCounted
  BY <1>1, <1>5 DEF LossesAreCounted, HeadIsWhole, Init
<1>7. QED
  BY <1>2, <1>3, <1>6 DEF ContextInv

(* Every step keeps the invariant. *)
LEMMA ContextNext ==
    ASSUME ContextInv, [Next]_vars
    PROVE  ContextInv'
<1>1. ASSUME NEW c \in Calls, NEW o \in Inputs(c), Start(c, o)
      PROVE  ContextInv'
  BY <1>1, StartStep
<1>2. ASSUME NEW c \in Calls, loadState(c) \/ Throw(c)
      PROVE  ContextInv'
  BY <1>2, LoadOrThrow
<1>3. ASSUME NEW c \in Calls, Continue(c)
      PROVE  ContextInv'
  BY <1>3, ContinueStep
<1>4. CASE WriteLine
  BY <1>4, WriteLineStep
<1>5. CASE WriteFails
  BY <1>5, WriteFailsStep
<1>6. CASE Restart
  BY <1>6, RestartStep
<1>7. CASE UNCHANGED vars
  <2>1. UNCHANGED <<log, torn, writeQueue, op, pc, snap, failures>>
    BY <1>7 DEF vars
  <2>2. Damaged' = Damaged /\ HeadIsWhole' = HeadIsWhole
    BY <2>1 DEF Damaged, HeadIsWhole
  <2>3. TypeOK' /\ LossesAreCounted'
    BY <2>1, <2>2 DEF ContextInv, TypeOK, LossesAreCounted
  <2>4. LinesAreSeen' /\ ArtifactsFollowMessages'
    BY <2>1 DEF ContextInv, LinesAreSeen, Content, ArtifactsFollowMessages, HasMessage
  <2>5. WritesAreQueued' /\ MessagesComeFirst'
    BY <2>1 DEF ContextInv, WritesAreQueued, MessagesComeFirst
  <2>6. QED
    BY <2>3, <2>4, <2>5 DEF ContextInv
<1>8. QED
  BY <1>1, <1>2, <1>3, <1>4, <1>5, <1>6, <1>7 DEF Next

(* The inductive invariant holds in every state the store can reach, with  *)
(* it the types: no call's snapshot is ever longer than the file.          *)
THEOREM ContextCorrect == Spec => []ContextInv
<1>1. Init => ContextInv
  BY ContextInit
<1>2. ContextInv /\ [Next]_vars => ContextInv'
  BY ContextNext
<1>3. QED
  BY <1>1, <1>2, PTL DEF Spec

(* Whatever the calls, their interleaving, the failed writes and the       *)
(* restarts: content in the file was let in by an earlier load that showed *)
(* its room open.                                                          *)
THEOREM ContentSawOpenRoom == Spec => []WritesSawOpenRoom
<1>1. ContextInv => WritesSawOpenRoom
  <2> SUFFICES ASSUME ContextInv, NEW i \in DOMAIN log, Content(log[i])
               PROVE  /\ snap[log[i].by] < i
                      /\ Status(snap[log[i].by], log[i].room) = "open"
    BY DEF WritesSawOpenRoom
  <2>1. i \in 1..Len(log)
    BY LenProperties DEF ContextInv, TypeOK
  <2>2. snap[log[i].by] < i /\ StatusIn(log, snap[log[i].by], log[i].room) = "open"
    BY <2>1 DEF ContextInv, LinesAreSeen
  <2>3. \A n, r : Status(n, r) = StatusIn(log, n, r)
    BY DEF Status, RoomEvents, StatusIn, RoomLines
  <2>4. QED
    BY <2>2, <2>3
<1>2. QED
  BY <1>1, ContextCorrect, PTL

(* As long as no write fails, an artifact in the file comes after the      *)
(* message it names, in the same room.                                     *)
THEOREM ArtifactsHaveMessages == Spec => []ArtifactsFollowMessages
<1>1. ContextInv => ArtifactsFollowMessages
  BY DEF ContextInv
<1>2. QED
  BY <1>1, ContextCorrect, PTL

(* The calls that resolved without having all their lines in the file, one *)
(* after the other, are never more than the failed writes and restarts.    *)
THEOREM LossesAreBounded == Spec => []AcknowledgedIsStored
<1>1. ContextInv => AcknowledgedIsStored
  <2> SUFFICES ASSUME ContextInv PROVE AcknowledgedIsStored
    OBVIOUS
  <2>1. DOMAIN log = 1..Len(log)
    BY LenProperties DEF ContextInv, TypeOK
  <2>2. ASSUME NEW c \in Calls PROVE Complete(c) <=> StoredIn(log, c, LinesOf(op[c]))
    <3>1. EventsOf(c) = LinesBy(log, c) /\ Lines(c) = LinesOf(op[c])
      BY <2>1 DEF EventsOf, LinesBy, Lines, LinesOf
    <3>2. QED
      BY <3>1 DEF Complete, StoredIn
  <2>3. {c \in Calls : pc[c] = "ok" /\ ~Complete(c)} = Damaged
    BY <2>2 DEF Damaged
  <2>4. Cardinality(Damaged) <= failures
    BY DEF ContextInv, LossesAreCounted
  <2>5. QED
    BY <2>3, <2>4 DEF AcknowledgedIsStored
<1>2. QED
  BY <1>1, ContextCorrect, PTL
==============================================================================
