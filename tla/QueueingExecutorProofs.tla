----------------------- MODULE QueueingExecutorProofs -----------------------
(***************************************************************************)
(* What QueueingExecutor guarantees for every number of requests, tasks    *)
(* and slots, however the requests share task ids.                         *)
(***************************************************************************)
EXTENDS QueueingExecutor, SequenceTheorems, FiniteSetTheorems, WellFoundedInduction, TLAPS

(* A non-empty set of naturals has a least element, which Min names.       *)
LEMMA MinProperty ==
    ASSUME NEW I, I \subseteq Nat, I # {}
    PROVE  Min(I) \in I /\ \A y \in I : Min(I) <= y
<1> DEFINE T == {0..n : n \in I}
<1>1. T \subseteq FiniteSubsetsOf(Nat)
  <2> SUFFICES ASSUME NEW n \in I PROVE 0..n \in FiniteSubsetsOf(Nat)
    OBVIOUS
  <2>1. IsFiniteSet(0..n)
    BY FS_Interval
  <2>2. QED
    BY <2>1 DEF FiniteSubsetsOf
<1>2. T # {}
  OBVIOUS
<1>3. PICK U \in T : \A V \in T : ~(<<V, U>> \in StrictSubsetOrdering(Nat))
  BY <1>1, <1>2, WFMin, FS_StrictSubsetOrderingWellFounded
<1>4. PICK x \in I : U = 0..x
  OBVIOUS
<1>5. \A y \in I : x <= y
  <2> SUFFICES ASSUME NEW y \in I, y < x PROVE FALSE
    OBVIOUS
  <2>1. 0..y \subseteq 0..x /\ 0..y # 0..x
    <3>1. x \in 0..x /\ x \notin 0..y
      OBVIOUS
    <3>2. QED
      BY <3>1
  <2>2. <<0..y, 0..x>> \in StrictSubsetOrdering(Nat)
    BY <2>1 DEF StrictSubsetOrdering
  <2>3. QED
    BY <2>2, <1>3, <1>4
<1>6. QED
  BY <1>5 DEF Min

(* Removing the i-th entry keeps the others, in their order.               *)
LEMMA RemoveAtProperties ==
    ASSUME NEW S, NEW q \in Seq(S), NEW i \in 1..Len(q)
    PROVE  /\ RemoveAt(q, i) \in Seq(S)
           /\ Len(RemoveAt(q, i)) = Len(q) - 1
           /\ \A j \in 1..(Len(q) - 1) :
                RemoveAt(q, i)[j] = IF j < i THEN q[j] ELSE q[j + 1]
<1> DEFINE a == SubSeq(q, 1, i - 1)
           b == SubSeq(q, i + 1, Len(q))
<1>0. Len(q) \in Nat /\ \A k \in 1..Len(q) : q[k] \in S
  BY ElementOfSeq, LenProperties
<1>1. /\ a \in Seq(S)
      /\ Len(a) = i - 1
      /\ \A k \in 1..(i - 1) : a[k] = q[k]
  BY <1>0, SubSeqProperties
<1>2. /\ b \in Seq(S)
      /\ Len(b) = Len(q) - i
      /\ \A k \in 1..(Len(q) - i) : b[k] = q[i + k]
  BY <1>0, SubSeqProperties
<1> HIDE DEF a, b
<1>3. /\ a \o b \in Seq(S)
      /\ Len(a \o b) = Len(q) - 1
      /\ \A j \in 1..(Len(q) - 1) : (a \o b)[j] = IF j <= i - 1 THEN a[j] ELSE b[j - (i - 1)]
  <2>1. /\ a \o b \in Seq(S)
        /\ Len(a \o b) = Len(a) + Len(b)
        /\ \A j \in 1..(Len(a) + Len(b)) :
             (a \o b)[j] = IF j <= Len(a) THEN a[j] ELSE b[j - Len(a)]
    BY <1>1, <1>2, ConcatProperties
  <2>2. Len(a) + Len(b) = Len(q) - 1
    BY <1>0, <1>1, <1>2
  <2>3. QED
    BY <2>1, <2>2, <1>1
<1>4. \A j \in 1..(Len(q) - 1) : (a \o b)[j] = IF j < i THEN q[j] ELSE q[j + 1]
  <2> SUFFICES ASSUME NEW j \in 1..(Len(q) - 1)
               PROVE  (a \o b)[j] = IF j < i THEN q[j] ELSE q[j + 1]
    OBVIOUS
  <2>1. CASE j < i
    <3>1. j <= i - 1 /\ j \in 1..(i - 1)
      BY <1>0, <2>1
    <3>2. QED
      BY <3>1, <1>1, <1>3, <2>1
  <2>2. CASE ~(j < i)
    <3>1. /\ ~(j <= i - 1)
          /\ j - (i - 1) \in 1..(Len(q) - i)
          /\ i + (j - (i - 1)) = j + 1
      BY <1>0, <2>2
    <3>2. (a \o b)[j] = b[j - (i - 1)]
      BY <3>1, <1>3
    <3>3. QED
      BY <3>1, <3>2, <1>2, <2>2
  <2>3. QED
    BY <2>1, <2>2
<1>5. RemoveAt(q, i) = a \o b
  BY DEF RemoveAt, a, b
<1>6. QED
  BY <1>3, <1>4, <1>5

(* queuedIndex points at an entry of the task id, or is 0 when none is.    *)
LEMMA QueuedIndexProperties ==
    ASSUME NEW q \in Seq(Requests), NEW t
    PROVE  \/ /\ queuedIndex(q, t) = 0
              /\ \A i \in 1..Len(q) : TaskOf[q[i]] # t
           \/ /\ queuedIndex(q, t) \in 1..Len(q)
              /\ TaskOf[q[queuedIndex(q, t)]] = t
<1> DEFINE I == {i \in 1..Len(q) : TaskOf[q[i]] = t}
<1>1. CASE I = {}
  BY <1>1 DEF queuedIndex, SelectInSeq
<1>2. CASE I # {}
  <2>1. Min(I) \in I
    <3>1. I \subseteq Nat
      OBVIOUS
    <3> HIDE DEF I
    <3>2. QED
      BY <3>1, <1>2, MinProperty
  <2>2. queuedIndex(q, t) = Min(I)
    BY <1>2 DEF queuedIndex, SelectInSeq
  <2>3. QED
    BY <2>1, <2>2
<1>3. QED
  BY <1>1, <1>2

(* What queueDelete does to the queue: nothing, or it drops one entry of   *)
(* the task id.                                                            *)
LEMMA QueueDeleteProperties ==
    ASSUME NEW q \in Seq(Requests), NEW t
    PROVE  \/ /\ queueDelete(q, t) = q
              /\ \A i \in 1..Len(q) : TaskOf[q[i]] # t
           \/ \E i \in 1..Len(q) : /\ TaskOf[q[i]] = t
                                   /\ queueDelete(q, t) = RemoveAt(q, i)
BY QueuedIndexProperties DEF queueDelete

-----------------------------------------------------------------------------
(* The telemetry operators map counters to counters and set the gauges.    *)

(* setQueueState() keeps the counters natural numbers and sets the gauges. *)
LEMMA SetQueueStateProperties ==
    ASSUME NEW m \in [Counters -> Nat], NEW a \in Nat, NEW d \in Nat
    PROVE  /\ setQueueState(m, a, d) \in [Counters -> Nat]
           /\ setQueueState(m, a, d)["active"] = a
           /\ setQueueState(m, a, d)["queue_depth"] = d
           /\ setQueueState(m, a, d)["max_active_observed"] = Larger(m["max_active_observed"], a)
           /\ setQueueState(m, a, d)["max_queue_depth_observed"] = Larger(m["max_queue_depth_observed"], d)
           /\ \A c \in Counters \ {"active", "queue_depth", "max_active_observed", "max_queue_depth_observed"} :
                setQueueState(m, a, d)[c] = m[c]
BY DEF setQueueState, Counters, Larger

(* Counting keeps the counters natural numbers. *)
LEMMA IncrementType ==
    ASSUME NEW m \in [Counters -> Nat], NEW C
    PROVE  Increment(m, C) \in [Counters -> Nat]
BY DEF Increment

(* Every record method of GatewayTelemetry keeps the counters' type. *)
LEMMA RecordTypes ==
    ASSUME NEW m \in [Counters -> Nat], NEW a \in Nat, NEW d \in Nat, NEW s
    PROVE  /\ recordTaskQueued(m, d) \in [Counters -> Nat]
           /\ recordTaskStart(m, a, d) \in [Counters -> Nat]
           /\ recordTaskFinish(m, s, a, d) \in [Counters -> Nat]
           /\ recordQueueRejected(m, d) \in [Counters -> Nat]
<1>1. m["active"] \in Nat
  BY DEF Counters
<1>2. QED
  BY <1>1, IncrementType, SetQueueStateProperties
     DEF recordTaskQueued, recordTaskStart, recordTaskFinish, recordQueueRejected

-----------------------------------------------------------------------------
(* The requests in a queue, and that none is in it twice.                  *)

Entries(q) == {q[i] : i \in 1..Len(q)}

Distinct(q) == \A i, j \in 1..Len(q) : q[i] = q[j] => i = j

(* splice() keeps the entries of a queue distinct and removes exactly one. *)
LEMMA RemoveAtEntries ==
    ASSUME NEW q \in Seq(Requests), NEW i \in 1..Len(q)
    PROVE  /\ RemoveAt(q, i) \in Seq(Requests)
           /\ Len(RemoveAt(q, i)) < Len(q)
           /\ Entries(RemoveAt(q, i)) \subseteq Entries(q)
           /\ Distinct(q) => /\ Distinct(RemoveAt(q, i))
                             /\ Entries(RemoveAt(q, i)) = Entries(q) \ {q[i]}
<1> DEFINE d == RemoveAt(q, i)
<1>1. /\ d \in Seq(Requests)
      /\ Len(d) = Len(q) - 1
      /\ \A j \in 1..(Len(q) - 1) : d[j] = IF j < i THEN q[j] ELSE q[j + 1]
  BY RemoveAtProperties
<1>2. Len(q) \in Nat
  BY LenProperties
<1> HIDE DEF d
<1>3. Entries(d) \subseteq Entries(q)
  BY <1>1, <1>2 DEF Entries
<1>4. ASSUME Distinct(q)
      PROVE  Distinct(d) /\ Entries(d) = Entries(q) \ {q[i]}
  <2>1. Distinct(d)
    BY <1>1, <1>2, <1>4 DEF Distinct
  <2>2. q[i] \notin Entries(d)
    BY <1>1, <1>2, <1>4 DEF Distinct, Entries
  <2>3. ASSUME NEW k \in 1..Len(q), k # i
        PROVE  q[k] \in Entries(d)
    <3>1. CASE k < i
      BY <3>1, <1>1, <1>2 DEF Entries
    <3>2. CASE k > i
      <4>1. k - 1 \in 1..Len(d) /\ d[k - 1] = q[k]
        BY <3>2, <1>1, <1>2
      <4>2. QED
        BY <4>1 DEF Entries
    <3>3. QED
      BY <2>3, <3>1, <3>2, <1>2
  <2>4. QED
    BY <2>1, <2>2, <2>3, <1>3 DEF Entries
<1>5. QED
  BY <1>1, <1>2, <1>3, <1>4 DEF d

(* queueDelete() brings no entry into the queue. *)
LEMMA QueueDeleteEntries ==
    ASSUME NEW q \in Seq(Requests), NEW t
    PROVE  /\ queueDelete(q, t) \in Seq(Requests)
           /\ Len(queueDelete(q, t)) <= Len(q)
           /\ Entries(queueDelete(q, t)) \subseteq Entries(q)
           /\ Distinct(q) => Distinct(queueDelete(q, t))
<1>1. CASE queueDelete(q, t) = q
  BY <1>1, LenProperties
<1>2. CASE \E i \in 1..Len(q) : queueDelete(q, t) = RemoveAt(q, i)
  <2>1. PICK i \in 1..Len(q) : queueDelete(q, t) = RemoveAt(q, i)
    BY <1>2
  <2>2. RemoveAt(q, i) \in Seq(Requests) /\ Len(RemoveAt(q, i)) <= Len(q)
    BY RemoveAtEntries, LenProperties
  <2>3. QED
    BY <2>1, <2>2, RemoveAtEntries
<1>3. QED
  BY <1>1, <1>2, QueueDeleteProperties

(* shift() keeps the entries distinct and takes out the head. *)
LEMMA TailEntries ==
    ASSUME NEW q \in Seq(Requests), q # <<>>
    PROVE  /\ Head(q) \in Requests
           /\ Head(q) \in Entries(q)
           /\ Tail(q) \in Seq(Requests)
           /\ Len(Tail(q)) < Len(q)
           /\ Entries(Tail(q)) \subseteq Entries(q)
           /\ Distinct(q) => /\ Distinct(Tail(q))
                             /\ Entries(Tail(q)) = Entries(q) \ {Head(q)}
<1> DEFINE d == Tail(q)
<1>1. /\ Head(q) \in Requests
      /\ d \in Seq(Requests)
      /\ Len(d) = Len(q) - 1
      /\ \A i \in 1..Len(d) : d[i] = q[i + 1]
  BY HeadTailProperties
<1>2. Len(q) \in Nat \ {0} /\ Head(q) = q[1]
  BY EmptySeq
<1> HIDE DEF d
<1>3. Head(q) \in Entries(q) /\ Entries(d) \subseteq Entries(q)
  BY <1>1, <1>2 DEF Entries
<1>4. ASSUME Distinct(q)
      PROVE  Distinct(d) /\ Entries(d) = Entries(q) \ {Head(q)}
  <2>1. Distinct(d)
    BY <1>1, <1>2, <1>4 DEF Distinct
  <2>2. q[1] \notin Entries(d)
    BY <1>1, <1>2, <1>4 DEF Distinct, Entries
  <2>3. ASSUME NEW k \in 1..Len(q), k # 1
        PROVE  q[k] \in Entries(d)
    <3>1. k - 1 \in 1..Len(d) /\ d[k - 1] = q[k]
      BY <2>3, <1>1, <1>2
    <3>2. QED
      BY <3>1 DEF Entries
  <2>4. QED
    BY <2>1, <2>2, <2>3, <1>2, <1>3 DEF Entries
<1>5. QED
  BY <1>1, <1>2, <1>3, <1>4 DEF d

(* push() of an entry that is not queued keeps the entries distinct. *)
LEMMA AppendEntries ==
    ASSUME NEW q \in Seq(Requests), NEW r \in Requests
    PROVE  /\ Append(q, r) \in Seq(Requests)
           /\ Len(Append(q, r)) = Len(q) + 1
           /\ Entries(Append(q, r)) = Entries(q) \cup {r}
           /\ Distinct(q) /\ r \notin Entries(q) => Distinct(Append(q, r))
<1> DEFINE d == Append(q, r)
<1>1. /\ d \in Seq(Requests)
      /\ Len(d) = Len(q) + 1
      /\ \A i \in 1..Len(q) : d[i] = q[i]
      /\ d[Len(q) + 1] = r
  BY AppendProperties
<1>2. Len(q) \in Nat
  BY LenProperties
<1> HIDE DEF d
<1>3. Entries(d) = Entries(q) \cup {r}
  BY <1>1, <1>2 DEF Entries
<1>4. Distinct(q) /\ r \notin Entries(q) => Distinct(d)
  BY <1>1, <1>2 DEF Entries, Distinct
<1>5. QED
  BY <1>1, <1>3, <1>4 DEF d

-----------------------------------------------------------------------------
(* Type correctness.                                                       *)

(* The limits the constructor stores are usable whatever was configured. *)
LEMMA LimitTypes == MaxConcurrent \in Nat \ {0} /\ MaxQueued \in Nat
BY LimitsAssumption DEF MaxConcurrent, MaxQueued

(* runEntry keeps the types of the variables it assigns.                   *)
LEMMA RunEntryTypes ==
    ASSUME TypeOK, NEW r \in Requests, NEW q \in Seq(Requests), runEntry(r, q)
    PROVE  /\ queue' \in Seq(Requests)
           /\ Len(queue') \in Nat
           /\ activeTasks' \in Nat
           /\ running' \subseteq Requests
           /\ finalState' = finalState
           /\ last' \in [Tasks -> Published]
           /\ finished' = finished
           /\ metrics' \in [Counters -> Nat]
<1>1. queue' \in Seq(Requests) /\ Len(queue') \in Nat
  BY QueueDeleteEntries, LenProperties DEF runEntry
<1>2. activeTasks' = activeTasks + 1 /\ activeTasks' \in Nat
  BY DEF runEntry, TypeOK
<1>3. metrics' = recordTaskStart(metrics, activeTasks + 1, Len(queue'))
  BY DEF runEntry
<1>4. metrics' \in [Counters -> Nat]
  BY <1>1, <1>2, <1>3, RecordTypes DEF TypeOK
<1>5. last' \in [Tasks -> Published]
  BY TaskOfAssumption DEF runEntry, publish, TypeOK, Published
<1>6. QED
  BY <1>1, <1>2, <1>4, <1>5 DEF runEntry, TypeOK

(* Every step keeps the types. *)
LEMMA TypeStep == TypeOK /\ [Next]_vars => TypeOK'
<1> SUFFICES ASSUME TypeOK, [Next]_vars PROVE TypeOK'
  OBVIOUS
<1> USE TaskOfAssumption
<1>0. Len(queue) \in Nat /\ activeTasks \in Nat
  BY LenProperties DEF TypeOK
<1>1. ASSUME NEW r \in Requests, execute(r)
      PROVE  TypeOK'
  <2>1. CASE ExecuteRuns(r)
    <3>1. runEntry(r, queue)
      BY <2>1 DEF ExecuteRuns
    <3>2. QED
      BY <1>1, <2>1, <3>1, RunEntryTypes DEF execute, ExecuteRuns, TypeOK
  <2>2. CASE ExecuteRejects(r)
    <3>1. metrics' \in [Counters -> Nat]
      BY <1>0, <2>2, RecordTypes DEF ExecuteRejects, TypeOK
    <3>2. QED
      BY <1>1, <2>2, <3>1 DEF execute, ExecuteRejects, TypeOK, publish, finish, Published
  <2>3. CASE ExecuteQueues(r)
    <3>1. queue' \in Seq(Requests) /\ Len(queue') \in Nat
      BY <1>0, <2>3, AppendEntries DEF ExecuteQueues, TypeOK
    <3>2. metrics' \in [Counters -> Nat]
      BY <1>0, <2>3, <3>1, RecordTypes DEF ExecuteQueues, TypeOK
    <3>3. QED
      BY <1>1, <2>3, <3>1, <3>2 DEF execute, ExecuteQueues, TypeOK, publish, Published
  <2>4. QED
    BY <1>1, <2>1, <2>2, <2>3 DEF execute
<1>2. ASSUME NEW t \in Tasks, CancelQueued(t)
      PROVE  TypeOK'
  <2> DEFINE i == queuedIndex(queue, t)
  <2>1. i \in 1..Len(queue)
    BY <1>2, QueuedIndexProperties DEF CancelQueued, TypeOK
  <2>2. queue' = RemoveAt(queue, i) /\ promise' = [promise EXCEPT ![queue[i]] = "resolved"]
    BY <1>2 DEF CancelQueued, splice
  <2> HIDE DEF i
  <2>3. queue' \in Seq(Requests) /\ Len(queue') \in Nat
    BY <2>1, <2>2, RemoveAtEntries, LenProperties DEF TypeOK
  <2>4. metrics' \in [Counters -> Nat]
    BY <1>0, <1>2, <2>3, RecordTypes DEF CancelQueued, TypeOK
  <2>5. promise' \in [Requests -> {"none", "pending", "resolved", "rejected"}]
    BY <2>2 DEF TypeOK
  <2>6. QED
    BY <1>2, <2>3, <2>4, <2>5 DEF CancelQueued, TypeOK, publish, finish, Published
<1>3. ASSUME NEW t \in Tasks, CancelDelegated(t)
      PROVE  TypeOK'
  BY <1>3 DEF CancelDelegated, TypeOK, publish, finish, Published
<1>4. ASSUME NEW r \in Requests, NEW s \in Terminal, ObservePublish(r, s)
      PROVE  TypeOK'
  BY <1>4 DEF ObservePublish, TypeOK, publish, finish, Published, Terminal
<1>5. ASSUME NEW r \in Requests, NEW o \in {"resolved", "rejected"}, RunEntryEnds(r, o)
      PROVE  TypeOK'
  <2>1. slotsAfterRun(o) \in Nat
    BY <1>0 DEF slotsAfterRun, Larger
  <2>2. metrics' \in [Counters -> Nat]
    BY <1>0, <1>5, <2>1, RecordTypes DEF RunEntryEnds, TypeOK
  <2>3. QED
    BY <1>5, <2>1, <2>2 DEF RunEntryEnds, TypeOK, finish, finishAfterRun
<1>6. CASE DrainIterates
  <2>1. Head(queue) \in Requests /\ Tail(queue) \in Seq(Requests)
    BY <1>6, TailEntries DEF DrainIterates, TypeOK
  <2>2. QED
    BY <1>6, <2>1, RunEntryTypes DEF DrainIterates, TypeOK
<1>7. CASE DrainEnds
  BY <1>7 DEF DrainEnds, TypeOK
<1>8. CASE UNCHANGED vars
  BY <1>8 DEF vars, TypeOK
<1>9. QED
  BY <1>1, <1>2, <1>3, <1>4, <1>5, <1>6, <1>7, <1>8 DEF Next

(* Every variable keeps its type in every behaviour of the executor.       *)
THEOREM TypeCorrect == Spec => []TypeOK
<1>1. Init => TypeOK
  <2>1. <<>> \in Seq(Requests)
    BY EmptySeq
  <2>2. QED
    BY <2>1 DEF Init, TypeOK, Terminal, Published
<1>2. QED
  BY <1>1, TypeStep, PTL DEF Spec

-----------------------------------------------------------------------------
(* Slots. SlotsExact alone is not inductive: that a start takes one slot   *)
(* more needs to know that the request was not running already, hence that *)
(* the queue and the runs are disjoint and the queue holds nothing twice.  *)

Held ==
    /\ \A r \in running : promise[r] = "pending"
    /\ \A r \in Entries(queue) : promise[r] = "pending" /\ r \notin running
    /\ Distinct(queue)

SlotInv == TypeOK /\ Held /\ SlotsExact /\ NoIdleSlotBesideQueue

(* runEntry() takes exactly one slot for the request it starts. *)
LEMMA RunEntrySlots ==
    ASSUME TypeOK, SlotsExact, NEW r \in Requests, NEW q \in Seq(Requests),
           r \notin running, activeTasks < MaxConcurrent,
           Distinct(q), Len(q) <= Len(queue), runEntry(r, q)
    PROVE  /\ Entries(queue') \subseteq Entries(q)
           /\ Distinct(queue')
           /\ Len(queue') <= Len(q)
           /\ running' = running \cup {r}
           /\ SlotsExact'
<1>1. queue' = queueDelete(q, TaskOf[r]) /\ running' = running \cup {r}
      /\ activeTasks' = activeTasks + 1
  BY DEF runEntry
<1>2. /\ Entries(queue') \subseteq Entries(q)
      /\ Distinct(queue')
      /\ Len(queue') <= Len(q)
      /\ queue' \in Seq(Requests)
  BY <1>1, QueueDeleteEntries
<1>3. IsFiniteSet(running)
  BY RequestsAssumption, FS_Subset DEF TypeOK
<1>4. Cardinality(running') = Cardinality(running) + 1
  BY <1>1, <1>3, FS_AddElement
<1>5. Len(queue') \in Nat /\ Len(q) \in Nat /\ Len(queue) \in Nat
  BY <1>2, LenProperties DEF TypeOK
<1>6. SlotsExact'
  BY <1>1, <1>2, <1>4, <1>5, LimitTypes DEF SlotsExact, TypeOK, MaxConcurrent, MaxQueued
<1>7. QED
  BY <1>1, <1>2, <1>6

(* Every step keeps the slot invariant. *)
LEMMA SlotStep == SlotInv /\ [Next]_vars => SlotInv'
<1> SUFFICES ASSUME SlotInv, [Next]_vars PROVE SlotInv'
  OBVIOUS
<1>0. TypeOK' /\ TypeOK /\ queue \in Seq(Requests) /\ Len(queue) \in Nat /\ activeTasks \in Nat
  BY TypeStep, LenProperties DEF SlotInv, TypeOK
<1> SUFFICES (Held /\ SlotsExact /\ NoIdleSlotBesideQueue)'
  BY <1>0 DEF SlotInv
<1> USE LimitTypes
<1>1. ASSUME NEW r \in Requests, execute(r)
      PROVE  (Held /\ SlotsExact /\ NoIdleSlotBesideQueue)'
  <2>0. r \notin running /\ r \notin Entries(queue)
    BY <1>1 DEF execute, SlotInv, Held
  <2>1. CASE ExecuteRuns(r)
    <3>1. queue = <<>>
      BY <1>0, <1>1, <2>1 DEF execute, ExecuteRuns, SlotInv, SlotsExact, NoIdleSlotBesideQueue
    <3>2. /\ Entries(queue') \subseteq Entries(queue)
          /\ Distinct(queue')
          /\ Len(queue') <= Len(queue)
          /\ running' = running \cup {r}
          /\ SlotsExact'
      BY <1>0, <2>0, <2>1, RunEntrySlots DEF ExecuteRuns, SlotInv, Held
    <3>3. queue' = <<>>
      BY <1>0, <3>1, <3>2, EmptySeq, LenProperties DEF TypeOK
    <3>4. QED
      BY <1>0, <2>0, <2>1, <3>2, <3>3 DEF ExecuteRuns, SlotInv, Held, TypeOK, NoIdleSlotBesideQueue
  <2>2. CASE ExecuteRejects(r)
    <3>1. Entries(queue)' = Entries(queue) /\ Distinct(queue)' = Distinct(queue)
      BY <2>2 DEF ExecuteRejects, Entries, Distinct
    <3>2. Held'
      BY <1>0, <2>0, <2>2, <3>1 DEF ExecuteRejects, SlotInv, Held, TypeOK
    <3>3. QED
      BY <1>1, <2>2, <3>2 DEF execute, ExecuteRejects, SlotInv, SlotsExact, NoIdleSlotBesideQueue
  <2>3. CASE ExecuteQueues(r)
    <3>1. /\ Entries(queue') = Entries(queue) \cup {r}
          /\ Distinct(queue')
          /\ Len(queue') = Len(queue) + 1
      BY <1>0, <2>0, <2>3, AppendEntries DEF ExecuteQueues, SlotInv, Held
    <3>2. Held'
      BY <1>0, <2>0, <2>3, <3>1 DEF ExecuteQueues, SlotInv, Held, TypeOK
    <3>3. SlotsExact'
      BY <1>0, <2>3, <3>1 DEF ExecuteQueues, SlotInv, SlotsExact
    <3>4. activeTasks' = MaxConcurrent
      BY <1>0, <2>3 DEF ExecuteQueues, SlotInv, SlotsExact
    <3>5. QED
      BY <3>2, <3>3, <3>4 DEF NoIdleSlotBesideQueue
  <2>4. QED
    BY <1>1, <2>1, <2>2, <2>3 DEF execute
<1>2. ASSUME NEW t \in Tasks, CancelQueued(t)
      PROVE  (Held /\ SlotsExact /\ NoIdleSlotBesideQueue)'
  <2> DEFINE i == queuedIndex(queue, t)
  <2>1. i \in 1..Len(queue)
    BY <1>0, <1>2, QueuedIndexProperties DEF CancelQueued
  <2>2. queue' = RemoveAt(queue, i) /\ promise' = [promise EXCEPT ![queue[i]] = "resolved"]
    BY <1>2 DEF CancelQueued, splice
  <2> HIDE DEF i
  <2>3. /\ Entries(queue') = Entries(queue) \ {queue[i]}
        /\ Distinct(queue')
        /\ Len(queue') < Len(queue)
    BY <1>0, <2>1, <2>2, RemoveAtEntries DEF SlotInv, Held
  <2>4. queue[i] \in Entries(queue) /\ queue # <<>>
    <3>1. queue[i] \in Entries(queue)
      BY <2>1 DEF Entries
    <3>2. Len(queue) # 0
      BY <1>0, <2>1
    <3>3. QED
      BY <3>1, <3>2, EmptySeq
  <2>5. Held'
    <3>1. Entries(queue) \subseteq Requests /\ running \subseteq Requests
      BY <1>0, ElementOfSeq DEF Entries, TypeOK
    <3>2. \A x \in Requests : x # queue[i] => promise'[x] = promise[x]
      BY <1>0, <2>2 DEF TypeOK
    <3>3. running' = running
      BY <1>2 DEF CancelQueued
    <3>4. QED
      BY <2>3, <2>4, <3>1, <3>2, <3>3 DEF SlotInv, Held
  <2>6. SlotsExact'
    <3>1. Len(queue') \in Nat
      BY <1>0, LenProperties DEF TypeOK
    <3>2. QED
      BY <1>0, <1>2, <2>3, <3>1 DEF CancelQueued, SlotInv, SlotsExact
  <2>7. NoIdleSlotBesideQueue'
    BY <1>2, <2>4 DEF CancelQueued, SlotInv, NoIdleSlotBesideQueue
  <2>8. QED
    BY <2>5, <2>6, <2>7
<1>3. ASSUME NEW t \in Tasks, CancelDelegated(t)
      PROVE  (Held /\ SlotsExact /\ NoIdleSlotBesideQueue)'
  BY <1>3 DEF CancelDelegated, SlotInv, Held, Entries, Distinct, SlotsExact, NoIdleSlotBesideQueue
<1>4. ASSUME NEW r \in Requests, NEW s \in Terminal, ObservePublish(r, s)
      PROVE  (Held /\ SlotsExact /\ NoIdleSlotBesideQueue)'
  BY <1>4 DEF ObservePublish, SlotInv, Held, Entries, Distinct, SlotsExact, NoIdleSlotBesideQueue
<1>5. ASSUME NEW r \in Requests, NEW o \in {"resolved", "rejected"}, RunEntryEnds(r, o)
      PROVE  (Held /\ SlotsExact /\ NoIdleSlotBesideQueue)'
  <2>1. Held'
    BY <1>0, <1>5 DEF RunEntryEnds, SlotInv, Held, Entries, Distinct, TypeOK
  <2>2. SlotsExact'
    <3>1. IsFiniteSet(running)
      BY <1>0, RequestsAssumption, FS_Subset DEF TypeOK
    <3>2. Cardinality(running') = Cardinality(running) - 1
      BY <1>5, <3>1, FS_RemoveElement DEF RunEntryEnds
    <3>3. Cardinality(running) # 0
      BY <1>5, <3>1, FS_EmptySet DEF RunEntryEnds
    <3>4. activeTasks' = activeTasks - 1
      BY <1>0, <1>5, <3>3 DEF RunEntryEnds, slotsAfterRun, Larger, SlotInv, SlotsExact
    <3>5. QED
      BY <1>0, <1>5, <3>2, <3>4 DEF RunEntryEnds, SlotInv, SlotsExact
  <2>3. QED
    BY <1>5, <2>1, <2>2 DEF RunEntryEnds, NoIdleSlotBesideQueue
<1>6. CASE DrainIterates
  <2>1. queue # <<>> /\ activeTasks < MaxConcurrent /\ runEntry(Head(queue), Tail(queue))
    BY <1>6 DEF DrainIterates
  <2>2. /\ Head(queue) \in Requests
        /\ Head(queue) \in Entries(queue)
        /\ Tail(queue) \in Seq(Requests)
        /\ Len(Tail(queue)) <= Len(queue)
        /\ Distinct(Tail(queue))
        /\ Entries(Tail(queue)) = Entries(queue) \ {Head(queue)}
    <3>1. Len(Tail(queue)) < Len(queue) /\ Tail(queue) \in Seq(Requests)
      BY <1>0, <2>1, TailEntries
    <3>2. Len(Tail(queue)) \in Nat
      BY <3>1, LenProperties
    <3>3. QED
      BY <1>0, <2>1, <3>1, <3>2, TailEntries DEF SlotInv, Held
  <2>3. Head(queue) \notin running
    BY <2>2 DEF SlotInv, Held
  <2>4. /\ Entries(queue') \subseteq Entries(queue) \ {Head(queue)}
        /\ Distinct(queue')
        /\ running' = running \cup {Head(queue)}
        /\ SlotsExact'
    BY <1>0, <2>1, <2>2, <2>3, RunEntrySlots DEF SlotInv
  <2>5. Held'
    BY <1>6, <2>2, <2>4 DEF DrainIterates, SlotInv, Held
  <2>6. QED
    BY <1>6, <2>4, <2>5 DEF DrainIterates, NoIdleSlotBesideQueue
<1>7. CASE DrainEnds
  BY <1>0, <1>7 DEF DrainEnds, SlotInv, Held, Entries, Distinct, SlotsExact, NoIdleSlotBesideQueue
<1>8. CASE UNCHANGED vars
  BY <1>8 DEF vars, SlotInv, Held, Entries, Distinct, SlotsExact, NoIdleSlotBesideQueue
<1>9. QED
  BY <1>1, <1>2, <1>3, <1>4, <1>5, <1>6, <1>7, <1>8 DEF Next

(* The slot invariant holds in every state. *)
LEMMA SlotInvariant == Spec => []SlotInv
<1>1. Init => SlotInv
  <2> SUFFICES ASSUME Init PROVE SlotInv
    OBVIOUS
  <2>1. TypeOK
    BY EmptySeq DEF Init, TypeOK, Terminal, Published
  <2>2. Len(queue) = 0 /\ Cardinality(running) = 0
    BY EmptySeq, FS_EmptySet DEF Init
  <2>3. QED
    BY <2>1, <2>2, LimitTypes DEF Init, SlotInv, Held, Entries, Distinct, SlotsExact, NoIdleSlotBesideQueue
<1>2. QED
  BY <1>1, SlotStep, PTL DEF Spec

(* The slot counter always is the number of runs in progress, and neither  *)
(* it nor the queue exceeds its limit, whatever task ids requests share.   *)
THEOREM SlotsAlwaysExact == Spec => []SlotsExact
<1>1. SlotInv => SlotsExact
  BY DEF SlotInv
<1>2. QED
  BY <1>1, SlotInvariant, PTL

(* A request waits only while every slot is in use.                        *)
THEOREM QueueWaitsOnlyWhenFull == Spec => []NoIdleSlotBesideQueue
<1>1. SlotInv => NoIdleSlotBesideQueue
  BY DEF SlotInv
<1>2. QED
  BY <1>1, SlotInvariant, PTL

(* A request that starts is the oldest one that waits.                     *)
THEOREM OldestStartsFirst == Spec => FirstComeFirstServed
<1>1. ASSUME SlotInv, [Next]_vars
      PROVE  [\A r \in running' \ running : queue = <<>> \/ r = Head(queue)]_vars
  <2>0. activeTasks \in Nat /\ MaxConcurrent \in Nat
    BY <1>1, LimitTypes DEF SlotInv, TypeOK
  <2>1. ASSUME NEW r \in Requests, execute(r)
        PROVE  \A x \in running' \ running : queue = <<>>
    <3>1. CASE ExecuteRuns(r)
      BY <1>1, <2>0, <2>1, <3>1 DEF execute, ExecuteRuns, SlotInv, NoIdleSlotBesideQueue
    <3>2. CASE ExecuteRejects(r) \/ ExecuteQueues(r)
      BY <3>2 DEF ExecuteRejects, ExecuteQueues
    <3>3. QED
      BY <2>1, <3>1, <3>2 DEF execute
  <2>2. ASSUME NEW t \in Tasks, CancelQueued(t) \/ CancelDelegated(t)
        PROVE  running' = running
    BY <2>2 DEF CancelQueued, CancelDelegated
  <2>3. ASSUME NEW r \in Requests, NEW s, NEW o, ObservePublish(r, s) \/ RunEntryEnds(r, o)
        PROVE  running' \subseteq running
    BY <2>3 DEF ObservePublish, RunEntryEnds
  <2>4. CASE DrainIterates
    BY <2>4 DEF DrainIterates, runEntry
  <2>5. CASE DrainEnds
    BY <2>5 DEF DrainEnds
  <2>6. CASE UNCHANGED vars
    BY <2>6
  <2>7. QED
    BY <1>1, <2>1, <2>2, <2>3, <2>4, <2>5, <2>6 DEF Next
<1>2. QED
  BY <1>1, SlotInvariant, PTL DEF Spec, FirstComeFirstServed

-----------------------------------------------------------------------------
(* A settled request leaves its event bus finished.                        *)

(* Every step keeps the buses of the settled requests finished. *)
LEMMA BusStep == TypeOK /\ SettledBusFinished /\ [Next]_vars => SettledBusFinished'
<1> SUFFICES ASSUME TypeOK, SettledBusFinished, [Next]_vars,
                    NEW x \in Requests, promise'[x] \in {"resolved", "rejected"}
             PROVE  finished'[TaskOf[x]]
  BY DEF SettledBusFinished
<1> DEFINE settled == promise[x] \in {"resolved", "rejected"}
<1>0. TaskOf[x] \in Tasks
  BY TaskOfAssumption
<1>1. finished[TaskOf[x]] => finished'[TaskOf[x]]
  <2>1. ASSUME NEW t, finish(t) PROVE finished[TaskOf[x]] => finished'[TaskOf[x]]
    BY <1>0, <2>1 DEF finish, TypeOK
  <2>2. finished' = finished \/ \E t : finish(t)
    BY DEF Next, execute, ExecuteRuns, ExecuteRejects, ExecuteQueues, runEntry, CancelQueued,
           CancelDelegated, ObservePublish, RunEntryEnds, finishAfterRun, DrainIterates,
           DrainEnds, vars
  <2>3. QED
    BY <2>1, <2>2
<1>2. settled => finished[TaskOf[x]]
  BY DEF SettledBusFinished
<1>3. settled \/ finish(TaskOf[x])
  <2>1. ASSUME NEW r \in Requests, execute(r) PROVE settled \/ finish(TaskOf[x])
    BY <2>1 DEF execute, ExecuteRuns, ExecuteRejects, ExecuteQueues, TypeOK
  <2>2. ASSUME NEW t \in Tasks, CancelQueued(t) PROVE settled \/ finish(TaskOf[x])
    <3> DEFINE i == queuedIndex(queue, t)
    <3>1. i \in 1..Len(queue) /\ TaskOf[queue[i]] = t
      BY <2>2, QueuedIndexProperties DEF CancelQueued, TypeOK
    <3>2. promise' = [promise EXCEPT ![queue[i]] = "resolved"] /\ finish(t)
      BY <2>2 DEF CancelQueued
    <3> HIDE DEF i
    <3>3. QED
      BY <3>1, <3>2 DEF TypeOK
  <2>3. ASSUME NEW t \in Tasks, CancelDelegated(t) PROVE settled
    BY <2>3 DEF CancelDelegated
  <2>4. ASSUME NEW r \in Requests, NEW s, ObservePublish(r, s) PROVE settled
    BY <2>4 DEF ObservePublish
  <2>5. ASSUME NEW r \in Requests, NEW o, RunEntryEnds(r, o) PROVE settled \/ finish(TaskOf[x])
    BY <2>5 DEF RunEntryEnds, finishAfterRun, TypeOK
  <2>6. CASE DrainIterates \/ DrainEnds
    BY <2>6 DEF DrainIterates, DrainEnds
  <2>7. CASE UNCHANGED vars
    BY <2>7 DEF vars
  <2>8. QED
    BY <2>1, <2>2, <2>3, <2>4, <2>5, <2>6, <2>7 DEF Next
<1>4. finish(TaskOf[x]) => finished'[TaskOf[x]]
  BY <1>0 DEF finish, TypeOK
<1>5. QED
  BY <1>1, <1>2, <1>3, <1>4

(* Whatever settles a request's promise, finished() was called on its bus. *)
THEOREM SettledBusIsFinished == Spec => []SettledBusFinished
<1>1. Init => SettledBusFinished
  BY DEF Init, SettledBusFinished
<1>2. QED
  BY <1>1, BusStep, TypeCorrect, PTL DEF Spec

-----------------------------------------------------------------------------
(* The metrics. The counters agree with the executor as long as no two     *)
(* requests carry one task id: a run of one would take the other out of    *)
(* the queue (README, Divergences).                                        *)

OwnTasks == \A r, o \in Requests : TaskOf[r] = TaskOf[o] => r = o

(* The tasks counted by their final state. *)
Tally(m) == m["completed"] + m["failed"] + m["canceled"]
               + (m["rejected"] - m["queue_rejections"])

(* setQueueState() sets the gauges and counts nothing. *)
LEMMA GaugesOnly ==
    ASSUME NEW m \in [Counters -> Nat], NEW a \in Nat, NEW d \in Nat,
           NEW n, n = setQueueState(m, a, d)
    PROVE  /\ n["active"] = a /\ n["queue_depth"] = d
           /\ n["max_active_observed"] = Larger(m["max_active_observed"], a)
           /\ n["max_queue_depth_observed"] = Larger(m["max_queue_depth_observed"], d)
           /\ n["finished"] = m["finished"]
           /\ n["queue_rejections"] = m["queue_rejections"]
           /\ Tally(n) = Tally(m)
<1>1. /\ n["active"] = a /\ n["queue_depth"] = d
      /\ n["max_active_observed"] = Larger(m["max_active_observed"], a)
      /\ n["max_queue_depth_observed"] = Larger(m["max_queue_depth_observed"], d)
      /\ \A c \in Counters \ {"active", "queue_depth", "max_active_observed", "max_queue_depth_observed"} :
            n[c] = m[c]
  BY DEF setQueueState, Counters
<1>2. /\ n["finished"] = m["finished"] /\ n["queue_rejections"] = m["queue_rejections"]
      /\ n["completed"] = m["completed"] /\ n["failed"] = m["failed"]
      /\ n["canceled"] = m["canceled"] /\ n["rejected"] = m["rejected"]
  BY <1>1 DEF Counters
<1>3. QED
  BY <1>1, <1>2 DEF Tally

(* A task that finishes is tallied once. *)
LEMMA FinishTallies ==
    ASSUME NEW m \in [Counters -> Nat], NEW s \in Terminal, NEW a \in Nat, NEW d \in Nat,
           NEW n, n = recordTaskFinish(m, s, a, d)
    PROVE  /\ n["active"] = a /\ n["queue_depth"] = d
           /\ n["max_active_observed"] = Larger(m["max_active_observed"], a)
           /\ n["max_queue_depth_observed"] = Larger(m["max_queue_depth_observed"], d)
           /\ n["finished"] = m["finished"] + 1
           /\ n["queue_rejections"] = m["queue_rejections"]
           /\ Tally(n) = Tally(m) + 1
<1> DEFINE k == Increment(m, {"finished", s})
<1>1. /\ k \in [Counters -> Nat]
      /\ \A c \in Counters : k[c] = IF c \in {"finished", s} THEN m[c] + 1 ELSE m[c]
  BY DEF Increment
<1>2. /\ k["max_active_observed"] = m["max_active_observed"]
      /\ k["max_queue_depth_observed"] = m["max_queue_depth_observed"]
      /\ k["finished"] = m["finished"] + 1
      /\ k["queue_rejections"] = m["queue_rejections"]
  BY <1>1 DEF Counters, Terminal
<1>3. Tally(k) = Tally(m) + 1
  BY <1>1 DEF Counters, Terminal, Tally
<1>4. n = setQueueState(k, a, d)
  BY DEF recordTaskFinish
<1> HIDE DEF k
<1>5. /\ n["active"] = a /\ n["queue_depth"] = d
      /\ n["max_active_observed"] = Larger(k["max_active_observed"], a)
      /\ n["max_queue_depth_observed"] = Larger(k["max_queue_depth_observed"], d)
      /\ n["finished"] = k["finished"]
      /\ n["queue_rejections"] = k["queue_rejections"]
      /\ Tally(n) = Tally(k)
  BY <1>1, <1>4, GaugesOnly
<1>6. QED
  BY <1>2, <1>3, <1>5

(* Queueing and starting a task moves the gauges only. *)
LEMMA StartTallies ==
    ASSUME NEW m \in [Counters -> Nat], NEW c0 \in {"queued", "started"},
           NEW a \in Nat, NEW d \in Nat,
           NEW n, n = setQueueState(Increment(m, {c0}), a, d)
    PROVE  /\ n["active"] = a /\ n["queue_depth"] = d
           /\ n["max_active_observed"] = Larger(m["max_active_observed"], a)
           /\ n["max_queue_depth_observed"] = Larger(m["max_queue_depth_observed"], d)
           /\ n["finished"] = m["finished"]
           /\ n["queue_rejections"] = m["queue_rejections"]
           /\ Tally(n) = Tally(m)
<1> DEFINE k == Increment(m, {c0})
<1>1. /\ k \in [Counters -> Nat]
      /\ \A c \in Counters \ {"queued", "started"} : k[c] = m[c]
  BY DEF Increment
<1>2. n = setQueueState(k, a, d)
  OBVIOUS
<1> HIDE DEF k
<1>3. /\ k["max_active_observed"] = m["max_active_observed"]
      /\ k["max_queue_depth_observed"] = m["max_queue_depth_observed"]
      /\ k["finished"] = m["finished"]
      /\ k["queue_rejections"] = m["queue_rejections"]
      /\ Tally(k) = Tally(m)
  BY <1>1 DEF Counters, Tally
<1>4. /\ n["active"] = a /\ n["queue_depth"] = d
      /\ n["max_active_observed"] = Larger(k["max_active_observed"], a)
      /\ n["max_queue_depth_observed"] = Larger(k["max_queue_depth_observed"], d)
      /\ n["finished"] = k["finished"]
      /\ n["queue_rejections"] = k["queue_rejections"]
      /\ Tally(n) = Tally(k)
  BY <1>1, <1>2, GaugesOnly
<1>5. QED
  BY <1>3, <1>4

(* A refused task is counted as such, and not as one that finished. *)
LEMMA RejectTallies ==
    ASSUME NEW m \in [Counters -> Nat], NEW d \in Nat,
           NEW n, n = recordQueueRejected(m, d)
    PROVE  /\ n["active"] = m["active"] /\ n["queue_depth"] = d
           /\ n["max_active_observed"] = Larger(m["max_active_observed"], m["active"])
           /\ n["max_queue_depth_observed"] = Larger(m["max_queue_depth_observed"], d)
           /\ n["finished"] = m["finished"]
           /\ n["queue_rejections"] = m["queue_rejections"] + 1
           /\ Tally(n) = Tally(m)
<1> DEFINE k == Increment(m, {"queue_rejections", "rejected"})
           a == m["active"]
<1>1. /\ k \in [Counters -> Nat] /\ a \in Nat
      /\ \A c \in Counters : k[c] = IF c \in {"queue_rejections", "rejected"} THEN m[c] + 1 ELSE m[c]
  BY DEF Increment, Counters
<1>2. n = setQueueState(k, a, d)
  BY DEF recordQueueRejected
<1> HIDE DEF k, a
<1>3. /\ k["max_active_observed"] = m["max_active_observed"]
      /\ k["max_queue_depth_observed"] = m["max_queue_depth_observed"]
      /\ k["finished"] = m["finished"]
      /\ k["queue_rejections"] = m["queue_rejections"] + 1
      /\ Tally(k) = Tally(m)
  BY <1>1 DEF Counters, Tally
<1>4. /\ n["active"] = a /\ n["queue_depth"] = d
      /\ n["max_active_observed"] = Larger(k["max_active_observed"], a)
      /\ n["max_queue_depth_observed"] = Larger(k["max_queue_depth_observed"], d)
      /\ n["finished"] = k["finished"]
      /\ n["queue_rejections"] = k["queue_rejections"]
      /\ Tally(n) = Tally(k)
  BY <1>1, <1>2, GaugesOnly
<1>5. QED
  BY <1>3, <1>4 DEF a

(* The sum of the counters, when each of its parts moves. *)
LEMMA SumMoves ==
    ASSUME NEW e \in Nat, NEW j \in Nat, NEW a \in Nat, NEW l \in Nat, NEW c \in Nat,
           NEW f \in Nat, NEW q \in Nat, NEW b \in Nat, NEW k \in Nat, NEW d \in Nat,
           e + j + a + l = c, d - c = f + q + (b - a) + (k - l)
    PROVE  (e + f) + (j + q) + b + k = d
OBVIOUS

Asked == {r \in Requests : promise[r] # "none"}

(* A high-water mark stays between its gauge and the limit.                *)
LEMMA MarkMoves ==
    ASSUME NEW mark \in Nat, NEW gauge \in Nat, NEW limit \in Int, gauge <= limit, mark <= limit
    PROVE  Larger(mark, gauge) \in gauge..limit
  BY DEF Larger

(* How a step moves the counters, when it moves them as one of the lemmas  *)
(* above says: f tasks finish and q are refused.                           *)
LEMMA MetricsMove ==
    ASSUME SlotInv, SlotInv', MetricsAgree, NEW f \in Nat, NEW q \in Nat,
           metrics'["active"] = activeTasks', metrics'["queue_depth"] = Len(queue'),
           metrics'["max_active_observed"] = Larger(metrics["max_active_observed"], activeTasks'),
           metrics'["max_queue_depth_observed"]
               = Larger(metrics["max_queue_depth_observed"], Len(queue')),
           metrics'["finished"] = metrics["finished"] + f,
           metrics'["queue_rejections"] = metrics["queue_rejections"] + q,
           Tally(metrics') = Tally(metrics) + f,
           Cardinality(Asked') - Cardinality(Asked)
               = f + q + (activeTasks' - activeTasks) + (Len(queue') - Len(queue))
    PROVE  MetricsAgree'
<1>1. /\ activeTasks \in Nat /\ activeTasks' \in Nat /\ Len(queue) \in Nat /\ Len(queue') \in Nat
      /\ metrics \in [Counters -> Nat] /\ metrics' \in [Counters -> Nat]
  BY LenProperties DEF SlotInv, TypeOK
<1>2. activeTasks' <= MaxConcurrent /\ Len(queue') <= MaxQueued
  BY DEF SlotInv, SlotsExact
<1>3. Cardinality(Asked) \in Nat /\ Cardinality(Asked') \in Nat
  <2>1. IsFiniteSet(Asked) /\ IsFiniteSet(Asked')
    BY RequestsAssumption, FS_Subset DEF Asked
  <2>2. QED
    BY <2>1, FS_CardinalityType
<1>4. /\ metrics["finished"] = Tally(metrics)
      /\ metrics["finished"] + metrics["queue_rejections"] + activeTasks + Len(queue)
            = Cardinality(Asked)
      /\ metrics["max_active_observed"] \in activeTasks..MaxConcurrent
      /\ metrics["max_queue_depth_observed"] \in Len(queue)..MaxQueued
  BY DEF MetricsAgree, Tally, Asked
<1>5. {metrics["finished"], metrics["queue_rejections"], metrics["max_active_observed"],
       metrics["max_queue_depth_observed"]} \subseteq Nat
  BY <1>1 DEF Counters
<1>6. metrics'["finished"] = Tally(metrics')
  BY <1>4
<1>7. /\ metrics'["max_active_observed"] \in activeTasks'..MaxConcurrent
      /\ metrics'["max_queue_depth_observed"] \in Len(queue')..MaxQueued
  <2>1. /\ metrics["max_active_observed"] \in Nat /\ metrics["max_queue_depth_observed"] \in Nat
        /\ MaxConcurrent \in Int /\ MaxQueued \in Int
    BY <1>5, LimitTypes
  <2>2. /\ metrics["max_active_observed"] <= MaxConcurrent
        /\ metrics["max_queue_depth_observed"] <= MaxQueued
    BY <1>1, <1>4, <2>1
  <2>3. Larger(metrics["max_active_observed"], activeTasks') \in activeTasks'..MaxConcurrent
    BY <1>1, <1>2, <2>1, <2>2, MarkMoves
  <2>4. Larger(metrics["max_queue_depth_observed"], Len(queue')) \in Len(queue')..MaxQueued
    BY <1>1, <1>2, <2>1, <2>2, MarkMoves
  <2>5. QED
    BY <2>3, <2>4
<1>8. metrics'["finished"] + metrics'["queue_rejections"] + activeTasks' + Len(queue')
         = Cardinality(Asked')
  <2> DEFINE c == Cardinality(Asked)
             d == Cardinality(Asked')
             l == Len(queue)
             k == Len(queue')
             e == metrics["finished"]
             j == metrics["queue_rejections"]
             a == activeTasks
             b == activeTasks'
  <2>1. a \in Nat /\ b \in Nat /\ c \in Nat /\ d \in Nat /\ l \in Nat /\ k \in Nat /\ e \in Nat /\ j \in Nat
    BY <1>1, <1>3, <1>5
  <2>2. e + j + a + l = c /\ d - c = f + q + (b - a) + (k - l)
    BY <1>4
  <2>3. metrics'["finished"] = e + f /\ metrics'["queue_rejections"] = j + q
    OBVIOUS
  <2> HIDE DEF a, b, c, d, l, k, e, j
  <2>4. (e + f) + (j + q) + b + k = d
    BY <2>1, <2>2, SumMoves
  <2>5. QED
    BY <2>3, <2>4 DEF b, d, k
<1>9. QED
  BY <1>6, <1>7, <1>8 DEF MetricsAgree, Tally, Asked

(* Every step keeps the metrics in agreement with the executor. *)
LEMMA MetricsStep ==
    ASSUME OwnTasks, SlotInv, MetricsAgree, [Next]_vars
    PROVE  MetricsAgree'
<1>0. SlotInv' /\ TypeOK /\ TypeOK'
  BY SlotStep DEF SlotInv
<1>1. /\ queue \in Seq(Requests) /\ queue' \in Seq(Requests)
      /\ Len(queue) \in Nat /\ Len(queue') \in Nat /\ activeTasks \in Nat /\ activeTasks' \in Nat
      /\ metrics \in [Counters -> Nat]
  BY <1>0, LenProperties DEF TypeOK
<1>2. IsFiniteSet(Asked) /\ Cardinality(Asked) \in Nat
  BY RequestsAssumption, FS_Subset, FS_CardinalityType DEF Asked
<1>3. metrics["active"] = activeTasks
  BY DEF MetricsAgree
<1>4. metrics["finished"] + 0 = metrics["finished"] /\ Tally(metrics) + 0 = Tally(metrics)
      /\ metrics["queue_rejections"] + 0 = metrics["queue_rejections"]
  BY <1>1 DEF Counters, Tally
<1>5. ASSUME NEW r \in Requests, execute(r) PROVE MetricsAgree'
  <2>1. promise' = [promise EXCEPT ![r] = promise'[r]] /\ promise'[r] # "none" /\ promise[r] = "none"
    BY <1>0, <1>5 DEF execute, ExecuteRuns, ExecuteRejects, ExecuteQueues, TypeOK
  <2>2. Asked' = Asked \cup {r} /\ r \notin Asked
    BY <1>0, <2>1 DEF Asked, TypeOK
  <2>3. Cardinality(Asked') - Cardinality(Asked) = 1
    BY <1>2, <2>2, FS_AddElement
  <2>4. CASE ExecuteRuns(r)
    <3>1. queue = <<>>
      BY <1>1, <1>5, <2>4, LimitTypes DEF execute, ExecuteRuns, SlotInv, NoIdleSlotBesideQueue
    <3>2. activeTasks' = activeTasks + 1 /\ queue' = queueDelete(queue, TaskOf[r])
          /\ metrics' = setQueueState(Increment(metrics, {"started"}), activeTasks', Len(queue'))
      BY <2>4 DEF ExecuteRuns, runEntry, recordTaskStart
    <3>3. Len(queue') <= Len(queue)
      BY <1>1, <3>2, QueueDeleteEntries
    <3>4. Len(queue) = 0 /\ Len(queue') = 0
      BY <1>1, <3>1, <3>3, EmptySeq
    <3>5. /\ metrics'["active"] = activeTasks' /\ metrics'["queue_depth"] = Len(queue')
          /\ metrics'["max_active_observed"] = Larger(metrics["max_active_observed"], activeTasks')
          /\ metrics'["max_queue_depth_observed"]
                = Larger(metrics["max_queue_depth_observed"], Len(queue'))
          /\ metrics'["finished"] = metrics["finished"]
          /\ metrics'["queue_rejections"] = metrics["queue_rejections"]
          /\ Tally(metrics') = Tally(metrics)
      BY <1>1, <3>2, StartTallies
    <3>6. Cardinality(Asked') - Cardinality(Asked)
             = 0 + 0 + (activeTasks' - activeTasks) + (Len(queue') - Len(queue))
      BY <1>1, <2>3, <3>2, <3>4
    <3>7. QED
      BY <1>0, <1>4, <3>5, <3>6, MetricsMove
  <2>5. CASE ExecuteRejects(r)
    <3>1. activeTasks' = activeTasks /\ queue' = queue
          /\ metrics' = recordQueueRejected(metrics, Len(queue'))
      BY <2>5 DEF ExecuteRejects
    <3>2. /\ metrics'["active"] = activeTasks' /\ metrics'["queue_depth"] = Len(queue')
          /\ metrics'["max_active_observed"] = Larger(metrics["max_active_observed"], activeTasks')
          /\ metrics'["max_queue_depth_observed"]
                = Larger(metrics["max_queue_depth_observed"], Len(queue'))
          /\ metrics'["finished"] = metrics["finished"]
          /\ metrics'["queue_rejections"] = metrics["queue_rejections"] + 1
          /\ Tally(metrics') = Tally(metrics)
      BY <1>1, <1>3, <3>1, RejectTallies
    <3>3. Cardinality(Asked') - Cardinality(Asked)
             = 0 + 1 + (activeTasks' - activeTasks) + (Len(queue') - Len(queue))
      BY <1>1, <2>3, <3>1
    <3>4. QED
      BY <1>0, <1>4, <3>2, <3>3, MetricsMove
  <2>6. CASE ExecuteQueues(r)
    <3>1. activeTasks' = activeTasks /\ queue' = Append(queue, r)
          /\ metrics' = setQueueState(Increment(metrics, {"queued"}), activeTasks', Len(queue'))
      BY <1>3, <2>6 DEF ExecuteQueues, recordTaskQueued
    <3>2. Len(queue') = Len(queue) + 1
      BY <1>1, <3>1, AppendEntries
    <3>3. /\ metrics'["active"] = activeTasks' /\ metrics'["queue_depth"] = Len(queue')
          /\ metrics'["max_active_observed"] = Larger(metrics["max_active_observed"], activeTasks')
          /\ metrics'["max_queue_depth_observed"]
                = Larger(metrics["max_queue_depth_observed"], Len(queue'))
          /\ metrics'["finished"] = metrics["finished"]
          /\ metrics'["queue_rejections"] = metrics["queue_rejections"]
          /\ Tally(metrics') = Tally(metrics)
      BY <1>1, <3>1, StartTallies
    <3>4. Cardinality(Asked') - Cardinality(Asked)
             = 0 + 0 + (activeTasks' - activeTasks) + (Len(queue') - Len(queue))
      BY <1>1, <2>3, <3>1, <3>2
    <3>5. QED
      BY <1>0, <1>4, <3>3, <3>4, MetricsMove
  <2>7. QED
    BY <1>5, <2>4, <2>5, <2>6 DEF execute
<1>6. ASSUME NEW t \in Tasks, CancelQueued(t) PROVE MetricsAgree'
  <2> DEFINE i == queuedIndex(queue, t)
  <2>1. i \in 1..Len(queue)
    BY <1>1, <1>6, QueuedIndexProperties DEF CancelQueued
  <2>2. /\ queue' = RemoveAt(queue, i) /\ promise' = [promise EXCEPT ![queue[i]] = "resolved"]
        /\ activeTasks' = activeTasks
        /\ metrics' = recordTaskFinish(metrics, "canceled", activeTasks', Len(queue'))
    BY <1>6 DEF CancelQueued, splice
  <2> HIDE DEF i
  <2>3. Len(queue') = Len(queue) - 1
    BY <1>1, <2>1, <2>2, RemoveAtProperties
  <2>4. queue[i] \in Requests /\ promise[queue[i]] = "pending"
    BY <1>1, <2>1, ElementOfSeq DEF SlotInv, Held, Entries
  <2>5. Asked' = Asked
    BY <1>0, <2>2, <2>4 DEF Asked, TypeOK
  <2>6. /\ metrics'["active"] = activeTasks' /\ metrics'["queue_depth"] = Len(queue')
        /\ metrics'["max_active_observed"] = Larger(metrics["max_active_observed"], activeTasks')
        /\ metrics'["max_queue_depth_observed"]
              = Larger(metrics["max_queue_depth_observed"], Len(queue'))
        /\ metrics'["finished"] = metrics["finished"] + 1
        /\ metrics'["queue_rejections"] = metrics["queue_rejections"]
        /\ Tally(metrics') = Tally(metrics) + 1
    <3>1. "canceled" \in Terminal
      BY DEF Terminal
    <3>2. QED
      BY <1>1, <2>2, <3>1, FinishTallies
  <2>7. Cardinality(Asked') - Cardinality(Asked)
           = 1 + 0 + (activeTasks' - activeTasks) + (Len(queue') - Len(queue))
    BY <1>1, <1>2, <2>2, <2>3, <2>5
  <2>8. QED
    BY <1>0, <1>4, <2>6, <2>7, MetricsMove
<1>7. ASSUME NEW r \in Requests, NEW o \in {"resolved", "rejected"}, RunEntryEnds(r, o)
      PROVE  MetricsAgree'
  <2>1. r \in running /\ promise[r] = "pending"
    BY <1>7 DEF RunEntryEnds, SlotInv, Held
  <2>2. Cardinality(running) # 0
    BY <1>0, <2>1, RequestsAssumption, FS_Subset, FS_EmptySet DEF TypeOK
  <2>3. activeTasks' = activeTasks - 1
    BY <1>1, <1>7, <2>2 DEF RunEntryEnds, slotsAfterRun, Larger, SlotInv, SlotsExact
  <2>4. /\ queue' = queue /\ promise' = [promise EXCEPT ![r] = o]
        /\ metrics' = recordTaskFinish(metrics, Reported(r), activeTasks', Len(queue'))
    BY <1>7 DEF RunEntryEnds
  <2>5. PICK s \in Terminal : s = Reported(r)
    BY <1>0 DEF Reported, TypeOK, Terminal
  <2>6. Asked' = Asked
    BY <1>0, <2>1, <2>4 DEF Asked, TypeOK
  <2>7. /\ metrics'["active"] = activeTasks' /\ metrics'["queue_depth"] = Len(queue')
        /\ metrics'["max_active_observed"] = Larger(metrics["max_active_observed"], activeTasks')
        /\ metrics'["max_queue_depth_observed"]
              = Larger(metrics["max_queue_depth_observed"], Len(queue'))
        /\ metrics'["finished"] = metrics["finished"] + 1
        /\ metrics'["queue_rejections"] = metrics["queue_rejections"]
        /\ Tally(metrics') = Tally(metrics) + 1
    <3>1. metrics' = recordTaskFinish(metrics, s, activeTasks', Len(queue'))
      BY <2>4, <2>5
    <3>2. QED
      BY <1>1, <3>1, FinishTallies
  <2>8. Cardinality(Asked') - Cardinality(Asked)
           = 1 + 0 + (activeTasks' - activeTasks) + (Len(queue') - Len(queue))
    BY <1>1, <1>2, <2>3, <2>4, <2>6
  <2>9. QED
    BY <1>0, <1>4, <2>7, <2>8, MetricsMove
<1>8. CASE DrainIterates
  <2> DEFINE r == Head(queue)
             q == Tail(queue)
  <2>1. queue # <<>> /\ runEntry(r, q) /\ promise' = promise
    BY <1>8 DEF DrainIterates
  <2>2. /\ r \in Requests /\ q \in Seq(Requests) /\ Len(q) = Len(queue) - 1
        /\ Entries(q) = Entries(queue) \ {r}
    BY <1>1, <2>1, HeadTailProperties, TailEntries DEF SlotInv, Held
  <2>3. /\ queue' = queueDelete(q, TaskOf[r]) /\ activeTasks' = activeTasks + 1
        /\ metrics' = setQueueState(Increment(metrics, {"started"}), activeTasks', Len(queue'))
    BY <2>1 DEF runEntry, recordTaskStart
  <2> HIDE DEF r, q
  <2>4. \A k \in 1..Len(q) : TaskOf[q[k]] # TaskOf[r]
    <3> SUFFICES ASSUME NEW k \in 1..Len(q) PROVE TaskOf[q[k]] # TaskOf[r]
      OBVIOUS
    <3>1. q[k] \in Requests /\ q[k] \in Entries(q)
      BY <2>2, ElementOfSeq DEF Entries
    <3>2. q[k] # r
      BY <2>2, <3>1
    <3>3. QED
      BY <2>2, <3>1, <3>2 DEF OwnTasks
  <2>5. queue' = q
    BY <2>2, <2>3, <2>4, QueueDeleteProperties
  <2>6. Asked' = Asked
    BY <2>1 DEF Asked
  <2>7. /\ metrics'["active"] = activeTasks' /\ metrics'["queue_depth"] = Len(queue')
        /\ metrics'["max_active_observed"] = Larger(metrics["max_active_observed"], activeTasks')
        /\ metrics'["max_queue_depth_observed"]
              = Larger(metrics["max_queue_depth_observed"], Len(queue'))
        /\ metrics'["finished"] = metrics["finished"]
        /\ metrics'["queue_rejections"] = metrics["queue_rejections"]
        /\ Tally(metrics') = Tally(metrics)
    BY <1>1, <2>3, StartTallies
  <2>8. Cardinality(Asked') - Cardinality(Asked)
           = 0 + 0 + (activeTasks' - activeTasks) + (Len(queue') - Len(queue))
    BY <1>1, <1>2, <2>2, <2>3, <2>5, <2>6
  <2>9. QED
    BY <1>0, <1>4, <2>7, <2>8, MetricsMove
<1>9. ASSUME UNCHANGED <<metrics, activeTasks, queue, promise>> PROVE MetricsAgree'
  BY <1>9 DEF MetricsAgree
<1>10. QED
  BY <1>5, <1>6, <1>7, <1>8, <1>9
     DEF Next, CancelDelegated, ObservePublish, DrainEnds, vars

(* When no two requests share a task id, the gauges, the high-water marks  *)
(* and the counters of /a2a/metrics agree with the executor's state.       *)
THEOREM MetricsAlwaysAgree == OwnTasks => (Spec => []MetricsAgree)
<1> SUFFICES ASSUME OwnTasks PROVE Spec => []MetricsAgree
  OBVIOUS
<1>1. Init => MetricsAgree
  <2> SUFFICES ASSUME Init PROVE MetricsAgree
    OBVIOUS
  <2>1. Len(queue) = 0 /\ {x \in Requests : promise[x] # "none"} = {}
    BY EmptySeq DEF Init
  <2>2. \A c \in Counters : metrics[c] = 0
    BY DEF Init
  <2>3. QED
    <3>1. Cardinality({x \in Requests : promise[x] # "none"}) = 0 /\ activeTasks = 0
      BY <2>1, FS_EmptySet DEF Init
    <3>2. /\ metrics["active"] = 0 /\ metrics["queue_depth"] = 0
          /\ metrics["max_active_observed"] = 0 /\ metrics["max_queue_depth_observed"] = 0
          /\ metrics["finished"] = 0 /\ metrics["completed"] = 0 /\ metrics["failed"] = 0
          /\ metrics["canceled"] = 0 /\ metrics["rejected"] = 0
          /\ metrics["queue_rejections"] = 0
      BY <2>2 DEF Counters
    <3>3. QED
      BY <2>1, <3>1, <3>2, LimitTypes DEF MetricsAgree
<1>2. SlotInv /\ MetricsAgree /\ [Next]_vars => MetricsAgree'
  BY MetricsStep
<1>3. QED
  BY <1>1, <1>2, SlotInvariant, PTL DEF Spec

-----------------------------------------------------------------------------
(* The executor implements TaskService: the runs of the abstract service   *)
(* are the requests in `running`, so its capacity is SlotsExact.           *)

(* The abstract module counts as the detailed one does. *)
LEMMA SameCardinality == \A S : Service!Cardinality(S) = Cardinality(S)
BY DEF Service!Cardinality, Cardinality

(* The requests the refinement shows as running are those in running. *)
LEMMA RunningStage ==
    ASSUME TypeOK, \A r \in running : promise[r] = "pending"
    PROVE  Service!Running(stage) = running
BY DEF Service!Running, stage, TypeOK

(* Every step is a step of TaskService or leaves its state alone. *)
LEMMA RefinementStep == SlotInv /\ SlotInv' /\ [Next]_vars => [Service!Next]_stage
<1> SUFFICES ASSUME SlotInv, SlotInv', [Next]_vars, stage' # stage
             PROVE  Service!Next
  BY DEF Service!Next
<1>0. TypeOK /\ TypeOK' /\ promise \in [Requests -> {"none", "pending", "resolved", "rejected"}]
      /\ promise' \in [Requests -> {"none", "pending", "resolved", "rejected"}]
      /\ running \subseteq Requests
  BY DEF SlotInv, TypeOK
<1>c. Service!Cardinality(Service!Running(stage')) <= MaxConcurrent
  <2>1. (Service!Running(stage) = running)'
    BY RunningStage DEF SlotInv, Held, Service!Running, stage, TypeOK
  <2>2. Cardinality(running') <= MaxConcurrent
    BY DEF SlotInv, SlotsExact, MaxConcurrent
  <2>3. QED
    BY <2>1, <2>2, SameCardinality
<1> SUFFICES \E r \in Requests : Service!Submit(r) \/ Service!Leave(r) \/ Service!Finish(r)
  BY <1>c DEF Service!Next
<1>1. ASSUME NEW r \in Requests, execute(r)
      PROVE  Service!Submit(r)
  <2>1. stage[r] = "new" /\ r \notin running
    BY <1>0, <1>1 DEF execute, stage, SlotInv, Held
  <2>2. \A x \in Requests \ {r} : promise'[x] = promise[x] /\ (x \in running' <=> x \in running)
    BY <1>0, <1>1 DEF execute, ExecuteRuns, ExecuteRejects, ExecuteQueues, runEntry
  <2>3. promise'[r] # "none"
    BY <1>0, <1>1 DEF execute, ExecuteRuns, ExecuteRejects, ExecuteQueues
  <2>4. stage'[r] \in {"settled", "waiting", "running"}
    BY <1>0, <2>3 DEF stage
  <2>5. stage' = [stage EXCEPT ![r] = stage'[r]]
    BY <1>0, <2>2 DEF stage
  <2>6. QED
    BY <2>1, <2>4, <2>5 DEF Service!Submit
<1>2. ASSUME NEW t \in Tasks, CancelQueued(t)
      PROVE  \E r \in Requests : Service!Leave(r)
  <2> DEFINE i == queuedIndex(queue, t)
             r == queue[i]
  <2>1. i \in 1..Len(queue)
    BY <1>2, QueuedIndexProperties DEF CancelQueued, SlotInv, TypeOK
  <2>2. promise' = [promise EXCEPT ![r] = "resolved"] /\ running' = running
    BY <1>2 DEF CancelQueued
  <2>3. r \in Requests /\ r \in Entries(queue)
    BY <1>0, <2>1, ElementOfSeq DEF Entries, TypeOK
  <2> HIDE DEF r
  <2>4. stage[r] = "waiting"
    BY <2>3 DEF stage, SlotInv, Held
  <2>5. stage' = [stage EXCEPT ![r] = "settled"]
    BY <1>0, <2>2, <2>3 DEF stage
  <2>6. QED
    BY <2>3, <2>4, <2>5 DEF Service!Leave
<1>3. ASSUME NEW r \in Requests, NEW o \in {"resolved", "rejected"}, RunEntryEnds(r, o)
      PROVE  Service!Finish(r)
  <2>1. stage[r] = "running"
    BY <1>3 DEF RunEntryEnds, stage, SlotInv, Held
  <2>2. promise' = [promise EXCEPT ![r] = o] /\ running' = running \ {r}
    BY <1>3 DEF RunEntryEnds
  <2>3. stage' = [stage EXCEPT ![r] = "settled"]
    BY <1>0, <2>2 DEF stage
  <2>4. QED
    BY <2>1, <2>3 DEF Service!Finish
<1>4. ASSUME DrainIterates
      PROVE  Service!Leave(Head(queue)) /\ Head(queue) \in Requests
  <2> DEFINE r == Head(queue)
  <2>1. r \in Requests /\ r \in Entries(queue)
    BY <1>0, <1>4, TailEntries DEF DrainIterates, TypeOK
  <2>2. promise' = promise /\ running' = running \cup {r}
    BY <1>4 DEF DrainIterates, runEntry
  <2> HIDE DEF r
  <2>3. stage[r] = "waiting" /\ promise[r] = "pending"
    BY <2>1 DEF stage, SlotInv, Held
  <2>4. stage' = [stage EXCEPT ![r] = "running"]
    BY <1>0, <2>1, <2>2, <2>3 DEF stage
  <2>5. Service!Leave(r)
    BY <2>3, <2>4 DEF Service!Leave
  <2>6. QED
    BY <2>1, <2>5 DEF r
<1>5. ASSUME \/ \E t \in Tasks : CancelDelegated(t)
             \/ \E r \in Requests, s \in Terminal : ObservePublish(r, s)
             \/ DrainEnds
             \/ UNCHANGED vars
      PROVE  FALSE
  <2>1. promise' = promise /\ running' = running
    BY <1>5 DEF CancelDelegated, ObservePublish, DrainEnds, vars
  <2>2. stage' = stage
    BY <2>1 DEF stage
  <2>3. QED
    BY <2>2
<1>6. QED
  BY <1>1, <1>2, <1>3, <1>4, <1>5 DEF Next

(* Every behaviour of the executor is, seen through the stages of its      *)
(* requests, one of TaskService: a request runs at most once, at most      *)
(* MaxConcurrent run, and a settled request stays settled.                 *)
THEOREM Refinement == Spec => ImplementsTaskService
<1>1. Init => Service!Init
  BY DEF Init, Service!Init, stage
<1>2. QED
  BY <1>1, SlotInvariant, RefinementStep, PTL DEF Spec, ImplementsTaskService, Service!Spec
=============================================================================
