------------------------- MODULE TwoGatewaysProofs --------------------------
(***************************************************************************)
(* What two gateways guarantee each other for any number of matches,       *)
(* entries, ticks, overlapping polls and repeated requests: the match      *)
(* handshake over the hub (HubHandshake), whatever calls of it fail or     *)
(* lose their response, and the delivery of messages (Delivery), whatever  *)
(* the network loses and whenever the receiver restarts.                   *)
(***************************************************************************)
EXTENDS Delivery, HubHandshake, FiniteSetTheorems, SequenceTheorems, TLAPS

-----------------------------------------------------------------------------
(* The delivery of messages                                                *)

Statuses == {"new", "pending", "sending", "sent", "dead", "gone"}

(* The types the proofs rest on. *)
DeliveryTypes ==
    /\ status \in [Entries -> Statuses]
    /\ retry_count \in [Entries -> Nat] /\ attempts \in [Entries -> Nat]
    /\ isFlushing \in BOOLEAN
    /\ pending \in [Passes -> Seq(Entries)]
    /\ sending \in [Passes -> Entries \cup {NoEntry}]
    /\ clock \in Nat
    /\ nonces \in [Nonces -> Nat] /\ accepted \in [Nonces -> 0..1]
    /\ responses \in [Keys -> [payload: Payloads \cup {"none"}, expires_at: Nat]]
    /\ \A e \in Entries : /\ {"timestamp", "key", "payload"} \subseteq DOMAIN envelope[e]
                          /\ envelope[e].key \in Keys /\ envelope[e].payload \in Payloads

(* One pass of the relay at a time has entries to send. *)
OnePass ==
    \A p \in Passes :
        /\ sending[p] = NoEntry => pending[p] = <<>>
        /\ sending[p] # NoEntry => isFlushing
        /\ \A o \in Passes : sending[p] # NoEntry /\ sending[o] # NoEntry => p = o

(* The entries of the list q, which a pass has still to send, are          *)
(* different, and due unless they were removed.                            *)
Due(q, st) ==
    /\ \A i \in 1..Len(q) : st[q[i]] \in {"pending", "gone"} /\ attempts[q[i]] < maxRetries
    /\ \A i, j \in 1..Len(q) : i # j => q[i] # q[j]

PassesAreDue ==
    \A p \in Passes :
        /\ Due(pending[p], status)
        /\ sending[p] # NoEntry =>
              /\ status[sending[p]] \in {"sending", "gone"}
              /\ attempts[sending[p]] \in 1..maxRetries
              /\ \A i \in 1..Len(pending[p]) : pending[p][i] # sending[p]

(* The attempts made for an entry, by its status and its count of retries. *)
Counted(st, retries) ==
    \A e \in Entries :
        /\ st[e] = "new" => attempts[e] = 0 /\ retries[e] = 0
        /\ st[e] = "pending" => attempts[e] = retries[e] /\ retries[e] < maxRetries
        /\ st[e] \in {"sending", "sent"} => attempts[e] = retries[e] + 1 /\ retries[e] < maxRetries
        /\ st[e] = "dead" => attempts[e] = maxRetries /\ retries[e] = maxRetries

(* A request on the network is one of the attempts of its entry, carries   *)
(* its message, and is told from every other by its nonce.                 *)
RequestsAreSigned ==
    /\ \A r \in network :
          /\ r.timestamp \in Int
          /\ \E e \in Entries : \E i \in 1..attempts[e] :
                /\ i \in 1..maxRetries
                /\ r.nonce = <<e, i>>
                /\ r.envelope.key = envelope[e].key
                /\ r.envelope.payload = envelope[e].payload
    /\ \A r, s \in network : r.nonce = s.nonce => r = s
    /\ working \subseteq network

(* A nonce that was accepted is kept until its timestamp is too old, and   *)
(* was never accepted before its request was signed.                       *)
NoncesAreKept ==
    /\ \A r \in network :
          accepted[r.nonce] = 1 => \/ r.timestamp + skew < clock
                                   \/ r.timestamp + skew < nonces[r.nonce]
    /\ \A e \in Entries : \A i \in 1..maxRetries :
          i > attempts[e] => accepted[<<e, i>>] = 0

(* The inductive invariant. *)
DeliveryInv ==
    /\ DeliveryTypes
    /\ OnePass
    /\ PassesAreDue
    /\ Counted(status, retry_count)
    /\ RequestsAreSigned
    /\ NoncesAreKept

-----------------------------------------------------------------------------
(* The initial states satisfy the invariant.                               *)
LEMMA DeliveryInit == Init => DeliveryInv
<1> SUFFICES ASSUME Init PROVE DeliveryInv
  OBVIOUS
<1> USE OutboxAssumption, EntriesAssumption DEF Init, OutboxInit, InboxInit
<1>1. DeliveryTypes
  <2>1. <<>> \in Seq(Entries)
    BY EmptySeq
  <2>2. \A e \in Entries : envelope[e] \in EnvelopesOf[e]
    OBVIOUS
  <2>3. \A e \in Entries : /\ {"timestamp", "key", "payload"} \subseteq DOMAIN envelope[e]
                           /\ envelope[e].key \in Keys /\ envelope[e].payload \in Payloads
    BY <2>2, EnvelopesAssumption
  <2>4. responses \in [Keys -> [payload: Payloads \cup {"none"}, expires_at: Nat]]
    BY DEF NoResponse
  <2>5. pending \in [Passes -> Seq(Entries)] /\ sending \in [Passes -> Entries \cup {NoEntry}]
    BY <2>1
  <2>6. status \in [Entries -> Statuses]
    BY DEF Statuses
  <2>7. nonces \in [Nonces -> Nat] /\ accepted \in [Nonces -> 0..1]
    OBVIOUS
  <2> QED
    BY <2>3, <2>4, <2>5, <2>6, <2>7 DEF DeliveryTypes
<1>2. OnePass
  BY DEF OnePass
<1>3. PassesAreDue
  BY DEF PassesAreDue, Due
<1>4. Counted(status, retry_count)
  BY DEF Counted
<1>5. RequestsAreSigned /\ NoncesAreKept
  BY DEF RequestsAreSigned, NoncesAreKept
<1> QED
  BY <1>1, <1>2, <1>3, <1>4, <1>5 DEF DeliveryInv

-----------------------------------------------------------------------------
(* The relay *)

(* What is left of a list of due entries without its head.                 *)
LEMMA DueTail ==
    ASSUME NEW q \in Seq(Entries), q # <<>>, NEW st, Due(q, st)
    PROVE  /\ Head(q) \in Entries /\ Tail(q) \in Seq(Entries)
           /\ st[Head(q)] \in {"pending", "gone"} /\ attempts[Head(q)] < maxRetries
           /\ Due(Tail(q), st)
           /\ \A i \in 1..Len(Tail(q)) : Tail(q)[i] # Head(q)
<1>1. /\ Head(q) \in Entries /\ Tail(q) \in Seq(Entries)
      /\ Len(Tail(q)) = Len(q) - 1
      /\ \A i \in 1..Len(Tail(q)) : Tail(q)[i] = q[i + 1]
  BY HeadTailProperties
<1>2. Len(q) \in Nat \ {0} /\ Head(q) = q[1]
  BY EmptySeq
<1> HIDE DEF Due
<1>3. /\ \A i \in 1..Len(q) : st[q[i]] \in {"pending", "gone"} /\ attempts[q[i]] < maxRetries
      /\ \A i, j \in 1..Len(q) : i # j => q[i] # q[j]
  BY DEF Due
<1>4. \A i \in 1..Len(Tail(q)) : i + 1 \in 1..Len(q) /\ i + 1 # 1
  BY <1>1, <1>2
<1>5. Due(Tail(q), st)
  BY <1>1, <1>2, <1>3, <1>4 DEF Due
<1>6. 1 \in 1..Len(q)
  BY <1>2
<1> QED
  BY <1>1, <1>2, <1>3, <1>4, <1>5, <1>6

(* A pass that has nothing left to send is over.                           *)
LEMMA PassEnds ==
    ASSUME DeliveryInv, NEW p \in Passes, NEW st \in [Entries -> Statuses],
           Proceed(p, <<>>, st), Emit(p), UNCHANGED <<created_at, clock>>,
           retry_count' \in [Entries -> Nat],
           \A o \in Passes \ {p} : sending[o] = NoEntry,
           Counted(st, retry_count')
    PROVE  DeliveryInv'
<1>1. /\ status' = st /\ isFlushing' = FALSE
      /\ pending' = [pending EXCEPT ![p] = <<>>] /\ sending' = [sending EXCEPT ![p] = NoEntry]
  BY DEF Proceed
<1>2. sending' = [o \in Passes |-> NoEntry] /\ pending' = [o \in Passes |-> <<>>]
  BY <1>1 DEF DeliveryInv, DeliveryTypes, OnePass
<1>3. /\ UNCHANGED <<network, attempts, nonces, responses, working, accepted, envelope>>
      /\ answers' \subseteq answers
  BY <1>2, EntriesAssumption DEF Emit
<1>4. DeliveryTypes'
  <2>1. <<>> \in Seq(Entries)
    BY EmptySeq
  <2>2. pending' \in [Passes -> Seq(Entries)] /\ sending' \in [Passes -> Entries \cup {NoEntry}]
        /\ isFlushing' \in BOOLEAN
    BY <1>1, <1>2, <2>1
  <2> QED
    BY <1>1, <1>3, <2>2 DEF DeliveryInv, DeliveryTypes
<1>5. OnePass' /\ PassesAreDue'
  BY <1>2 DEF OnePass, PassesAreDue, Due
<1>6. Counted(status, retry_count)'
  BY <1>1, <1>3 DEF Counted
<1>7. RequestsAreSigned' /\ NoncesAreKept'
  BY <1>3 DEF DeliveryInv, RequestsAreSigned, NoncesAreKept
<1> QED
  BY <1>4, <1>5, <1>6, <1>7 DEF DeliveryInv

(* A pass goes on to the next entry and signs a request for it.            *)
LEMMA PassSends ==
    ASSUME DeliveryInv, NEW p \in Passes, NEW st \in [Entries -> Statuses],
           NEW q \in Seq(Entries), q # <<>>,
           Proceed(p, q, st), Emit(p), UNCHANGED <<created_at, clock>>,
           retry_count' \in [Entries -> Nat],
           \A o \in Passes \ {p} : sending[o] = NoEntry,
           Due(q, st), Counted(st, retry_count')
    PROVE  DeliveryInv'
<1> DEFINE h == Head(q)
           d == Tail(q)
           r == signRequest(h)
<1>1. /\ h \in Entries /\ d \in Seq(Entries)
      /\ st[h] \in {"pending", "gone"} /\ attempts[h] < maxRetries
      /\ Due(d, st) /\ \A i \in 1..Len(d) : d[i] # h
  BY DueTail
<1>2. /\ status' = (IF st[h] = "gone" THEN st ELSE [st EXCEPT ![h] = "sending"])
      /\ isFlushing' = TRUE
      /\ pending' = [pending EXCEPT ![p] = d] /\ sending' = [sending EXCEPT ![p] = h]
  BY DEF Proceed
<1> HIDE DEF h, d
<1>3. /\ sending'[p] = h /\ pending'[p] = d
      /\ \A o \in Passes \ {p} : sending'[o] = NoEntry /\ pending'[o] = <<>>
  BY <1>2 DEF DeliveryInv, DeliveryTypes, OnePass
<1>4. h # NoEntry
  BY <1>1, EntriesAssumption
<1>5. /\ UNCHANGED <<nonces, responses, working, accepted, envelope>>
      /\ answers' \subseteq answers
      /\ network' = network \cup {r}
      /\ attempts' = [attempts EXCEPT ![h] = @ + 1]
  BY <1>3, <1>4 DEF Emit
<1>6. /\ attempts' \in [Entries -> Nat] /\ attempts'[h] = attempts[h] + 1
      /\ \A e \in Entries \ {h} : attempts'[e] = attempts[e]
      /\ \A e \in Entries : attempts[e] \in Nat /\ attempts'[e] \in Nat /\ attempts[e] <= attempts'[e]
  BY <1>1, <1>5 DEF DeliveryInv, DeliveryTypes
<1>7. /\ r.nonce = <<h, attempts[h] + 1>> /\ r.timestamp = clock + drift
      /\ r.envelope.key = envelope[h].key /\ r.envelope.payload = envelope[h].payload
  BY <1>1 DEF signRequest, createEnvelope, DeliveryInv, DeliveryTypes
<1> HIDE DEF r
<1>8. DeliveryTypes'
  <2>1. status' \in [Entries -> Statuses]
    BY <1>1, <1>2 DEF Statuses
  <2>2. pending' \in [Passes -> Seq(Entries)] /\ sending' \in [Passes -> Entries \cup {NoEntry}]
        /\ isFlushing' \in BOOLEAN
    BY <1>1, <1>2 DEF DeliveryInv, DeliveryTypes
  <2> QED
    BY <1>5, <1>6, <2>1, <2>2 DEF DeliveryInv, DeliveryTypes
<1>9. OnePass'
  BY <1>2, <1>3, <1>4 DEF OnePass
<1>10. PassesAreDue'
  <2>1. \A e \in Entries \ {h} : status'[e] = st[e]
    BY <1>1, <1>2
  <2>2. status'[h] \in {"sending", "gone"}
    BY <1>1, <1>2
  <2>3. attempts'[h] \in 1..maxRetries
    BY <1>1, <1>6, OutboxAssumption DEF DeliveryInv, DeliveryTypes
  <2>4. \A i \in 1..Len(d) : d[i] \in Entries \ {h}
    BY <1>1, ElementOfSeq
  <2>5. Due(d, status)'
    BY <1>1, <1>6, <2>1, <2>4 DEF Due
  <2>6. Due(<<>>, status)'
    BY DEF Due
  <2>7. ASSUME NEW o \in Passes
        PROVE  /\ Due(pending[o], status)'
               /\ sending'[o] # NoEntry =>
                     /\ status'[sending'[o]] \in {"sending", "gone"}
                     /\ attempts'[sending'[o]] \in 1..maxRetries
                     /\ \A i \in 1..Len(pending'[o]) : pending'[o][i] # sending'[o]
    <3>1. CASE o = p
      BY <1>1, <1>3, <2>2, <2>3, <2>5, <3>1
    <3>2. CASE o # p
      BY <1>3, <2>6, <3>2
    <3> QED
      BY <3>1, <3>2
  <2> QED
    BY <2>7 DEF PassesAreDue
<1>11. Counted(status, retry_count)'
  BY <1>1, <1>2, <1>6 DEF Counted, DeliveryInv, DeliveryTypes
<1>12. \A s \in network : s.nonce # r.nonce
  BY <1>1, <1>7 DEF DeliveryInv, DeliveryTypes, RequestsAreSigned
<1>13. RequestsAreSigned'
  <2>1. attempts[h] + 1 \in 1..attempts'[h] /\ attempts[h] + 1 \in 1..maxRetries
    BY <1>1, <1>6, OutboxAssumption DEF DeliveryInv, DeliveryTypes
  <2>2. r.timestamp \in Int
    BY <1>7, EntriesAssumption DEF DeliveryInv, DeliveryTypes
  <2>3. \A e \in Entries : 1..attempts[e] \subseteq 1..attempts'[e]
    BY <1>6
  <2>4. ASSUME NEW s \in network'
        PROVE  /\ s.timestamp \in Int
               /\ \E e \in Entries : \E i \in 1..attempts'[e] :
                     /\ i \in 1..maxRetries
                     /\ s.nonce = <<e, i>>
                     /\ s.envelope.key = envelope'[e].key
                     /\ s.envelope.payload = envelope'[e].payload
    <3>1. CASE s = r
      BY <1>1, <1>5, <1>7, <2>1, <2>2, <3>1
    <3>2. CASE s \in network
      BY <1>5, <2>3, <3>2 DEF DeliveryInv, RequestsAreSigned
    <3> QED
      BY <1>5, <3>1, <3>2
  <2>5. \A s, u \in network' : s.nonce = u.nonce => s = u
    BY <1>5, <1>12 DEF DeliveryInv, RequestsAreSigned
  <2>6. working' \subseteq network'
    BY <1>5 DEF DeliveryInv, RequestsAreSigned
  <2> QED
    BY <2>4, <2>5, <2>6 DEF RequestsAreSigned
<1>14. NoncesAreKept'
  <2>1. accepted[r.nonce] = 0
    BY <1>1, <1>7, OutboxAssumption DEF DeliveryInv, DeliveryTypes, NoncesAreKept
  <2>2. \A e \in Entries : \A i \in 1..maxRetries : i > attempts'[e] => i > attempts[e]
    BY <1>6, OutboxAssumption
  <2> QED
    BY <1>5, <2>1, <2>2 DEF DeliveryInv, NoncesAreKept
<1> QED
  BY <1>8, <1>9, <1>10, <1>11, <1>13, <1>14 DEF DeliveryInv

(* What getPending() returns are due entries, in some order.               *)
LEMMA PendingIsDue ==
    ASSUME DeliveryInv, NEW q \in getPending
    PROVE  q \in Seq(Entries) /\ Due(q, status)
<1> DEFINE due == {e \in Entries : status[e] = "pending" /\ next_retry_at[e] <= clock}
           n == Cardinality(due)
<1>1. n \in Nat
  BY EntriesAssumption, FS_Subset, FS_CardinalityType
<1>2. /\ q \in [1..n -> due]
      /\ \A i, j \in 1..n : i < j => q[i] # q[j]
  BY DEF getPending
<1> HIDE DEF n
<1>3. q \in [1..n -> Entries]
  BY <1>2
<1>4. q \in Seq(Entries) /\ Len(q) = n
  BY <1>1, <1>3, SeqDef
<1>5. \A i, j \in 1..n : i # j => q[i] # q[j]
  <2> SUFFICES ASSUME NEW i \in 1..n, NEW j \in 1..n, i # j PROVE q[i] # q[j]
    OBVIOUS
  <2>1. i < j \/ j < i
    BY <1>1
  <2> QED
    BY <1>2, <2>1
<1>6. \A i \in 1..n : q[i] \in Entries /\ status[q[i]] = "pending"
  BY <1>2
<1>7. \A e \in Entries : status[e] = "pending" => attempts[e] < maxRetries
  BY DEF DeliveryInv, Counted
<1> QED
  BY <1>4, <1>5, <1>6, <1>7 DEF Due

(* A pass proceeds in order when the statuses and the counts its last send *)
(* left are in order.                                                      *)
LEMMA PassStep ==
    ASSUME DeliveryInv, NEW p \in Passes, NEW st \in [Entries -> Statuses],
           NEW q \in Seq(Entries),
           Proceed(p, q, st), Emit(p), UNCHANGED <<created_at, clock>>,
           retry_count' \in [Entries -> Nat],
           \A o \in Passes \ {p} : sending[o] = NoEntry,
           Due(q, st), Counted(st, retry_count')
    PROVE  DeliveryInv'
  BY PassEnds, PassSends

(* A tick of the interval keeps the invariant.                             *)
LEMMA TickStep ==
    ASSUME DeliveryInv, NEW p \in Passes, Tick(p)
    PROVE  DeliveryInv'
<1>1. PICK q \in getPending : q # <<>> /\ Proceed(p, q, status)
  BY DEF Tick, Flush
<1>2. q \in Seq(Entries) /\ Due(q, status)
  BY PendingIsDue
<1>3. UNCHANGED <<retry_count, created_at, clock>> /\ ~isFlushing /\ Emit(p)
  BY DEF Tick, Flush
<1>4. \A o \in Passes \ {p} : sending[o] = NoEntry
  BY <1>3 DEF DeliveryInv, OnePass
<1>5. /\ status \in [Entries -> Statuses] /\ retry_count' \in [Entries -> Nat]
      /\ Counted(status, retry_count')
  BY <1>3 DEF DeliveryInv, DeliveryTypes
<1> QED
  BY <1>1, <1>2, <1>3, <1>4, <1>5, PassStep

(* What the end of a send finds: the entry is still marked as being sent,  *)
(* or it was removed, and the rest of the list is due whatever it becomes. *)
LEMMA SendInProgress ==
    ASSUME DeliveryInv, NEW p \in Passes, sending[p] # NoEntry
    PROVE  /\ sending[p] \in Entries
           /\ pending[p] \in Seq(Entries)
           /\ status[sending[p]] \in {"sending", "gone"}
           /\ Due(pending[p], status)
           /\ \A s : Due(pending[p], [status EXCEPT ![sending[p]] = s])
           /\ \A o \in Passes \ {p} : sending[o] = NoEntry
           /\ status \in [Entries -> Statuses]
           /\ retry_count \in [Entries -> Nat]
<1>1. /\ sending[p] \in Entries /\ pending[p] \in Seq(Entries)
      /\ status[sending[p]] \in {"sending", "gone"} /\ Due(pending[p], status)
      /\ status \in [Entries -> Statuses] /\ retry_count \in [Entries -> Nat]
  BY DEF DeliveryInv, DeliveryTypes, PassesAreDue
<1>2. \A i \in 1..Len(pending[p]) : pending[p][i] \in Entries /\ pending[p][i] # sending[p]
  BY <1>1, ElementOfSeq DEF DeliveryInv, PassesAreDue
<1>3. \A s : Due(pending[p], [status EXCEPT ![sending[p]] = s])
  BY <1>1, <1>2 DEF Due
<1>4. \A o \in Passes \ {p} : sending[o] = NoEntry
  BY DEF DeliveryInv, OnePass
<1> QED
  BY <1>1, <1>3, <1>4

(* sendFn resolves with true.                                              *)
LEMMA SucceedsStep ==
    ASSUME DeliveryInv, NEW p \in Passes, SendSucceeds(p), Emit(p)
    PROVE  DeliveryInv'
<1> DEFINE e == sending[p]
<1>1. /\ e # NoEntry /\ Proceed(p, pending[p], mark(e, "sent"))
      /\ UNCHANGED <<retry_count, created_at, clock>>
  BY DEF SendSucceeds
<1>2. /\ e \in Entries /\ pending[p] \in Seq(Entries) /\ status[e] \in {"sending", "gone"}
      /\ Due(pending[p], status) /\ Due(pending[p], [status EXCEPT ![e] = "sent"])
      /\ \A o \in Passes \ {p} : sending[o] = NoEntry
      /\ status \in [Entries -> Statuses] /\ retry_count \in [Entries -> Nat]
  BY <1>1, SendInProgress
<1> HIDE DEF e
<1>3. CASE Stored(e)
  <2> DEFINE st == [status EXCEPT ![e] = "sent"]
  <2>1. status[e] = "sending" /\ mark(e, "sent") = st
    BY <1>2, <1>3 DEF Stored, mark
  <2>2. st \in [Entries -> Statuses] /\ Counted(st, retry_count')
    BY <1>1, <1>2, <2>1 DEF DeliveryInv, Counted, Statuses, e
  <2> QED
    BY <1>1, <1>2, <2>1, <2>2, PassStep
<1>4. CASE ~Stored(e)
  <2>1. mark(e, "sent") = status
    BY <1>4 DEF mark
  <2>2. Counted(status, retry_count') /\ retry_count' \in [Entries -> Nat]
    BY <1>1, <1>2 DEF DeliveryInv
  <2> QED
    BY <1>1, <1>2, <2>1, <2>2, PassStep
<1> QED
  BY <1>3, <1>4

(* It resolves with false or throws: the entry is due again, or dead after *)
(* its last attempt.                                                       *)
LEMMA FailsStep ==
    ASSUME DeliveryInv, NEW p \in Passes, SendFails(p), Emit(p)
    PROVE  DeliveryInv'
<1> DEFINE e == sending[p]
<1>1. e # NoEntry /\ UNCHANGED <<created_at, clock>>
  BY DEF SendFails
<1>2. /\ e \in Entries /\ pending[p] \in Seq(Entries) /\ status[e] \in {"sending", "gone"}
      /\ Due(pending[p], status) /\ \A s : Due(pending[p], [status EXCEPT ![e] = s])
      /\ \A o \in Passes \ {p} : sending[o] = NoEntry
      /\ status \in [Entries -> Statuses] /\ retry_count \in [Entries -> Nat]
  BY <1>1, SendInProgress
<1>3. CASE markFailed(e) /\ Proceed(p, pending[p], mark(e, afterFailure(e)))
  <2> HIDE DEF e
  <2> DEFINE st == [status EXCEPT ![e] = afterFailure(e)]
  <2>1. /\ status[e] = "sending" /\ mark(e, afterFailure(e)) = st
        /\ retry_count' = [retry_count EXCEPT ![e] = @ + 1]
    BY <1>2, <1>3 DEF markFailed, Stored, mark
  <2>2. afterFailure(e) = (IF retry_count[e] + 1 >= maxRetries THEN "dead" ELSE "pending")
    BY DEF afterFailure
  <2>3. attempts[e] = retry_count[e] + 1 /\ retry_count[e] < maxRetries
    BY <1>2, <2>1 DEF DeliveryInv, Counted
  <2>4. st \in [Entries -> Statuses] /\ retry_count' \in [Entries -> Nat]
    BY <1>2, <2>1, <2>2 DEF Statuses
  <2>5. Counted(st, retry_count')
    BY <1>2, <2>1, <2>2, <2>3, OutboxAssumption DEF DeliveryInv, Counted
  <2> QED
    BY <1>1, <1>2, <1>3, <2>1, <2>4, <2>5, PassStep
<1>4. CASE ~Stored(e) /\ Proceed(p, pending[p], status) /\ UNCHANGED retry_count
  <2>1. Counted(status, retry_count') /\ retry_count' \in [Entries -> Nat]
    BY <1>2, <1>4 DEF DeliveryInv
  <2> QED
    BY <1>1, <1>2, <1>4, <2>1, PassStep
<1> QED
  BY <1>3, <1>4 DEF SendFails

(* The response: what counts as success is an answer of 200.               *)
LEMMA ResponseStep ==
    ASSUME DeliveryInv, NEW p \in Passes, Response(p)
    PROVE  DeliveryInv'
<1>1. PICK code \in Codes : /\ <<Nonce(p), code>> \in answers
                           /\ IF code = 200 THEN SendSucceeds(p) ELSE SendFails(p)
  BY DEF Response
<1>2. sending[p] # NoEntry /\ Emit(p)
  BY DEF Response
<1>3. CASE code = 200
  BY <1>1, <1>2, <1>3, SucceedsStep
<1>4. CASE code # 200
  BY <1>1, <1>2, <1>4, FailsStep
<1> QED
  BY <1>3, <1>4

-----------------------------------------------------------------------------
(* The receiver *)

(* A request on the network names an entry by its nonce and carries the    *)
(* message of the entry.                                                   *)
LEMMA RequestOfEntry ==
    ASSUME DeliveryInv, NEW r \in network
    PROVE  \E e \in Entries : \E i \in 1..maxRetries :
              /\ r.nonce = <<e, i>> /\ r.nonce \in Nonces /\ i <= attempts[e]
              /\ r.envelope.key = envelope[e].key /\ r.envelope.key \in Keys
              /\ r.envelope.payload = envelope[e].payload /\ r.envelope.payload \in Payloads
<1>1. PICK e \in Entries : \E i \in 1..attempts[e] :
            /\ i \in 1..maxRetries
            /\ r.nonce = <<e, i>>
            /\ r.envelope.key = envelope[e].key
            /\ r.envelope.payload = envelope[e].payload
  BY DEF DeliveryInv, RequestsAreSigned
<1>2. PICK i \in 1..attempts[e] :
            /\ i \in 1..maxRetries
            /\ r.nonce = <<e, i>>
            /\ r.envelope.key = envelope[e].key
            /\ r.envelope.payload = envelope[e].payload
  BY <1>1
<1>3. <<e, i>> \in Nonces
  BY <1>2, EntriesAssumption
<1>4. envelope[e].key \in Keys /\ envelope[e].payload \in Payloads /\ attempts[e] \in Nat
  BY DEF DeliveryInv, DeliveryTypes
<1> QED
  BY <1>2, <1>3, <1>4

(* A step that leaves the outbox and the sender's side of the network      *)
(* alone.                                                                  *)
SenderUnchanged == UNCHANGED <<entryVars, relayVars, idle>>

(* Requests, responses and the clock leave the sender in order.            *)
LEMMA SenderKept ==
    ASSUME DeliveryInv, SenderUnchanged
    PROVE  /\ OnePass' /\ PassesAreDue' /\ Counted(status, retry_count)'
           /\ working' \subseteq network => RequestsAreSigned'
<1> USE DEF SenderUnchanged, entryVars, relayVars, idle, DeliveryInv
<1>1. OnePass'
  BY DEF OnePass
<1>2. PassesAreDue'
  BY DEF PassesAreDue, Due
<1>3. Counted(status, retry_count)'
  BY DEF Counted
<1>4. working' \subseteq network => RequestsAreSigned'
  BY DEF RequestsAreSigned
<1> QED
  BY <1>1, <1>2, <1>3, <1>4

(* A request that is refused keeps the invariant: its body is too large,   *)
(* or it is not authentic.                                                 *)
LEMMA RefuseStep ==
    ASSUME DeliveryInv, NEW r \in network, TooLarge(r) \/ Refuse(r, clock), UNCHANGED <<outboxVars, idle>>
    PROVE  DeliveryInv'
<1> USE DEF outboxVars, entryVars, relayVars, idle
<1>1. UNCHANGED <<clock, nonces, responses, working, accepted, envelope>> /\ SenderUnchanged
  BY DEF TooLarge, Refuse, SenderUnchanged
<1>4. DeliveryTypes'
  BY <1>1 DEF DeliveryInv, DeliveryTypes
<1>5. NoncesAreKept'
  BY <1>1 DEF DeliveryInv, NoncesAreKept
<1>6. working' \subseteq network
  BY <1>1 DEF DeliveryInv, RequestsAreSigned
<1> QED
  BY <1>1, <1>4, <1>5, <1>6, SenderKept DEF DeliveryInv

(* A nonce is accepted when its entry has expired, which is too late for   *)
(* the timestamp of a request that was accepted before.                    *)
LEMMA AcceptStep ==
    ASSUME DeliveryInv, NEW r \in network, Accept(r, clock), UNCHANGED <<outboxVars, idle>>
    PROVE  DeliveryInv'
<1> USE DEF outboxVars, entryVars, relayVars, idle
<1>1. UNCHANGED <<clock, responses, envelope, network, attempts>> /\ SenderUnchanged
  BY DEF Accept, SenderUnchanged
<1>2. PICK e \in Entries, i \in 1..maxRetries :
          /\ r.nonce = <<e, i>> /\ r.nonce \in Nonces /\ i <= attempts[e]
          /\ r.envelope.key \in Keys /\ r.envelope.payload \in Payloads
  BY RequestOfEntry
<1> DEFINE n == r.nonce
<1>3. /\ nonces' = [nonces EXCEPT ![n] = clock + nonceTtl]
      /\ accepted' = [accepted EXCEPT ![n] = @ + 1]
      /\ clock - r.timestamp <= skew /\ r.timestamp - clock <= skew /\ nonces[n] <= clock
  BY DEF Accept, Authentic, add, checkTimestamp, Fresh
<1>4. /\ r.timestamp \in Int /\ clock \in Nat /\ nonces[n] \in Nat
      /\ accepted[n] \in 0..1 /\ skew \in Nat /\ nonceTtl \in Nat /\ nonceTtl > 2 * skew
  BY <1>2, InboxAssumption DEF DeliveryInv, DeliveryTypes, RequestsAreSigned
<1>5. accepted[n] = 0
  <2>1. accepted[n] = 1 => r.timestamp + skew < clock \/ r.timestamp + skew < nonces[n]
    BY DEF DeliveryInv, NoncesAreKept
  <2> QED
    BY <1>3, <1>4, <2>1
<1>6. DeliveryTypes'
  <2>1. nonces' \in [Nonces -> Nat] /\ accepted' \in [Nonces -> 0..1]
    BY <1>2, <1>3, <1>4, <1>5 DEF DeliveryInv, DeliveryTypes
  <2> QED
    BY <1>1, <2>1 DEF SenderUnchanged, DeliveryInv, DeliveryTypes
<1>7. NoncesAreKept'
  <2>1. ASSUME NEW s \in network, accepted'[s.nonce] = 1
        PROVE  s.timestamp + skew < clock \/ s.timestamp + skew < nonces'[s.nonce]
    <3>1. CASE s.nonce = n
      <4>1. s = r
        BY <3>1 DEF DeliveryInv, RequestsAreSigned
      <4>2. nonces'[n] = clock + nonceTtl
        BY <1>2, <1>3 DEF DeliveryInv, DeliveryTypes
      <4> QED
        BY <1>3, <1>4, <4>1, <4>2
    <3>2. CASE s.nonce # n
      <4>1. s.nonce \in Nonces
        BY RequestOfEntry
      <4>2. accepted'[s.nonce] = accepted[s.nonce] /\ nonces'[s.nonce] = nonces[s.nonce]
        BY <1>3, <3>2, <4>1 DEF DeliveryInv, DeliveryTypes
      <4> QED
        BY <2>1, <4>2 DEF DeliveryInv, NoncesAreKept
    <3> QED
      BY <3>1, <3>2
  <2>2. ASSUME NEW f \in Entries, NEW j \in 1..maxRetries, j > attempts[f]
        PROVE  accepted'[<<f, j>>] = 0
    <3>1. <<f, j>> # <<e, i>>
      BY <1>2, <2>2, OutboxAssumption DEF DeliveryInv, DeliveryTypes
    <3>2. <<f, j>> \in Nonces
      BY EntriesAssumption
    <3>3. accepted'[<<f, j>>] = accepted[<<f, j>>]
      BY <1>2, <1>3, <3>1, <3>2 DEF DeliveryInv, DeliveryTypes
    <3> QED
      BY <2>2, <3>3 DEF DeliveryInv, NoncesAreKept
  <2> QED
    BY <1>1, <2>1, <2>2 DEF NoncesAreKept
<1>9. working' \subseteq network
  BY DEF Accept, DeliveryInv, RequestsAreSigned
<1> QED
  BY <1>1, <1>6, <1>7, <1>9, SenderKept DEF DeliveryInv

(* The end of the work keeps the invariant, with or without a response in  *)
(* the store.                                                              *)
LEMMA WorkStep ==
    ASSUME DeliveryInv, NEW r \in working, Work(r, clock) \/ WorkFails(r, clock),
           UNCHANGED <<outboxVars, idle>>
    PROVE  DeliveryInv'
<1> USE DEF outboxVars, entryVars, relayVars, idle
<1> DEFINE k == r.envelope.key
           v == r.envelope.payload
<1>1. /\ UNCHANGED <<clock, nonces, accepted, envelope, network, attempts>> /\ SenderUnchanged
      /\ working' \subseteq working
      /\ \/ UNCHANGED responses
         \/ responses' = [responses EXCEPT ![k] = [payload |-> v, expires_at |-> clock + responseTtl]]
  BY DEF Work, WorkFails, store, SenderUnchanged
<1>2. r \in network /\ working' \subseteq network
  BY <1>1 DEF DeliveryInv, RequestsAreSigned
<1>3. k \in Keys /\ v \in Payloads
  BY <1>2, RequestOfEntry
<1> HIDE DEF k, v
<1>4. DeliveryTypes'
  <2>1. responses' \in [Keys -> [payload: Payloads \cup {"none"}, expires_at: Nat]]
    <3> DEFINE x == [payload |-> v, expires_at |-> clock + responseTtl]
    <3>1. x \in [payload: Payloads \cup {"none"}, expires_at: Nat]
      BY <1>3, InboxAssumption DEF DeliveryInv, DeliveryTypes
    <3>2. responses \in [Keys -> [payload: Payloads \cup {"none"}, expires_at: Nat]]
      BY DEF DeliveryInv, DeliveryTypes
    <3>3. responses' = responses \/ responses' = [responses EXCEPT ![k] = x]
      BY <1>1
    <3> HIDE DEF x
    <3> QED
      BY <1>3, <3>1, <3>2, <3>3
  <2> QED
    BY <1>1, <2>1 DEF SenderUnchanged, DeliveryInv, DeliveryTypes
<1>5. NoncesAreKept'
  BY <1>1 DEF DeliveryInv, NoncesAreKept
<1> QED
  BY <1>1, <1>2, <1>4, <1>5, SenderKept DEF DeliveryInv

(* What has expired is dropped: then the timestamp of the request is too   *)
(* old, if it was accepted.                                                *)
LEMMA ExpireStep ==
    ASSUME DeliveryInv, cleanupExpired(clock), UNCHANGED <<outboxVars, idle>>
    PROVE  DeliveryInv'
<1> USE DEF outboxVars, entryVars, relayVars, idle
<1>1. /\ UNCHANGED <<clock, working, answers, accepted, envelope, network, attempts>>
      /\ SenderUnchanged
      /\ nonces' = [n \in Nonces |-> IF nonces[n] <= clock THEN 0 ELSE nonces[n]]
      /\ responses' = [k \in Keys |-> IF responses[k].expires_at <= clock
                                      THEN NoResponse ELSE responses[k]]
  BY DEF cleanupExpired, SenderUnchanged
<1>2. DeliveryTypes'
  <2>1. nonces' \in [Nonces -> Nat]
    BY <1>1 DEF DeliveryInv, DeliveryTypes
  <2>2. responses' \in [Keys -> [payload: Payloads \cup {"none"}, expires_at: Nat]]
    BY <1>1 DEF DeliveryInv, DeliveryTypes, NoResponse
  <2> QED
    BY <1>1, <2>1, <2>2 DEF SenderUnchanged, DeliveryInv, DeliveryTypes
<1>3. NoncesAreKept'
  <2>1. ASSUME NEW r \in network, accepted[r.nonce] = 1
        PROVE  r.timestamp + skew < clock \/ r.timestamp + skew < nonces'[r.nonce]
    <3>1. /\ r.nonce \in Nonces /\ r.timestamp \in Int /\ skew \in Nat /\ clock \in Nat
          /\ nonces[r.nonce] \in Nat
      BY RequestOfEntry, InboxAssumption DEF DeliveryInv, DeliveryTypes, RequestsAreSigned
    <3>2. r.timestamp + skew < clock \/ r.timestamp + skew < nonces[r.nonce]
      BY <2>1 DEF DeliveryInv, NoncesAreKept
    <3>3. nonces'[r.nonce] = IF nonces[r.nonce] <= clock THEN 0 ELSE nonces[r.nonce]
      BY <1>1, <3>1
    <3> QED
      BY <3>1, <3>2, <3>3
  <2> QED
    BY <1>1, <2>1 DEF DeliveryInv, NoncesAreKept
<1>5. working' \subseteq network
  BY <1>1 DEF DeliveryInv, RequestsAreSigned
<1> QED
  BY <1>1, <1>2, <1>3, <1>5, SenderKept DEF DeliveryInv

(* A restarted receiver has accepted nothing.                              *)
LEMMA RestartStep ==
    ASSUME DeliveryInv, RestartInbox, UNCHANGED <<outboxVars, idle>>
    PROVE  DeliveryInv'
<1> USE DEF outboxVars, entryVars, relayVars, idle
<1>1. /\ UNCHANGED <<clock, answers, envelope, network, attempts>> /\ SenderUnchanged
      /\ nonces' = [n \in Nonces |-> 0] /\ accepted' = [n \in Nonces |-> 0] /\ working' = {}
      /\ responses' = [k \in Keys |-> NoResponse]
  BY DEF RestartInbox, SenderUnchanged
<1>2. DeliveryTypes'
  <2>1. nonces' \in [Nonces -> Nat] /\ accepted' \in [Nonces -> 0..1]
    BY <1>1
  <2>2. responses' \in [Keys -> [payload: Payloads \cup {"none"}, expires_at: Nat]]
    BY <1>1 DEF NoResponse
  <2> QED
    BY <1>1, <2>1, <2>2 DEF SenderUnchanged, DeliveryInv, DeliveryTypes
<1>3. NoncesAreKept'
  <2>1. \A r \in network : accepted'[r.nonce] = 0
    BY <1>1, RequestOfEntry
  <2>2. \A e \in Entries : \A i \in 1..maxRetries : accepted'[<<e, i>>] = 0
    BY <1>1, EntriesAssumption
  <2> QED
    BY <1>1, <2>1, <2>2 DEF NoncesAreKept
<1> QED
  BY <1>1, <1>2, <1>3, SenderKept DEF DeliveryInv

(* Time keeps the invariant: a timestamp that is too old stays so.         *)
LEMMA TimeStep ==
    ASSUME DeliveryInv, TimePasses
    PROVE  DeliveryInv'
<1> USE DEF inboxVars, entryVars, relayVars, idle
<1>1. /\ UNCHANGED <<inboxVars, idle>> /\ SenderUnchanged /\ clock' = clock + 1
  BY DEF TimePasses, SenderUnchanged
<1>2. DeliveryTypes'
  BY <1>1 DEF SenderUnchanged, DeliveryInv, DeliveryTypes
<1>3. NoncesAreKept'
  <2>1. \A r \in network : r.timestamp \in Int
    BY DEF DeliveryInv, RequestsAreSigned
  <2>2. \A r \in network : r.timestamp + skew < clock => r.timestamp + skew < clock + 1
    BY <2>1, InboxAssumption DEF DeliveryInv, DeliveryTypes
  <2> QED
    BY <1>1, <2>2 DEF DeliveryInv, NoncesAreKept
<1>5. working' \subseteq network
  BY <1>1 DEF DeliveryInv, RequestsAreSigned
<1> QED
  BY <1>1, <1>2, <1>3, <1>5, SenderKept DEF DeliveryInv

-----------------------------------------------------------------------------
(* The status of an entry changes while no request for it is made. The     *)
(* hypotheses say what the change may be.                                  *)
LEMMA StatusStep ==
    ASSUME DeliveryInv, UNCHANGED <<inboxVars, idle, clock, isFlushing, pending, sending, retry_count>>,
           status' \in [Entries -> Statuses],
           \A e \in Entries : \/ status'[e] = status[e]
                              \/ status[e] # "new" /\ status'[e] = "gone"
                              \/ status[e] = "new" /\ status'[e] = "pending"
    PROVE  DeliveryInv'
<1> USE DEF inboxVars, idle
<1>1. DeliveryTypes'
  BY DEF DeliveryInv, DeliveryTypes
<1>2. OnePass'
  BY DEF DeliveryInv, OnePass
<1>3. \A p \in Passes : \A i \in 1..Len(pending[p]) : pending[p][i] \in Entries
  BY ElementOfSeq DEF DeliveryInv, DeliveryTypes
<1>4. \A p \in Passes : Due(pending[p], status)'
  <2>1. \A p \in Passes : Due(pending[p], status)
    BY DEF DeliveryInv, PassesAreDue
  <2> QED
    BY <1>3, <2>1 DEF Due
<1>5. PassesAreDue'
  <2>1. \A p \in Passes : sending[p] # NoEntry => sending[p] \in Entries
    BY DEF DeliveryInv, DeliveryTypes
  <2> QED
    BY <1>4, <2>1 DEF DeliveryInv, PassesAreDue
<1>6. Counted(status, retry_count)'
  BY OutboxAssumption DEF DeliveryInv, Counted
<1>7. RequestsAreSigned' /\ NoncesAreKept'
  BY DEF DeliveryInv, RequestsAreSigned, NoncesAreKept
<1> QED
  BY <1>1, <1>2, <1>5, <1>6, <1>7 DEF DeliveryInv

(* Every step keeps the invariant: one case for each action.               *)
LEMMA DeliveryStep == DeliveryInv /\ [Next]_vars => DeliveryInv'
<1> SUFFICES ASSUME DeliveryInv, [Next]_vars PROVE DeliveryInv'
  OBVIOUS
<1> USE DEF outboxVars, inboxVars, entryVars, relayVars, idle
<1>1. ASSUME NEW e \in Entries, Enqueue(e) PROVE DeliveryInv'
  BY <1>1, StatusStep DEF Enqueue, enqueue, DeliveryInv, DeliveryTypes, Statuses
<1>2. ASSUME NEW e \in Entries, Remove(e) PROVE DeliveryInv'
  BY <1>2, StatusStep DEF Remove, remove, Stored, DeliveryInv, DeliveryTypes, Statuses
<1>3. ASSUME NEW p \in Passes, Tick(p) PROVE DeliveryInv'
  BY <1>3, TickStep
<1>4. ASSUME NEW p \in Passes, Response(p) PROVE DeliveryInv'
  BY <1>4, ResponseStep
<1>5. ASSUME NEW p \in Passes, TimesOut(p) PROVE DeliveryInv'
  BY <1>5, FailsStep DEF TimesOut
<1>6. ASSUME StartRelay \/ StopRelay PROVE DeliveryInv'
  BY <1>6, StatusStep DEF StartRelay, startRelay, StopRelay, stopRelay, DeliveryInv, DeliveryTypes
<1>7. ASSUME Cleanup PROVE DeliveryInv'
  BY <1>7, StatusStep DEF Cleanup, cleanup, Old, DeliveryInv, DeliveryTypes, Statuses
<1>8. ASSUME AddPeer PROVE DeliveryInv'
  <2>1. /\ UNCHANGED <<outboxVars, idle, nonces, responses, working, answers, accepted>>
        /\ SenderUnchanged
    BY <1>8 DEF AddPeer, addPeer, SenderUnchanged
  <2>2. DeliveryTypes' /\ NoncesAreKept'
    BY <2>1 DEF DeliveryInv, DeliveryTypes, NoncesAreKept
  <2>3. working' \subseteq network
    BY <2>1 DEF DeliveryInv, RequestsAreSigned
  <2> QED
    BY <2>1, <2>2, <2>3, SenderKept DEF DeliveryInv
<1>9. ASSUME NEW r \in network, Arrives(r) PROVE DeliveryInv'
  BY <1>9, RefuseStep, AcceptStep DEF Arrives
<1>10. ASSUME NEW r \in working, WorkEnds(r) PROVE DeliveryInv'
  BY <1>10, WorkStep DEF WorkEnds
<1>11. ASSUME Expire PROVE DeliveryInv'
  BY <1>11, ExpireStep DEF Expire
<1>12. ASSUME RestartReceiver PROVE DeliveryInv'
  BY <1>12, RestartStep DEF RestartReceiver
<1>13. ASSUME TimePasses PROVE DeliveryInv'
  BY <1>13, TimeStep
<1>14. ASSUME UNCHANGED vars PROVE DeliveryInv'
  BY <1>14, StatusStep DEF vars, DeliveryInv, DeliveryTypes
<1> QED
  BY <1>1, <1>2, <1>3, <1>4, <1>5, <1>6, <1>7, <1>8, <1>9, <1>10, <1>11, <1>12, <1>13, <1>14
  DEF Next

(* The invariant holds throughout. *)
LEMMA DeliveryInvariant == Spec => []DeliveryInv
  BY DeliveryInit, DeliveryStep, PTL DEF Spec

(* However often the network repeats a request and however the clocks      *)
(* differ, one life of the receiver accepts it once (NonceCache.add() and  *)
(* checkTimestamp() of security.ts).                                       *)
THEOREM RepeatsAreRefused == Spec => []AcceptedOnce
<1>1. DeliveryInv => AcceptedOnce
  <2> SUFFICES ASSUME DeliveryInv, NEW n \in Nonces PROVE accepted[n] <= 1
    BY DEF AcceptedOnce
  <2>1. accepted[n] \in 0..1
    BY DEF DeliveryInv, DeliveryTypes
  <2> QED
    BY <2>1
<1> QED
  BY <1>1, DeliveryInvariant, PTL

(* No attempt is lost or counted twice, and an entry is dead after exactly *)
(* maxRetries attempts (markFailed() and the relay of outbox.ts).          *)
THEOREM AttemptsAreCounted == Spec => []AttemptsCounted
<1>1. DeliveryInv => AttemptsCounted
  BY DEF DeliveryInv, DeliveryTypes, Statuses, Counted, AttemptsCounted, Stored
<1> QED
  BY <1>1, DeliveryInvariant, PTL

-----------------------------------------------------------------------------
(* The backoff *)

(* A pending entry is due no sooner than its backoff allows, and the       *)
(* backoff of what a pass has still to send is over: it was when the pass  *)
(* began, and nothing but the pass itself makes an attempt fail.           *)
BackoffInv ==
    /\ next_retry_at \in [Entries -> Nat] /\ failedAt \in [Entries -> Nat]
    /\ \A e \in Entries :
          status[e] = "pending" => Waited(retry_count[e], failedAt[e], next_retry_at[e])
    /\ \A p \in Passes : \A i \in 1..Len(pending[p]) :
          Waited(retry_count[pending[p][i]], failedAt[pending[p][i]], clock)

(* A backoff that is over stays over.                                      *)
LEMMA WaitedStays ==
    ASSUME NEW n \in Nat, NEW f \in Nat, NEW t \in Nat, NEW u \in Nat, t <= u, Waited(n, f, t)
    PROVE  Waited(n, f, u)
<1> SUFFICES ASSUME n > 0 PROVE \E d \in Delays(n) : Smaller(f + d, MaxTime) <= u
  BY DEF Waited
<1>1. PICK d \in Delays(n) : Smaller(f + d, MaxTime) <= t
  BY DEF Waited
<1>2. d \in Nat
  BY OutboxAssumption DEF Delays
<1>3. Smaller(f + d, MaxTime) <= u
  BY <1>1, <1>2, OutboxAssumption DEF Smaller
<1> QED
  BY <1>3

(* What a step changes neither the count nor the failure of is as before.  *)
BackoffAlone(e) == retry_count'[e] = retry_count[e] /\ failedAt'[e] = failedAt[e]

(* A pass takes the first entry of a list of entries that have waited.     *)
LEMMA PassWaited ==
    ASSUME DeliveryInv, BackoffInv, NEW p \in Passes, NEW st, NEW q \in Seq(Entries),
           Proceed(p, q, st), Emit(p), UNCHANGED clock,
           st \in [Entries -> Statuses],
           next_retry_at' \in [Entries -> Nat],
           \A o \in Passes \ {p} : sending[o] = NoEntry,
           \A i \in 1..Len(q) : /\ retry_count'[q[i]] = retry_count[q[i]]
                                /\ Waited(retry_count[q[i]], failedAt[q[i]], clock),
           \A e \in Entries : st[e] = "pending"
                                 => Waited(retry_count'[e], failedAt'[e], next_retry_at'[e])
    PROVE  /\ BackoffInv'
           /\ \A e \in Entries : attempts'[e] > attempts[e]
                                    => Waited(retry_count[e], failedAt[e], clock)
<1>1. /\ failedAt' = [o \in Entries |-> IF retry_count'[o] > retry_count[o] THEN clock ELSE failedAt[o]]
      /\ clock \in Nat /\ failedAt \in [Entries -> Nat] /\ retry_count \in [Entries -> Nat]
      /\ attempts \in [Entries -> Nat]
  BY DEF Emit, DeliveryInv, DeliveryTypes, BackoffInv
<1>2. failedAt' \in [Entries -> Nat]
  BY <1>1
<1>3. \A i \in 1..Len(q) : /\ q[i] \in Entries /\ BackoffAlone(q[i])
                           /\ Waited(retry_count'[q[i]], failedAt'[q[i]], clock)
  <2> SUFFICES ASSUME NEW i \in 1..Len(q)
               PROVE  q[i] \in Entries /\ BackoffAlone(q[i])
    BY DEF BackoffAlone
  <2>1. q[i] \in Entries
    BY ElementOfSeq
  <2>2. retry_count'[q[i]] = retry_count[q[i]] /\ retry_count[q[i]] \in Nat
    BY <1>1, <2>1
  <2> QED
    BY <1>1, <2>1, <2>2 DEF BackoffAlone
<1>4. \A o \in Passes \ {p} : pending[o] = <<>>
  BY DEF DeliveryInv, OnePass
<1>5. pending \in [Passes -> Seq(Entries)] /\ sending \in [Passes -> Entries \cup {NoEntry}]
  BY DEF DeliveryInv, DeliveryTypes
<1>6. Len(<<>>) = 0
  BY EmptySeq
<1>7. CASE q = <<>>
  <2>1. status' = st /\ sending'[p] = NoEntry /\ \A o \in Passes : pending'[o] = <<>>
    BY <1>4, <1>5, <1>7 DEF Proceed
  <2>2. attempts' = attempts
    BY <2>1, EntriesAssumption DEF Emit
  <2>3. \A o \in Passes : 1..Len(pending'[o]) = {}
    BY <1>6, <2>1
  <2>4. BackoffInv'
    BY <1>2, <2>1, <2>3 DEF BackoffInv
  <2> QED
    BY <1>1, <2>2, <2>4
<1>8. CASE q # <<>>
  <2>1. /\ Head(q) \in Entries /\ Tail(q) \in Seq(Entries)
        /\ Len(Tail(q)) = Len(q) - 1
        /\ \A i \in 1..Len(Tail(q)) : Tail(q)[i] = q[i + 1]
    BY <1>8, HeadTailProperties
  <2>2. Len(q) \in Nat \ {0} /\ Head(q) = q[1]
    BY <1>8, EmptySeq
  <2>3. /\ status' = (IF st[Head(q)] = "gone" THEN st ELSE [st EXCEPT ![Head(q)] = "sending"])
        /\ pending' = [pending EXCEPT ![p] = Tail(q)] /\ sending' = [sending EXCEPT ![p] = Head(q)]
    BY <1>8 DEF Proceed
  <2>4. \A e \in Entries : status'[e] = "pending" => st[e] = "pending"
    BY <2>1, <2>3
  <2>5. sending'[p] = Head(q) /\ pending'[p] = Tail(q) /\ \A o \in Passes \ {p} : pending'[o] = <<>>
    BY <1>4, <1>5, <2>3
  <2>6. \A o \in Passes : \A i \in 1..Len(pending'[o]) :
            Waited(retry_count'[pending'[o][i]], failedAt'[pending'[o][i]], clock)
    <3> SUFFICES ASSUME NEW o \in Passes, NEW i \in 1..Len(pending'[o])
                 PROVE  Waited(retry_count'[pending'[o][i]], failedAt'[pending'[o][i]], clock)
      OBVIOUS
    <3>1. o = p
      BY <1>6, <2>5
    <3>2. pending'[o] = Tail(q) /\ i \in 1..Len(Tail(q))
      BY <2>5, <3>1
    <3>3. i + 1 \in 1..Len(q)
      BY <2>1, <2>2, <3>2
    <3>4. pending'[o][i] = q[i + 1]
      BY <2>1, <3>2
    <3> QED
      BY <1>3, <3>3, <3>4
  <2>7. BackoffInv'
    BY <1>2, <2>4, <2>6 DEF BackoffInv
  <2>8. attempts' = [attempts EXCEPT ![Head(q)] = @ + 1]
    BY <2>1, <2>5, EntriesAssumption DEF Emit
  <2>9. Waited(retry_count[Head(q)], failedAt[Head(q)], clock)
    BY <2>2
  <2>10. ASSUME NEW e \in Entries, attempts'[e] > attempts[e]
         PROVE  Waited(retry_count[e], failedAt[e], clock)
    <3>1. e = Head(q)
      BY <1>1, <2>8, <2>10
    <3> QED
      BY <2>9, <3>1
  <2> QED
    BY <2>7, <2>10
<1> QED
  BY <1>7, <1>8

(* A step keeps the backoff, and a send in it has waited.                  *)
BackoffKept ==
    /\ BackoffInv'
    /\ \A e \in Entries : attempts'[e] > attempts[e] => Waited(retry_count[e], failedAt[e], clock)

(* A tick sends what getPending() finds due.                               *)
LEMMA TickWaited ==
    ASSUME DeliveryInv, BackoffInv, NEW p \in Passes, Tick(p)
    PROVE  BackoffKept
<1>1. PICK q \in getPending : q # <<>> /\ Proceed(p, q, status)
  BY DEF Tick, Flush
<1>2. q \in Seq(Entries) /\ Due(q, status)
  BY PendingIsDue
<1>3. UNCHANGED <<retry_count, next_retry_at, clock>> /\ ~isFlushing /\ Emit(p)
  BY DEF Tick, Flush
<1>4. \A o \in Passes \ {p} : sending[o] = NoEntry
  BY <1>3 DEF DeliveryInv, OnePass
<1>5. /\ status \in [Entries -> Statuses] /\ retry_count \in [Entries -> Nat] /\ clock \in Nat
      /\ next_retry_at \in [Entries -> Nat] /\ failedAt \in [Entries -> Nat]
  BY DEF DeliveryInv, DeliveryTypes, BackoffInv
<1>6. failedAt' = failedAt
  <2>1. failedAt' = [o \in Entries |-> IF retry_count'[o] > retry_count[o] THEN clock ELSE failedAt[o]]
    BY <1>3 DEF Emit
  <2> QED
    BY <1>3, <1>5, <2>1
<1>7. \A i \in 1..Len(q) : Waited(retry_count[q[i]], failedAt[q[i]], clock)
  <2> SUFFICES ASSUME NEW i \in 1..Len(q) PROVE Waited(retry_count[q[i]], failedAt[q[i]], clock)
    OBVIOUS
  <2> DEFINE due == {e \in Entries : status[e] = "pending" /\ next_retry_at[e] <= clock}
  <2>1. Cardinality(due) \in Nat
    BY EntriesAssumption, FS_Subset, FS_CardinalityType
  <2>2. q \in [1..Cardinality(due) -> due]
    BY DEF getPending
  <2> HIDE DEF due
  <2>3. Len(q) = Cardinality(due)
    BY <1>2, <2>1, <2>2, LenProperties
  <2>4. q[i] \in due
    BY <2>2, <2>3
  <2>5. q[i] \in Entries /\ status[q[i]] = "pending" /\ next_retry_at[q[i]] <= clock
    BY <2>4 DEF due
  <2>6. Waited(retry_count[q[i]], failedAt[q[i]], next_retry_at[q[i]])
    BY <2>5 DEF BackoffInv
  <2>7. /\ retry_count[q[i]] \in Nat /\ failedAt[q[i]] \in Nat
        /\ next_retry_at[q[i]] \in Nat /\ next_retry_at[q[i]] <= clock
    BY <1>5, <2>5
  <2> QED
    BY <1>5, <2>6, <2>7, WaitedStays
<1>8. \A e \in Entries : status[e] = "pending"
                            => Waited(retry_count'[e], failedAt'[e], next_retry_at'[e])
  BY <1>3, <1>6 DEF BackoffInv
<1> QED
  BY <1>1, <1>2, <1>3, <1>4, <1>5, <1>7, <1>8, PassWaited DEF BackoffKept

(* After a send the pass goes on with entries that have waited; the one    *)
(* whose send failed waits from now on.                                    *)
LEMMA SendWaited ==
    ASSUME DeliveryInv, BackoffInv, NEW p \in Passes, SendSucceeds(p) \/ SendFails(p), Emit(p)
    PROVE  BackoffKept
<1> DEFINE e == sending[p]
           q == pending[p]
<1>1. e # NoEntry /\ UNCHANGED clock
  BY DEF SendSucceeds, SendFails
<1>2. /\ e \in Entries /\ q \in Seq(Entries) /\ status[e] \in {"sending", "gone"}
      /\ \A o \in Passes \ {p} : sending[o] = NoEntry
      /\ status \in [Entries -> Statuses] /\ retry_count \in [Entries -> Nat] /\ clock \in Nat
  BY <1>1, SendInProgress DEF DeliveryInv, DeliveryTypes
<1>3. /\ next_retry_at \in [Entries -> Nat] /\ failedAt \in [Entries -> Nat]
      /\ \A x \in Entries : status[x] = "pending"
                               => Waited(retry_count[x], failedAt[x], next_retry_at[x])
      /\ \A i \in 1..Len(q) : Waited(retry_count[q[i]], failedAt[q[i]], clock)
  BY DEF BackoffInv
<1>4. \A i \in 1..Len(q) : q[i] \in Entries /\ q[i] # e
  BY <1>1, <1>2, ElementOfSeq DEF DeliveryInv, PassesAreDue
<1>5. failedAt' = [o \in Entries |-> IF retry_count'[o] > retry_count[o] THEN clock ELSE failedAt[o]]
  BY DEF Emit
<1> HIDE DEF e, q
<1>6. ASSUME NEW st \in [Entries -> Statuses], Proceed(p, q, st),
             UNCHANGED <<retry_count, next_retry_at>>,
             \A x \in Entries : st[x] = "pending" => status[x] = "pending"
      PROVE  BackoffKept
  <2>1. failedAt' = failedAt
    BY <1>2, <1>3, <1>5, <1>6
  <2>2. \A x \in Entries : st[x] = "pending"
                              => Waited(retry_count'[x], failedAt'[x], next_retry_at'[x])
    BY <1>3, <1>6, <2>1
  <2> QED
    BY <1>1, <1>2, <1>3, <1>6, <2>2, PassWaited DEF BackoffKept
<1>7. CASE SendSucceeds(p)
  <2>1. Proceed(p, q, mark(e, "sent")) /\ UNCHANGED <<retry_count, next_retry_at>>
    BY <1>7 DEF SendSucceeds, e, q
  <2>2. mark(e, "sent") = status \/ mark(e, "sent") = [status EXCEPT ![e] = "sent"]
    BY DEF mark
  <2>3. /\ mark(e, "sent") \in [Entries -> Statuses]
        /\ \A x \in Entries : mark(e, "sent")[x] = "pending" => status[x] = "pending"
    BY <1>2, <2>2 DEF Statuses
  <2> QED
    BY <2>1, <2>3, <1>6
<1>8. CASE ~Stored(e) /\ Proceed(p, q, status) /\ UNCHANGED <<retry_count, next_retry_at>>
  BY <1>2, <1>6, <1>8
<1>9. CASE markFailed(e) /\ Proceed(p, q, mark(e, afterFailure(e)))
  <2> DEFINE st == [status EXCEPT ![e] = afterFailure(e)]
  <2>1. /\ mark(e, afterFailure(e)) = st
        /\ retry_count' = [retry_count EXCEPT ![e] = @ + 1]
    BY <1>2, <1>9 DEF markFailed, mark
  <2>2. /\ retry_count'[e] = retry_count[e] + 1 /\ retry_count'[e] \in Nat
        /\ retry_count'[e] > retry_count[e]
        /\ \A x \in Entries \ {e} : retry_count'[x] = retry_count[x] /\ retry_count[x] \in Nat
    BY <1>2, <2>1
  <2>3. failedAt'[e] = clock /\ \A x \in Entries \ {e} : failedAt'[x] = failedAt[x]
    BY <1>2, <1>5, <2>2
  <2>4. \/ retry_count'[e] >= maxRetries /\ UNCHANGED next_retry_at
        \/ /\ retry_count'[e] < maxRetries
           /\ \E d \in Delays(retry_count'[e]) :
                 next_retry_at' = [next_retry_at EXCEPT ![e] = Smaller(clock + d, MaxTime)]
    BY <1>9 DEF markFailed
  <2>5. afterFailure(e) = (IF retry_count'[e] >= maxRetries THEN "dead" ELSE "pending")
    BY <2>2 DEF afterFailure
  <2>6. st \in [Entries -> Statuses]
    BY <1>2, <2>5 DEF Statuses
  <2>7. /\ next_retry_at' \in [Entries -> Nat]
        /\ st[e] = "pending" => Waited(retry_count'[e], clock, next_retry_at'[e])
        /\ \A x \in Entries \ {e} : next_retry_at'[x] = next_retry_at[x]
    <3>1. CASE retry_count'[e] >= maxRetries /\ UNCHANGED next_retry_at
      <4>1. st[e] # "pending"
        BY <1>2, <2>5, <3>1
      <4> QED
        BY <1>3, <3>1, <4>1
    <3>2. ASSUME NEW d \in Delays(retry_count'[e]),
                 next_retry_at' = [next_retry_at EXCEPT ![e] = Smaller(clock + d, MaxTime)]
          PROVE  /\ next_retry_at' \in [Entries -> Nat]
                 /\ st[e] = "pending" => Waited(retry_count'[e], clock, next_retry_at'[e])
                 /\ \A x \in Entries \ {e} : next_retry_at'[x] = next_retry_at[x]
      <4>1. d \in Nat
        BY OutboxAssumption DEF Delays
      <4>2. Smaller(clock + d, MaxTime) \in Nat
        BY <1>2, <4>1, OutboxAssumption DEF Smaller
      <4>3. next_retry_at'[e] = Smaller(clock + d, MaxTime)
        BY <1>2, <1>3, <3>2
      <4>4. Waited(retry_count'[e], clock, next_retry_at'[e])
        BY <4>2, <4>3 DEF Waited
      <4> QED
        BY <1>2, <1>3, <3>2, <4>2, <4>4
    <3> QED
      BY <2>4, <3>1, <3>2
  <2>8. \A x \in Entries : st[x] = "pending" => Waited(retry_count'[x], failedAt'[x], next_retry_at'[x])
    <3> SUFFICES ASSUME NEW x \in Entries, st[x] = "pending"
                 PROVE  Waited(retry_count'[x], failedAt'[x], next_retry_at'[x])
      OBVIOUS
    <3>1. CASE x = e
      BY <2>3, <2>7, <3>1
    <3>2. CASE x # e
      <4>1. status[x] = "pending"
        BY <1>2, <3>2
      <4> QED
        BY <1>3, <2>2, <2>3, <2>7, <3>2, <4>1
    <3> QED
      BY <3>1, <3>2
  <2>9. \A i \in 1..Len(q) : /\ retry_count'[q[i]] = retry_count[q[i]]
                             /\ Waited(retry_count[q[i]], failedAt[q[i]], clock)
    BY <1>3, <1>4, <2>2
  <2>10. Proceed(p, q, st)
    BY <1>9, <2>1
  <2>11. next_retry_at' \in [Entries -> Nat]
    BY <2>7
  <2> HIDE DEF st
  <2> QED
    BY <1>1, <1>2, <2>6, <2>8, <2>9, <2>10, <2>11, PassWaited DEF BackoffKept
<1> QED
  BY <1>7, <1>8, <1>9 DEF SendFails, e, q

(* Every other step leaves the attempts and their failures alone.          *)
LEMMA OtherWaited ==
    ASSUME DeliveryInv, BackoffInv, UNCHANGED <<attempts, failedAt, retry_count, pending>>,
           clock' \in Nat, clock <= clock',
           next_retry_at' \in [Entries -> Nat],
           \A e \in Entries : status'[e] = "pending"
                                 => \/ status[e] = "pending" /\ next_retry_at'[e] = next_retry_at[e]
                                    \/ retry_count[e] = 0
    PROVE  BackoffKept
<1>1. /\ pending \in [Passes -> Seq(Entries)] /\ retry_count \in [Entries -> Nat]
      /\ clock \in Nat /\ failedAt \in [Entries -> Nat] /\ attempts \in [Entries -> Nat]
  BY DEF DeliveryInv, DeliveryTypes, BackoffInv
<1>2. ASSUME NEW p \in Passes, NEW i \in 1..Len(pending[p])
      PROVE  Waited(retry_count[pending[p][i]], failedAt[pending[p][i]], clock')
  <2>1. pending[p][i] \in Entries
    BY <1>1, ElementOfSeq
  <2>2. Waited(retry_count[pending[p][i]], failedAt[pending[p][i]], clock)
    BY DEF BackoffInv
  <2> QED
    BY <1>1, <2>1, <2>2, WaitedStays
<1>3. ASSUME NEW e \in Entries, status'[e] = "pending"
      PROVE  Waited(retry_count[e], failedAt[e], next_retry_at'[e])
  BY <1>3 DEF BackoffInv, Waited
<1>4. BackoffInv'
  BY <1>1, <1>2, <1>3 DEF BackoffInv
<1> QED
  BY <1>1, <1>4 DEF BackoffKept

(* Every step keeps the backoff: one case for each kind of action.         *)
LEMMA BackoffStep == DeliveryInv /\ BackoffInv /\ [Next]_vars => BackoffKept
<1> SUFFICES ASSUME DeliveryInv, BackoffInv, [Next]_vars PROVE BackoffKept
  OBVIOUS
<1> USE DEF outboxVars, inboxVars, entryVars, relayVars, idle
<1>0. /\ clock \in Nat /\ next_retry_at \in [Entries -> Nat]
      /\ \A e \in Entries : status[e] = "new" => retry_count[e] = 0
  BY DEF DeliveryInv, DeliveryTypes, Counted, BackoffInv
<1>1. ASSUME NEW e \in Entries, Enqueue(e) PROVE BackoffKept
  <2>1. /\ UNCHANGED <<attempts, failedAt, retry_count, pending, clock>>
        /\ status[e] = "new" /\ status' = [status EXCEPT ![e] = "pending"]
        /\ next_retry_at' = [next_retry_at EXCEPT ![e] = clock]
    BY <1>1 DEF Enqueue, enqueue
  <2>2. next_retry_at' \in [Entries -> Nat] /\ clock' \in Nat /\ clock <= clock'
    BY <1>0, <2>1
  <2>3. \A x \in Entries : status'[x] = "pending"
                              => \/ status[x] = "pending" /\ next_retry_at'[x] = next_retry_at[x]
                                 \/ retry_count[x] = 0
    BY <1>0, <2>1 DEF DeliveryInv, DeliveryTypes
  <2> QED
    BY <2>1, <2>2, <2>3, OtherWaited
<1>2. ASSUME UNCHANGED <<attempts, failedAt, retry_count, pending, next_retry_at>>,
             clock' = clock \/ clock' = clock + 1,
             \A x \in Entries : status'[x] = "pending" => status[x] = "pending"
      PROVE  BackoffKept
  BY <1>0, <1>2, OtherWaited
<1>3. ASSUME NEW p \in Passes, Tick(p) PROVE BackoffKept
  BY <1>3, TickWaited
<1>4. ASSUME NEW p \in Passes, Response(p) \/ TimesOut(p) PROVE BackoffKept
  BY <1>4, SendWaited DEF Response, TimesOut
<1>5. ASSUME NEW e \in Entries, Remove(e) PROVE BackoffKept
  BY <1>2, <1>5 DEF Remove, remove, DeliveryInv, DeliveryTypes
<1>6. ASSUME Cleanup PROVE BackoffKept
  BY <1>2, <1>6 DEF Cleanup, cleanup, DeliveryInv, DeliveryTypes
<1>7. ASSUME \/ StartRelay \/ StopRelay \/ AddPeer \/ Expire \/ RestartReceiver
             \/ (\E r \in network : Arrives(r)) \/ (\E r \in working : WorkEnds(r))
             \/ UNCHANGED vars
      PROVE  BackoffKept
  <2>1. UNCHANGED <<attempts, failedAt, retry_count, pending, next_retry_at, clock, status>>
    BY <1>7 DEF StartRelay, startRelay, StopRelay, stopRelay, AddPeer, Expire, RestartReceiver,
                Arrives, WorkEnds, vars
  <2> QED
    BY <1>2, <2>1
<1>8. ASSUME TimePasses PROVE BackoffKept
  BY <1>2, <1>8 DEF TimePasses
<1> QED
  BY <1>1, <1>3, <1>4, <1>5, <1>6, <1>7, <1>8 DEF Next

(* No entry is sent again before the backoff after its last failure is     *)
(* over, for any number of entries, any delays and any pass that took the  *)
(* entry from its list long ago (markFailed(), getPending() and the relay  *)
(* of outbox.ts).                                                          *)
THEOREM RetriesWait == Spec => BackoffIsKept
<1>1. Init => BackoffInv
  <2> SUFFICES ASSUME Init PROVE BackoffInv
    OBVIOUS
  <2>1. \A p \in Passes : 1..Len(pending[p]) = {}
    BY EmptySeq DEF Init, OutboxInit
  <2> QED
    BY <2>1 DEF Init, OutboxInit, BackoffInv
<1>2. BackoffKept => BackoffInv' /\ (\A e \in Entries : attempts'[e] > attempts[e]
                                       => Waited(retry_count[e], failedAt[e], clock))
  BY DEF BackoffKept
<1> QED
  BY <1>1, <1>2, BackoffStep, DeliveryInvariant, PTL DEF Spec, BackoffIsKept


-----------------------------------------------------------------------------
(* The match handshake                                                     *)

(* An offer exists from the moment the requester sends it, and only for a  *)
(* match the requester issued a token for.                                 *)
OffersAreIssued ==
    \A m \in Matches :
        /\ request[m] \in {"idle", "creating", "offering"} => offer[m] = "none"
        /\ request[m] = "offering" \/ offer[m] # "none" => m \in issuedA

(* A token of the provider belongs to an offer that is gone from the hub;  *)
(* answers carry such tokens, and the peer entries hold what was issued.   *)
TokensAreIssued ==
    /\ \A t \in issuedB : offer[t[1]] = "consumed"
    /\ issuedB # {} => peerB # None
    /\ peerB \in issuedA \cup {None}
    /\ peerA \in issuedB \cup {None}
    /\ \A m \in Matches : \A p \in answer[m] : <<m, p>> \in issuedB

(* What a match request and a poll know at the points where they wait.     *)
RequestsKnow ==
    \A m \in Matches :
        /\ request[m] = "consuming" => token[m] \in issuedB
        /\ request[m] = "marking" => peerA \in issuedB

PollsKnow ==
    \A p \in Polls :
        /\ poll[p] \in {"fetched", "consuming", "discarding", "answering", "marking"}
             => current[p] \in Matches /\ offer[current[p]] # "none"
        /\ poll[p] \in {"answering", "marking"}
             => <<current[p], p>> \in issuedB /\ current[p] \in processed

ReadyHasPeers ==
    \A m \in Matches :
        /\ "provider" \in ready[m] => m \in processed /\ peerB # None
        /\ "requester" \in ready[m] => peerA \in issuedB

(* The inductive invariant. *)
HandshakeInv ==
    /\ HandshakeTypeOK
    /\ OffersAreIssued
    /\ TokensAreIssued
    /\ RequestsKnow
    /\ PollsKnow
    /\ ReadyHasPeers
    /\ OfferTakenInOnce

-----------------------------------------------------------------------------
(* The initial states satisfy the invariant.                               *)
LEMMA HandshakeStart == HandshakeInit => HandshakeInv
  BY MatchesAssumption, FailuresAssumption
  DEF HandshakeInit, HandshakeInv, HandshakeTypeOK, Results, Tokens, OffersAreIssued, TokensAreIssued, RequestsKnow,
      PollsKnow, ReadyHasPeers, OfferTakenInOnce

(* Every step keeps the invariant: one case for each action.               *)
LEMMA HandshakeStep == HandshakeInv /\ [HandshakeNext]_handshakeVars => HandshakeInv'
<1> SUFFICES ASSUME HandshakeInv, [HandshakeNext]_handshakeVars PROVE HandshakeInv'
  OBVIOUS
<1> USE MatchesAssumption, FailuresAssumption DEF HandshakeInv, hubVars, requesterVars, providerVars
<1>1. ASSUME NEW m \in Matches,
             Begin(m)
      PROVE  HandshakeInv'
  <2>1. HandshakeTypeOK'
    BY <1>1 DEF Begin, HandshakeTypeOK, Results, Tokens, Outcomes
  <2>2. OffersAreIssued'
    BY <1>1 DEF Begin, HandshakeTypeOK, OffersAreIssued
  <2>3. TokensAreIssued'
    BY <1>1 DEF Begin, HandshakeTypeOK, Tokens, TokensAreIssued
  <2>4. RequestsKnow'
    BY <1>1 DEF Begin, HandshakeTypeOK, RequestsKnow
  <2>5. PollsKnow'
    BY <1>1 DEF Begin, HandshakeTypeOK, PollsKnow
  <2>6. ReadyHasPeers'
    BY <1>1 DEF Begin, HandshakeTypeOK, ReadyHasPeers
  <2>7. OfferTakenInOnce'
    BY <1>1 DEF Begin, OfferTakenInOnce
  <2> QED
    BY <2>1, <2>2, <2>3, <2>4, <2>5, <2>6, <2>7
<1>2. ASSUME NEW m \in Matches, NEW o \in Outcomes,
             createMatch(m, o)
      PROVE  HandshakeInv'
  <2>1. HandshakeTypeOK'
    BY <1>2 DEF createMatch, Ends, HandshakeTypeOK, Results, Tokens, Outcomes
  <2>2. OffersAreIssued'
    BY <1>2 DEF createMatch, Ends, HandshakeTypeOK, OffersAreIssued
  <2>3. TokensAreIssued'
    BY <1>2 DEF createMatch, Ends, HandshakeTypeOK, Tokens, TokensAreIssued
  <2>4. RequestsKnow'
    BY <1>2 DEF createMatch, Ends, HandshakeTypeOK, RequestsKnow
  <2>5. PollsKnow'
    BY <1>2 DEF createMatch, Ends, HandshakeTypeOK, PollsKnow
  <2>6. ReadyHasPeers'
    BY <1>2 DEF createMatch, Ends, HandshakeTypeOK, ReadyHasPeers
  <2>7. OfferTakenInOnce'
    BY <1>2 DEF createMatch, Ends, OfferTakenInOnce
  <2> QED
    BY <2>1, <2>2, <2>3, <2>4, <2>5, <2>6, <2>7
<1>3. ASSUME NEW m \in Matches, NEW o \in Outcomes,
             sendOffer(m, o)
      PROVE  HandshakeInv'
  <2>1. HandshakeTypeOK'
    BY <1>3 DEF sendOffer, Ends, HandshakeTypeOK, Results, Tokens, Outcomes
  <2>2. OffersAreIssued'
    BY <1>3 DEF sendOffer, Ends, HandshakeTypeOK, OffersAreIssued
  <2>3. TokensAreIssued'
    BY <1>3 DEF sendOffer, Ends, HandshakeTypeOK, Tokens, TokensAreIssued, OffersAreIssued
  <2>4. RequestsKnow'
    BY <1>3 DEF sendOffer, Ends, HandshakeTypeOK, RequestsKnow
  <2>5. PollsKnow'
    BY <1>3 DEF sendOffer, Ends, HandshakeTypeOK, PollsKnow, OffersAreIssued
  <2>6. ReadyHasPeers'
    BY <1>3 DEF sendOffer, Ends, HandshakeTypeOK, ReadyHasPeers
  <2>7. OfferTakenInOnce'
    BY <1>3 DEF sendOffer, Ends, OfferTakenInOnce
  <2> QED
    BY <2>1, <2>2, <2>3, <2>4, <2>5, <2>6, <2>7
<1>4. ASSUME NEW m \in Matches, NEW o \in Outcomes,
             waitForHandshakeAnswer(m, o)
      PROVE  HandshakeInv'
  <2>1. HandshakeTypeOK'
    BY <1>4 DEF waitForHandshakeAnswer, Ends, HandshakeTypeOK, Results, Tokens, Outcomes
  <2>2. OffersAreIssued'
    BY <1>4 DEF waitForHandshakeAnswer, Ends, HandshakeTypeOK, OffersAreIssued
  <2>3. TokensAreIssued'
    BY <1>4 DEF waitForHandshakeAnswer, Ends, HandshakeTypeOK, Tokens, TokensAreIssued
  <2>4. RequestsKnow'
    BY <1>4 DEF waitForHandshakeAnswer, Ends, HandshakeTypeOK, RequestsKnow, TokensAreIssued
  <2>5. PollsKnow'
    BY <1>4 DEF waitForHandshakeAnswer, Ends, HandshakeTypeOK, PollsKnow
  <2>6. ReadyHasPeers'
    BY <1>4 DEF waitForHandshakeAnswer, Ends, HandshakeTypeOK, ReadyHasPeers
  <2>7. OfferTakenInOnce'
    BY <1>4 DEF waitForHandshakeAnswer, Ends, OfferTakenInOnce
  <2> QED
    BY <2>1, <2>2, <2>3, <2>4, <2>5, <2>6, <2>7
<1>5. ASSUME NEW m \in Matches,
             Deadline(m)
      PROVE  HandshakeInv'
  <2>1. HandshakeTypeOK'
    BY <1>5 DEF Deadline, HandshakeTypeOK, Results, Tokens, Outcomes
  <2>2. OffersAreIssued'
    BY <1>5 DEF Deadline, HandshakeTypeOK, OffersAreIssued
  <2>3. TokensAreIssued'
    BY <1>5 DEF Deadline, HandshakeTypeOK, Tokens, TokensAreIssued
  <2>4. RequestsKnow'
    BY <1>5 DEF Deadline, HandshakeTypeOK, RequestsKnow
  <2>5. PollsKnow'
    BY <1>5 DEF Deadline, HandshakeTypeOK, PollsKnow
  <2>6. ReadyHasPeers'
    BY <1>5 DEF Deadline, HandshakeTypeOK, ReadyHasPeers
  <2>7. OfferTakenInOnce'
    BY <1>5 DEF Deadline, OfferTakenInOnce
  <2> QED
    BY <2>1, <2>2, <2>3, <2>4, <2>5, <2>6, <2>7
<1>6. ASSUME NEW m \in Matches, NEW o \in Outcomes,
             consumeAnswer(m, o)
      PROVE  HandshakeInv'
  <2>1. HandshakeTypeOK'
    BY <1>6 DEF consumeAnswer, Ends, upsertProvider, HandshakeTypeOK, Results, Tokens, Outcomes
  <2>2. OffersAreIssued'
    BY <1>6 DEF consumeAnswer, Ends, upsertProvider, HandshakeTypeOK, OffersAreIssued
  <2>3. TokensAreIssued'
    BY <1>6 DEF consumeAnswer, Ends, upsertProvider, HandshakeTypeOK, Tokens, TokensAreIssued, RequestsKnow
  <2>4. RequestsKnow'
    BY <1>6 DEF consumeAnswer, Ends, upsertProvider, HandshakeTypeOK, RequestsKnow, TokensAreIssued
  <2>5. PollsKnow'
    BY <1>6 DEF consumeAnswer, Ends, upsertProvider, HandshakeTypeOK, PollsKnow
  <2>6. ReadyHasPeers'
    BY <1>6 DEF consumeAnswer, Ends, upsertProvider, HandshakeTypeOK, ReadyHasPeers, RequestsKnow
  <2>7. OfferTakenInOnce'
    BY <1>6 DEF consumeAnswer, Ends, upsertProvider, OfferTakenInOnce
  <2> QED
    BY <2>1, <2>2, <2>3, <2>4, <2>5, <2>6, <2>7
<1>7. ASSUME NEW m \in Matches, NEW o \in Outcomes,
             requesterReady(m, o)
      PROVE  HandshakeInv'
  <2>1. HandshakeTypeOK'
    BY <1>7 DEF requesterReady, Ends, HandshakeTypeOK, Results, Tokens, Outcomes
  <2>2. OffersAreIssued'
    BY <1>7 DEF requesterReady, Ends, HandshakeTypeOK, OffersAreIssued
  <2>3. TokensAreIssued'
    BY <1>7 DEF requesterReady, Ends, HandshakeTypeOK, Tokens, TokensAreIssued
  <2>4. RequestsKnow'
    BY <1>7 DEF requesterReady, Ends, HandshakeTypeOK, RequestsKnow
  <2>5. PollsKnow'
    BY <1>7 DEF requesterReady, Ends, HandshakeTypeOK, PollsKnow
  <2>6. ReadyHasPeers'
    BY <1>7 DEF requesterReady, Ends, HandshakeTypeOK, ReadyHasPeers, RequestsKnow
  <2>7. OfferTakenInOnce'
    BY <1>7 DEF requesterReady, Ends, OfferTakenInOnce
  <2> QED
    BY <2>1, <2>2, <2>3, <2>4, <2>5, <2>6, <2>7
<1>8. ASSUME NEW p \in Polls,
             StartPoll(p)
      PROVE  HandshakeInv'
  <2>1. HandshakeTypeOK'
    BY <1>8 DEF StartPoll, HandshakeTypeOK, Results, Tokens, Outcomes
  <2>2. OffersAreIssued'
    BY <1>8 DEF StartPoll, HandshakeTypeOK, OffersAreIssued
  <2>3. TokensAreIssued'
    BY <1>8 DEF StartPoll, HandshakeTypeOK, Tokens, TokensAreIssued
  <2>4. RequestsKnow'
    BY <1>8 DEF StartPoll, HandshakeTypeOK, RequestsKnow
  <2>5. PollsKnow'
    BY <1>8 DEF StartPoll, HandshakeTypeOK, PollsKnow
  <2>6. ReadyHasPeers'
    BY <1>8 DEF StartPoll, HandshakeTypeOK, ReadyHasPeers
  <2>7. OfferTakenInOnce'
    BY <1>8 DEF StartPoll, OfferTakenInOnce
  <2> QED
    BY <2>1, <2>2, <2>3, <2>4, <2>5, <2>6, <2>7
<1>9. ASSUME NEW p \in Polls, NEW o \in Outcomes,
             getPendingMatches(p, o)
      PROVE  HandshakeInv'
  <2>1. HandshakeTypeOK'
    BY <1>9 DEF getPendingMatches, Ends, HandshakeTypeOK, Results, Tokens, Outcomes
  <2>2. OffersAreIssued'
    BY <1>9 DEF getPendingMatches, Ends, HandshakeTypeOK, OffersAreIssued
  <2>3. TokensAreIssued'
    BY <1>9 DEF getPendingMatches, Ends, HandshakeTypeOK, Tokens, TokensAreIssued
  <2>4. RequestsKnow'
    BY <1>9 DEF getPendingMatches, Ends, HandshakeTypeOK, RequestsKnow
  <2>5. PollsKnow'
    BY <1>9 DEF getPendingMatches, Ends, HandshakeTypeOK, PollsKnow
  <2>6. ReadyHasPeers'
    BY <1>9 DEF getPendingMatches, Ends, HandshakeTypeOK, ReadyHasPeers
  <2>7. OfferTakenInOnce'
    BY <1>9 DEF getPendingMatches, Ends, OfferTakenInOnce
  <2> QED
    BY <2>1, <2>2, <2>3, <2>4, <2>5, <2>6, <2>7
<1>10. ASSUME NEW p \in Polls, NEW m \in Matches, NEW o \in Outcomes,
             getPendingHandshakeMessages(p, m, o)
      PROVE  HandshakeInv'
  <2>1. HandshakeTypeOK'
    BY <1>10 DEF getPendingHandshakeMessages, Ends, NextMatch, HandshakeTypeOK, Results, Tokens, Outcomes
  <2>2. OffersAreIssued'
    BY <1>10 DEF getPendingHandshakeMessages, Ends, NextMatch, HandshakeTypeOK, OffersAreIssued
  <2>3. TokensAreIssued'
    BY <1>10 DEF getPendingHandshakeMessages, Ends, NextMatch, HandshakeTypeOK, Tokens, TokensAreIssued
  <2>4. RequestsKnow'
    BY <1>10 DEF getPendingHandshakeMessages, Ends, NextMatch, HandshakeTypeOK, RequestsKnow
  <2>5. PollsKnow'
    BY <1>10 DEF getPendingHandshakeMessages, Ends, NextMatch, HandshakeTypeOK, PollsKnow
  <2>6. ReadyHasPeers'
    BY <1>10 DEF getPendingHandshakeMessages, Ends, NextMatch, HandshakeTypeOK, ReadyHasPeers
  <2>7. OfferTakenInOnce'
    BY <1>10 DEF getPendingHandshakeMessages, Ends, NextMatch, OfferTakenInOnce
  <2> QED
    BY <2>1, <2>2, <2>3, <2>4, <2>5, <2>6, <2>7
<1>11. ASSUME NEW p \in Polls,
             Inspect(p)
      PROVE  HandshakeInv'
  <2>1. HandshakeTypeOK'
    BY <1>11 DEF Inspect, NextMatch, HandshakeTypeOK, Results, Tokens, Outcomes
  <2>2. OffersAreIssued'
    BY <1>11 DEF Inspect, NextMatch, HandshakeTypeOK, OffersAreIssued
  <2>3. TokensAreIssued'
    BY <1>11 DEF Inspect, NextMatch, HandshakeTypeOK, Tokens, TokensAreIssued
  <2>4. RequestsKnow'
    BY <1>11 DEF Inspect, NextMatch, HandshakeTypeOK, RequestsKnow
  <2>5. PollsKnow'
    BY <1>11 DEF Inspect, NextMatch, HandshakeTypeOK, PollsKnow
  <2>6. ReadyHasPeers'
    BY <1>11 DEF Inspect, NextMatch, HandshakeTypeOK, ReadyHasPeers
  <2>7. OfferTakenInOnce'
    BY <1>11 DEF Inspect, NextMatch, OfferTakenInOnce
  <2> QED
    BY <2>1, <2>2, <2>3, <2>4, <2>5, <2>6, <2>7
<1>12. ASSUME NEW p \in Polls, NEW o \in Outcomes,
             ConsumeOnly(p, o)
      PROVE  HandshakeInv'
  <2>1. HandshakeTypeOK'
    <3>1. current[p] \in Matches
      BY <1>12 DEF ConsumeOnly, PollsKnow
    <3>2. poll' \in [Polls -> {"idle", "listing", "listed", "fetched", "consuming", "discarding",
                              "answering", "marking"}]
          /\ current' \in [Polls -> Matches \cup {None}]
      BY <1>12 DEF ConsumeOnly, NextMatch, HandshakeTypeOK
    <3>3. offer' \in [Matches -> {"none", "pending", "consumed"}] /\ processed' \subseteq Matches
      BY <1>12, <3>1 DEF ConsumeOnly, HandshakeTypeOK
    <3>4. failures' \in 0..MaxFailures
      BY <1>12 DEF ConsumeOnly, Ends, HandshakeTypeOK
    <3>5. UNCHANGED <<matches, answer, ready, request, token, issuedA, peerA, issuedB, peerB, left>>
      BY <1>12 DEF ConsumeOnly
    <3> QED
      BY <3>2, <3>3, <3>4, <3>5 DEF HandshakeTypeOK
  <2>2. OffersAreIssued'
    BY <1>12 DEF ConsumeOnly, Ends, NextMatch, consumed, HandshakeTypeOK, OffersAreIssued, PollsKnow
  <2>3. TokensAreIssued'
    BY <1>12 DEF ConsumeOnly, Ends, NextMatch, consumed, HandshakeTypeOK, Tokens, TokensAreIssued, PollsKnow
  <2>4. RequestsKnow'
    BY <1>12 DEF ConsumeOnly, Ends, NextMatch, consumed, HandshakeTypeOK, RequestsKnow
  <2>5. PollsKnow'
    BY <1>12 DEF ConsumeOnly, Ends, NextMatch, consumed, HandshakeTypeOK, PollsKnow
  <2>6. ReadyHasPeers'
    BY <1>12 DEF ConsumeOnly, Ends, NextMatch, consumed, HandshakeTypeOK, ReadyHasPeers
  <2>7. OfferTakenInOnce'
    BY <1>12 DEF ConsumeOnly, Ends, NextMatch, consumed, OfferTakenInOnce
  <2> QED
    BY <2>1, <2>2, <2>3, <2>4, <2>5, <2>6, <2>7
<1>13. ASSUME NEW p \in Polls, NEW o \in Outcomes, NEW s \in {"no address", "no key", "answer"},
             TakeOffer(p, o, s)
      PROVE  HandshakeInv'
  <2> DEFINE m == current[p]
  <2>0. /\ m \in Matches /\ offer[m] = "pending" /\ m \in issuedA
        /\ <<m, p>> \in Tokens /\ \A t \in issuedB : t[1] # m
    BY <1>13 DEF TakeOffer, consumed, PollsKnow, OffersAreIssued, TokensAreIssued, Tokens
  <2>1. /\ offer' = [offer EXCEPT ![m] = "consumed"] /\ processed' = processed \cup {m} /\ peerB' = m
        /\ issuedB' = issuedB \/ issuedB' = issuedB \cup {<<m, p>>}
        /\ \/ /\ poll' = [poll EXCEPT ![p] = "answering"] /\ current' = current
              /\ issuedB' = issuedB \cup {<<m, p>>}
           \/ \E i \in {"idle", "listed"} : /\ poll' = [poll EXCEPT ![p] = i]
                                            /\ current' = [current EXCEPT ![p] = None]
        /\ left' = left /\ failures' = failures
        /\ UNCHANGED <<matches, answer, ready, request, token, issuedA, peerA>>
    BY <1>13 DEF TakeOffer, consumed, Ends, NextMatch, upsertRequester
  <2> HIDE DEF m
  <2>t. /\ \A t \in issuedB' : (t \in issuedB /\ t[1] \in Matches /\ t[1] # m) \/ (t = <<m, p>> /\ t[1] = m)
        /\ issuedB \subseteq issuedB'
    <3>1. \A t \in Tokens : t[1] \in Matches
      BY DEF Tokens
    <3> QED
      <4> SUFFICES ASSUME NEW t \in issuedB'
                   PROVE  \/ t \in issuedB /\ t[1] \in Matches /\ t[1] # m
                          \/ t = <<m, p>> /\ t[1] = m
        BY <2>1
      <4>1. CASE t \in issuedB
        BY <2>0, <3>1, <4>1 DEF HandshakeTypeOK
      <4>2. CASE t = <<m, p>>
        BY <4>2
      <4> QED
        BY <2>1, <4>1, <4>2
  <2>2. HandshakeTypeOK'
    BY <2>0, <2>1 DEF HandshakeTypeOK
  <2>3. OffersAreIssued'
    BY <2>0, <2>1 DEF HandshakeTypeOK, OffersAreIssued
  <2>4. TokensAreIssued'
    <3>1. \A t \in issuedB' : offer'[t[1]] = "consumed"
      <4>1. \A x \in Matches : offer'[x] = IF x = m THEN "consumed" ELSE offer[x]
        BY <2>0, <2>1 DEF HandshakeTypeOK
      <4> QED
        BY <2>0, <2>t, <4>1 DEF TokensAreIssued
    <3>2. m # None
      BY <2>0
    <3> QED
      BY <2>0, <2>1, <3>1, <3>2 DEF TokensAreIssued
  <2>5. RequestsKnow'
    BY <2>1 DEF RequestsKnow
  <2>6. PollsKnow'
    BY <2>0, <2>1 DEF HandshakeTypeOK, PollsKnow, m
  <2>7. ReadyHasPeers'
    BY <2>0, <2>1 DEF HandshakeTypeOK, ReadyHasPeers
  <2>8. OfferTakenInOnce'
    BY <2>0, <2>t DEF OfferTakenInOnce
  <2> QED
    BY <2>2, <2>3, <2>4, <2>5, <2>6, <2>7, <2>8
<1>14. ASSUME NEW p \in Polls, NEW o \in Outcomes,
             sendAnswer(p, o)
      PROVE  HandshakeInv'
  <2>1. HandshakeTypeOK'
    <3>1. current[p] \in Matches
      BY <1>14 DEF sendAnswer, PollsKnow
    <3>2. poll' \in [Polls -> {"idle", "listing", "listed", "fetched", "consuming", "discarding",
                              "answering", "marking"}]
          /\ current' \in [Polls -> Matches \cup {None}]
      BY <1>14 DEF sendAnswer, NextMatch, HandshakeTypeOK
    <3>3. answer' \in [Matches -> SUBSET Polls]
      BY <1>14, <3>1 DEF sendAnswer, HandshakeTypeOK
    <3>4. failures' \in 0..MaxFailures
      BY <1>14 DEF sendAnswer, Ends, HandshakeTypeOK
    <3>5. UNCHANGED <<matches, offer, ready, request, token, issuedA, peerA, processed, issuedB, peerB, left>>
      BY <1>14 DEF sendAnswer
    <3> QED
      BY <3>2, <3>3, <3>4, <3>5 DEF HandshakeTypeOK
  <2>2. OffersAreIssued'
    BY <1>14 DEF sendAnswer, Ends, NextMatch, HandshakeTypeOK, OffersAreIssued
  <2>3. TokensAreIssued'
    BY <1>14 DEF sendAnswer, Ends, NextMatch, HandshakeTypeOK, Tokens, TokensAreIssued, PollsKnow
  <2>4. RequestsKnow'
    BY <1>14 DEF sendAnswer, Ends, NextMatch, HandshakeTypeOK, RequestsKnow
  <2>5. PollsKnow'
    BY <1>14 DEF sendAnswer, Ends, NextMatch, HandshakeTypeOK, PollsKnow
  <2>6. ReadyHasPeers'
    BY <1>14 DEF sendAnswer, Ends, NextMatch, HandshakeTypeOK, ReadyHasPeers
  <2>7. OfferTakenInOnce'
    BY <1>14 DEF sendAnswer, Ends, NextMatch, OfferTakenInOnce
  <2> QED
    BY <2>1, <2>2, <2>3, <2>4, <2>5, <2>6, <2>7
<1>15. ASSUME NEW p \in Polls, NEW o \in Outcomes,
             providerReady(p, o)
      PROVE  HandshakeInv'
  <2>1. HandshakeTypeOK'
    <3>1. current[p] \in Matches
      BY <1>15 DEF providerReady, PollsKnow
    <3>2. poll' \in [Polls -> {"idle", "listing", "listed", "fetched", "consuming", "discarding",
                              "answering", "marking"}]
          /\ current' \in [Polls -> Matches \cup {None}]
      BY <1>15 DEF providerReady, NextMatch, HandshakeTypeOK
    <3>3. ready' \in [Matches -> SUBSET {"requester", "provider"}]
      BY <1>15, <3>1 DEF providerReady, HandshakeTypeOK
    <3>4. failures' \in 0..MaxFailures
      BY <1>15 DEF providerReady, Ends, HandshakeTypeOK
    <3>5. UNCHANGED <<matches, offer, answer, request, token, issuedA, peerA, processed, issuedB, peerB, left>>
      BY <1>15 DEF providerReady
    <3> QED
      BY <3>2, <3>3, <3>4, <3>5 DEF HandshakeTypeOK
  <2>2. OffersAreIssued'
    BY <1>15 DEF providerReady, Ends, NextMatch, HandshakeTypeOK, OffersAreIssued
  <2>3. TokensAreIssued'
    BY <1>15 DEF providerReady, Ends, NextMatch, HandshakeTypeOK, Tokens, TokensAreIssued
  <2>4. RequestsKnow'
    BY <1>15 DEF providerReady, Ends, NextMatch, HandshakeTypeOK, RequestsKnow
  <2>5. PollsKnow'
    BY <1>15 DEF providerReady, Ends, NextMatch, HandshakeTypeOK, PollsKnow
  <2>6. ReadyHasPeers'
    BY <1>15 DEF providerReady, Ends, NextMatch, HandshakeTypeOK, ReadyHasPeers, PollsKnow, TokensAreIssued
  <2>7. OfferTakenInOnce'
    BY <1>15 DEF providerReady, Ends, NextMatch, OfferTakenInOnce
  <2> QED
    BY <2>1, <2>2, <2>3, <2>4, <2>5, <2>6, <2>7
<1>16. CASE UNCHANGED handshakeVars
  BY <1>16 DEF handshakeVars, HandshakeTypeOK, OffersAreIssued, TokensAreIssued, RequestsKnow, PollsKnow,
               ReadyHasPeers, OfferTakenInOnce
<1> QED
  BY <1>1, <1>2, <1>3, <1>4, <1>5, <1>6, <1>7, <1>8, <1>9, <1>10, <1>11, <1>12, <1>13, <1>14, <1>15, <1>16
  DEF HandshakeNext, performMatchRequest, processPendingHubMatches

-----------------------------------------------------------------------------
(* The invariant holds throughout.                                         *)
LEMMA HandshakeInvariant == HandshakeSpec => []HandshakeInv
  BY HandshakeStart, HandshakeStep, PTL DEF HandshakeSpec

(* The state of the hub, of the requester and of the provider's polls has  *)
(* its type: a poll that consumes or answers always has a match at hand.   *)
THEOREM HandshakeTypes == HandshakeSpec => []HandshakeTypeOK
<1>1. HandshakeInv => HandshakeTypeOK
  BY DEF HandshakeInv
<1> QED
  BY <1>1, HandshakeInvariant, PTL

(* However many polls overlap and whatever responses get lost, the         *)
(* provider issues one token for an offer at most                          *)
(* (processPendingHubMatches).                                             *)
THEOREM OffersTakenOnce == HandshakeSpec => []OfferTakenInOnce
<1>1. HandshakeInv => OfferTakenInOnce
  BY DEF HandshakeInv
<1> QED
  BY <1>1, HandshakeInvariant, PTL

(* A side the hub calls ready holds a token the other side issued, and     *)
(* when the requester is ready both do (markReady in                       *)
(* performMatchRequest and processPendingHubMatches).                      *)
THEOREM ReadyIsConnected == HandshakeSpec => []ReadyMeansConnected
<1>1. HandshakeInv => ReadyMeansConnected
  BY DEF HandshakeInv, TokensAreIssued, ReadyHasPeers, ReadyMeansConnected
<1> QED
  BY <1>1, HandshakeInvariant, PTL
=============================================================================
