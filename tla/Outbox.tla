------------------------------- MODULE Outbox -------------------------------
(***************************************************************************)
(* The sender of the gateway-to-gateway protocol: the in-memory outbox     *)
(* (src/src/internal/outbox.ts) whose relay sends the entries that are due *)
(* on every tick of an interval, one after the other, and marks each one   *)
(* by how its call of sendFn ended.                                        *)
(***************************************************************************)
EXTENDS Integers, Sequences, FiniteSets

CONSTANTS
    Entries,
    Passes,                 \* numbers of the ticks that may overlap
    NoEntry,
    maxRetries, baseDelayMs, maxDelayMs,
    maxAgeMs,               \* the argument of cleanup()
    MaxTime                 \* bound on the clock

ASSUME OutboxAssumption ==
    /\ maxRetries \in Nat \ {0}
    /\ baseDelayMs \in Nat /\ maxDelayMs \in Nat /\ maxAgeMs \in Nat /\ MaxTime \in Nat

VARIABLES
    status,         \* the status of each entry; "new" before, "gone" after its life
    retry_count, next_retry_at, created_at,
    timer,          \* the relay is started
    isFlushing,
    pending,        \* the entries a pass has still to send, from getPending()
    sending,        \* the entry a pass awaits sendFn for
    clock

entryVars  == <<status, retry_count, next_retry_at, created_at>>
relayVars  == <<timer, isFlushing, pending, sending>>
outboxVars == <<entryVars, relayVars, clock>>

OutboxInit ==
    /\ status = [e \in Entries |-> "new"]
    /\ retry_count = [e \in Entries |-> 0]
    /\ next_retry_at = [e \in Entries |-> 0]
    /\ created_at = [e \in Entries |-> 0]
    /\ timer = FALSE
    /\ isFlushing = FALSE
    /\ pending = [p \in Passes |-> <<>>]
    /\ sending = [p \in Passes |-> NoEntry]
    /\ clock = 0

Stored(e) == status[e] \notin {"new", "gone"}

-----------------------------------------------------------------------------
(* The entries *)

enqueue(e) ==
    /\ status[e] = "new"
    /\ status' = [status EXCEPT ![e] = "pending"]
    /\ next_retry_at' = [next_retry_at EXCEPT ![e] = clock]
    /\ created_at' = [created_at EXCEPT ![e] = clock]
    /\ UNCHANGED <<retry_count, relayVars, clock>>

(* Mutant: an entry is due when it is new, but not for a retry. *)
getPendingOnce ==
    LET due == {e \in Entries : status[e] = "pending" /\ next_retry_at[e] = created_at[e]} IN
    {q \in [1..Cardinality(due) -> due] : \A i, j \in DOMAIN q : i < j => q[i] # q[j]}

(* The orders getPending() may return: what is due, oldest first. *)
getPending ==
    LET due == {e \in Entries : status[e] = "pending" /\ next_retry_at[e] <= clock} IN
    {q \in [1..Cardinality(due) -> due] :
        \A i, j \in DOMAIN q : i < j => q[i] # q[j] /\ created_at[q[i]] <= created_at[q[j]]}

(* The entry is marked, if it is still stored. *)
mark(e, s) == IF e \in Entries /\ Stored(e) THEN [status EXCEPT ![e] = s] ELSE status

Smaller(a, b) == IF a < b THEN a ELSE b

(* The delays of a retry after n failures: exponential, with jitter, capped. *)
Delays(n) ==
    {d \in 0..maxDelayMs : \E jitter \in 0..baseDelayMs :
                              d = Smaller(baseDelayMs * 2^n + jitter, maxDelayMs)}

(* Mutant: the delay counts from the enqueue. *)
markFailedFromEnqueue(e) ==
    /\ Stored(e)
    /\ retry_count' = [retry_count EXCEPT ![e] = @ + 1]
    /\ \/ retry_count'[e] >= maxRetries /\ UNCHANGED next_retry_at
       \/ /\ retry_count'[e] < maxRetries
          /\ \E d \in Delays(retry_count'[e]) :
                next_retry_at' = [next_retry_at EXCEPT ![e] = Smaller(created_at[e] + d, MaxTime)]

(* What markFailed() does to the counters of an entry, which is dead after *)
(* maxRetries failures. The bound on the clock caps the time of the retry. *)
markFailed(e) ==
    /\ Stored(e)
    /\ retry_count' = [retry_count EXCEPT ![e] = @ + 1]
    /\ \/ retry_count'[e] >= maxRetries /\ UNCHANGED next_retry_at
       \/ /\ retry_count'[e] < maxRetries
          /\ \E d \in Delays(retry_count'[e]) :
                next_retry_at' = [next_retry_at EXCEPT ![e] = Smaller(clock + d, MaxTime)]

afterFailure(e) == IF retry_count[e] + 1 >= maxRetries THEN "dead" ELSE "pending"

remove(e) ==
    /\ Stored(e)
    /\ status' = [status EXCEPT ![e] = "gone"]
    /\ UNCHANGED <<retry_count, next_retry_at, created_at, relayVars, clock>>

(* cleanup() drops what was sent and is older than maxAgeMs. *)
Old == {e \in Entries : status[e] = "sent" /\ created_at[e] < clock - maxAgeMs}

cleanup ==
    /\ Old # {}
    /\ status' = [e \in Entries |-> IF e \in Old THEN "gone" ELSE status[e]]
    /\ UNCHANGED <<retry_count, next_retry_at, created_at, relayVars, clock>>

-----------------------------------------------------------------------------
(* The relay *)

startRelay ==
    /\ ~timer
    /\ timer' = TRUE
    /\ UNCHANGED <<entryVars, isFlushing, pending, sending, clock>>

stopRelay ==
    /\ timer
    /\ timer' = FALSE
    /\ UNCHANGED <<entryVars, isFlushing, pending, sending, clock>>

(* The pass takes the next entry of its list and marks it, in the order    *)
(* and with the statuses st left by what came before; or it is over.       *)
Proceed(p, q, st) ==
    IF q = <<>>
    THEN /\ status' = st
         /\ pending' = [pending EXCEPT ![p] = <<>>]
         /\ sending' = [sending EXCEPT ![p] = NoEntry]
         /\ isFlushing' = FALSE
    ELSE /\ status' = IF st[Head(q)] = "gone" THEN st ELSE [st EXCEPT ![Head(q)] = "sending"]
         /\ pending' = [pending EXCEPT ![p] = Tail(q)]
         /\ sending' = [sending EXCEPT ![p] = Head(q)]
         /\ isFlushing' = TRUE

(* Mutant: a tick does not look whether a pass is under way. *)
FlushUnguarded(p) ==
    /\ timer
    /\ sending[p] = NoEntry
    /\ \E q \in getPending : q # <<>> /\ Proceed(p, q, status)
    /\ UNCHANGED <<retry_count, next_retry_at, created_at, timer, clock>>

(* A tick of the interval. Its pass gets the first number that is free.    *)
Flush(p) ==
    /\ timer
    /\ ~isFlushing
    /\ sending[p] = NoEntry /\ \A o \in Passes : o < p => sending[o] # NoEntry
    /\ \E q \in getPending : q # <<>> /\ Proceed(p, q, status)
    /\ UNCHANGED <<retry_count, next_retry_at, created_at, timer, clock>>

(* sendFn resolves with true. *)
SendSucceeds(p) ==
    /\ sending[p] # NoEntry
    /\ Proceed(p, pending[p], mark(sending[p], "sent"))
    /\ UNCHANGED <<retry_count, next_retry_at, created_at, timer, clock>>

(* It resolves with false or throws. *)
SendFails(p) ==
    LET e == sending[p] IN
    /\ e # NoEntry
    /\ \/ /\ markFailed(e)
          /\ Proceed(p, pending[p], mark(e, afterFailure(e)))
       \/ /\ ~Stored(e)
          /\ Proceed(p, pending[p], status)
          /\ UNCHANGED <<retry_count, next_retry_at>>
    /\ UNCHANGED <<created_at, timer, clock>>
=============================================================================
