-------------------------- MODULE ConnectionState --------------------------
(***************************************************************************)
(* The file in which the gateway keeps the connection requests, offers and *)
(* sessions it knows of (src/src/connection-state.ts). Every record() is   *)
(* one synchronous load, change and save; a save writes a temporary file   *)
(* and renames it, so that it replaces the file as a whole or not at all.  *)
(*                                                                         *)
(* A read that fails for any reason counts as an empty state, which the    *)
(* save that follows makes the new content of the file.                    *)
(***************************************************************************)
EXTENDS Integers, FiniteSets, SequencesExt

CONSTANT MaxRecords      \* MAX_RECORDS, 100 in the code

ASSUME MaxRecordsAssumption == MaxRecords \in Nat \ {0}

VARIABLES
    file,         \* the content of the file
    recorded,     \* history: what was recorded since the file was last emptied
    wiped         \* history: the ids a failed read removed from the file

stateVars == <<file, recorded, wiped>>

Kinds == {"requests", "offers", "sessions"}

defaultState == [ids |-> [k \in Kinds |-> << >>],
                 records |-> [k \in Kinds |-> << >>]]

StateInit ==
    /\ file = defaultState
    /\ recorded = [k \in Kinds |-> << >>]
    /\ wiped = [k \in Kinds |-> {}]

Ids(records) == [i \in 1..Len(records) |-> records[i].id]

(* slice(0, MAX_RECORDS) *)
Newest(s) == SubSeq(s, 1, IF Len(s) < MaxRecords THEN Len(s) ELSE MaxRecords)

(* The elements of s at the positions I, in their order. *)
Keep(s, I) ==
    [n \in 1..Cardinality(I) |-> s[CHOOSE i \in I : Cardinality({j \in I : j < i}) = n - 1]]

(* The ids without repetitions, the first occurrence of each. *)
uniqueNewest(ids) ==
    Newest(Keep(ids, {i \in 1..Len(ids) : \A j \in 1..(i - 1) : ids[j] # ids[i]}))

(* Mutant: a record that is there already is moved up as it was, as if     *)
(* the older fields were spread over the newer ones.                       *)
upsertOlder(records, next) ==
    LET same == {r \in Range(records) : r.id = next.id} IN
    Newest(<<IF same = {} THEN next ELSE CHOOSE r \in same : TRUE>>
           \o Keep(records, {i \in 1..Len(records) : records[i].id # next.id}))

upsertNewest(records, next) ==
    Newest(<<next>> \o Keep(records, {i \in 1..Len(records) : records[i].id # next.id}))

normalizeState(raw) ==
    [ids |-> [k \in Kinds |-> uniqueNewest(raw.ids[k])],
     records |-> [k \in Kinds |-> Newest(raw.records[k])]]

(* Mutant: what is saved replaces the file instead of adding to it. *)
loadNothing(readable) == defaultState

load(readable) == IF readable THEN normalizeState(file) ELSE defaultState

(* recordRequest(), recordOffer() and recordSession(): update() with what  *)
(* it loaded, and save() unless writing fails, which the caller ignores.   *)
update(k, next, readable, saved) ==
    LET state == load(readable) IN
    /\ file' = IF saved
               THEN [ids |-> [state.ids EXCEPT
                                ![k] = uniqueNewest(<<next.id>> \o @)],
                     records |-> [state.records EXCEPT
                                ![k] = upsertNewest(@, next)]]
               ELSE file
    /\ recorded' =
          LET before == IF readable THEN recorded ELSE [j \in Kinds |-> << >>]
          IN  IF saved THEN [before EXCEPT ![k] = Append(@, next)] ELSE recorded
    /\ wiped' = IF saved /\ ~readable
                THEN [j \in Kinds |-> wiped[j] \cup Range(Ids(recorded[j]))]
                ELSE wiped
=============================================================================
