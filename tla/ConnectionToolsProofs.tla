----------------------- MODULE ConnectionToolsProofs -----------------------
(***************************************************************************)
(* What the file of connection requests, offers and sessions holds, for    *)
(* any number of concurrent calls, ids and faults, and for any limit on    *)
(* the number of records.                                                  *)
(***************************************************************************)
EXTENDS ConnectionTools, SequenceTheorems, FiniteSetTheorems, WellFoundedInduction, TLAPS

-----------------------------------------------------------------------------
(* Filtering a list *)

(* s without its element at position q. *)
Without(s, q) == [n \in 1..(Len(s) - 1) |-> IF n < q THEN s[n] ELSE s[n + 1]]

LEMMA UpTo ==
    ASSUME NEW n \in Nat
    PROVE  IsFiniteSet(1..n) /\ Cardinality(1..n) = n
<1>1. 1 \in Int /\ n \in Int
  OBVIOUS
<1>2. IsFiniteSet(1..n) /\ Cardinality(1..n) = IF 1 > n THEN 0 ELSE n - 1 + 1
  BY <1>1, FS_Interval
<1> QED
  BY <1>2

(* A filter that takes everything changes nothing.                         *)
LEMMA KeepAll ==
    ASSUME NEW S, NEW s \in Seq(S)
    PROVE  Keep(s, 1..Len(s)) = s
<1> DEFINE len == Len(s)
           I == 1..len
<1>0. len \in Nat /\ s \in [1..len -> S]
  BY LenProperties
<1>1. Cardinality(I) = len
  BY <1>0, UpTo
<1>2. ASSUME NEW i \in I
      PROVE  Cardinality({j \in I : j < i}) = i - 1
  <2>1. {j \in I : j < i} = 1..(i - 1)
    BY <1>0
  <2>2. i - 1 \in Nat
    BY <1>0
  <2>3. Cardinality(1..(i - 1)) = i - 1
    BY <2>2, UpTo
  <2> QED
    BY <2>1, <2>3
<1>3. ASSUME NEW n \in 1..len
      PROVE  (CHOOSE i \in I : Cardinality({j \in I : j < i}) = n - 1) = n
  <2>1. \A i \in I : Cardinality({j \in I : j < i}) = n - 1 <=> i = n
    BY <1>0, <1>2
  <2> QED
    BY <2>1
<1> DEFINE At(n) == CHOOSE i \in I : Cardinality({j \in I : j < i}) = n - 1
<1>4. Keep(s, I) = [n \in 1..Cardinality(I) |-> s[At(n)]]
  BY DEF Keep
<1>5. \A n \in 1..len : At(n) = n
  BY <1>3
<1> HIDE DEF At, I
<1>6. Keep(s, I) = [n \in 1..len |-> s[n]]
  BY <1>1, <1>4, <1>5
<1> QED
  BY <1>0, <1>6 DEF I

(* A filter that takes all but one removes that one.                       *)
LEMMA KeepAllBut ==
    ASSUME NEW S, NEW s \in Seq(S), NEW q \in 1..Len(s)
    PROVE  Keep(s, (1..Len(s)) \ {q}) = Without(s, q)
<1> DEFINE len == Len(s)
           I == (1..len) \ {q}
<1>0. len \in Nat /\ len >= 1 /\ q \in 1..len
  BY LenProperties
<1>1. Cardinality(I) = len - 1
  <2>1. IsFiniteSet(1..len) /\ Cardinality(1..len) = len
    BY <1>0, UpTo
  <2> QED
    BY <1>0, <2>1, FS_RemoveElement
<1>2. ASSUME NEW i \in I
      PROVE  Cardinality({j \in I : j < i}) = IF i < q THEN i - 1 ELSE i - 2
  <2>1. i \in Nat /\ i - 1 \in Nat
    BY <1>0
  <2>2. IsFiniteSet(1..(i - 1)) /\ Cardinality(1..(i - 1)) = i - 1
    BY <2>1, UpTo
  <2>3. CASE i < q
    <3>1. {j \in I : j < i} = 1..(i - 1)
      BY <1>0, <2>1, <2>3
    <3> QED
      BY <2>2, <2>3, <3>1
  <2>4. CASE ~(i < q)
    <3>1. {j \in I : j < i} = (1..(i - 1)) \ {q}
      BY <1>0, <2>1, <2>4
    <3>2. q \in 1..(i - 1)
      BY <1>0, <2>1, <2>4
    <3>3. Cardinality((1..(i - 1)) \ {q}) = Cardinality(1..(i - 1)) - 1
      BY <2>2, <3>2, FS_RemoveElement
    <3> DEFINE c == Cardinality({j \in I : j < i})
    <3>4. c = (i - 1) - 1
      BY <2>2, <3>1, <3>3
    <3> HIDE DEF c
    <3>5. c = i - 2
      BY <2>1, <3>4
    <3> QED
      BY <2>4, <3>5 DEF c
  <2> QED
    BY <2>3, <2>4
<1>3. ASSUME NEW n \in 1..(len - 1)
      PROVE  (CHOOSE i \in I : Cardinality({j \in I : j < i}) = n - 1) = IF n < q THEN n ELSE n + 1
  <2> DEFINE m == IF n < q THEN n ELSE n + 1
  <2>1. m \in I
    BY <1>0
  <2>2. \A i \in I : Cardinality({j \in I : j < i}) = n - 1 <=> i = m
    <3> SUFFICES ASSUME NEW i \in I
                 PROVE  Cardinality({j \in I : j < i}) = n - 1 <=> i = m
      OBVIOUS
    <3>1. Cardinality({j \in I : j < i}) = IF i < q THEN i - 1 ELSE i - 2
      BY <1>2
    <3> DEFINE c == Cardinality({j \in I : j < i})
    <3>2. c = (IF i < q THEN i - 1 ELSE i - 2) /\ i \in 1..len /\ i # q
      BY <3>1
    <3> HIDE DEF c
    <3>3. c = n - 1 <=> i = m
      BY <1>0, <3>2
    <3> QED
      BY <3>3 DEF c
  <2> QED
    BY <2>1, <2>2
<1> DEFINE At(n) == CHOOSE i \in I : Cardinality({j \in I : j < i}) = n - 1
<1>4. Keep(s, I) = [n \in 1..Cardinality(I) |-> s[At(n)]]
  BY DEF Keep
<1>5. \A n \in 1..(len - 1) : At(n) = IF n < q THEN n ELSE n + 1
  BY <1>3
<1> HIDE DEF At, I
<1>6. Keep(s, I) = [n \in 1..(len - 1) |-> IF n < q THEN s[n] ELSE s[n + 1]]
  BY <1>1, <1>4, <1>5
<1> QED
  BY <1>6 DEF Without, I

(* The elements of a list that is cut off at its limit.                    *)
LEMMA NewestIs ==
    ASSUME NEW S, NEW s \in Seq(S)
    PROVE  /\ Newest(s) \in Seq(S)
           /\ Len(Newest(s)) = IF Len(s) < MaxRecords THEN Len(s) ELSE MaxRecords
           /\ \A i \in 1..Len(Newest(s)) : i \in 1..Len(s) /\ Newest(s)[i] = s[i]
           /\ Len(s) <= MaxRecords => Newest(s) = s
<1> DEFINE m == IF Len(s) < MaxRecords THEN Len(s) ELSE MaxRecords
<1>1. /\ Len(s) \in Nat /\ MaxRecords \in Nat \ {0}
      /\ m \in Nat /\ m <= Len(s)
  BY LenProperties, MaxRecordsAssumption
<1>2. Newest(s) = SubSeq(s, 1, m)
  BY DEF Newest
<1>3. 1..m \subseteq 1..Len(s)
  BY <1>1
<1>4. SubSeq(s, 1, m) = [i \in 1..m |-> s[i]]
  BY <1>1, <1>3
<1>5. SubSeq(s, 1, m) \in Seq(S) /\ Len(SubSeq(s, 1, m)) = m
  BY <1>1, <1>3, <1>4, ElementOfSeq, IsASeq
<1>6. Len(s) <= MaxRecords => m = Len(s)
  BY <1>1
<1>7. s = [i \in 1..Len(s) |-> s[i]]
  BY LenProperties
<1> HIDE DEF m
<1> QED
  BY <1>2, <1>3, <1>4, <1>5, <1>6, <1>7 DEF m

LEMMA WithoutIs ==
    ASSUME NEW S, NEW s \in Seq(S), NEW q \in 1..Len(s)
    PROVE  /\ Without(s, q) \in Seq(S)
           /\ Len(Without(s, q)) = Len(s) - 1
<1>1. Len(s) \in Nat /\ Len(s) - 1 \in Nat
  BY LenProperties
<1>2. \A n \in 1..(Len(s) - 1) : (IF n < q THEN s[n] ELSE s[n + 1]) \in S
  <2> SUFFICES ASSUME NEW n \in 1..(Len(s) - 1)
               PROVE  (IF n < q THEN s[n] ELSE s[n + 1]) \in S
    OBVIOUS
  <2>1. n \in 1..Len(s) /\ n + 1 \in 1..Len(s)
    BY <1>1
  <2> QED
    BY <2>1, ElementOfSeq
<1> QED
  BY <1>1, <1>2, IsASeq DEF Without

(* The list with x in front. *)
LEMMA FrontIs ==
    ASSUME NEW S, NEW s \in Seq(S), NEW x \in S
    PROVE  /\ <<x>> \o s \in Seq(S)
           /\ Len(<<x>> \o s) = Len(s) + 1
           /\ (<<x>> \o s)[1] = x
           /\ \A i \in 1..Len(s) : i + 1 \in 1..(Len(s) + 1) /\ (<<x>> \o s)[i + 1] = s[i]
<1>1. Len(s) \in Nat /\ <<x>> \in Seq(S) /\ Len(<<x>>) = 1 /\ <<x>>[1] = x
  BY LenProperties
<1>2. /\ <<x>> \o s \in Seq(S)
      /\ Len(<<x>> \o s) = 1 + Len(s)
      /\ \A i \in 1..(1 + Len(s)) : (<<x>> \o s)[i] = IF i <= 1 THEN <<x>>[i] ELSE s[i - 1]
  BY <1>1, ConcatProperties
<1> DEFINE t == <<x>> \o s
<1>3. \A i \in 1..(1 + Len(s)) : t[i] = IF i <= 1 THEN <<x>>[i] ELSE s[i - 1]
  BY <1>2
<1> HIDE DEF t
<1>4. t[1] = x
  BY <1>1, <1>3
<1>5. \A i \in 1..Len(s) : i + 1 \in 1..(Len(s) + 1) /\ t[i + 1] = s[i]
  <2> SUFFICES ASSUME NEW i \in 1..Len(s)
               PROVE  i + 1 \in 1..(Len(s) + 1) /\ t[i + 1] = s[i]
    OBVIOUS
  <2>1. i + 1 \in 1..(1 + Len(s)) /\ ~(i + 1 <= 1) /\ (i + 1) - 1 = i
    BY <1>1
  <2> QED
    BY <1>1, <1>3, <2>1
<1> QED
  BY <1>1, <1>2, <1>4, <1>5 DEF t

-----------------------------------------------------------------------------
(* Recording an id *)

Distinct(s) == \A i, j \in 1..Len(s) : s[i] = s[j] => i = j

(* s without what it has at the position of x in ids.                      *)
Rest(ids, x, s) ==
    IF \E p \in 1..Len(ids) : ids[p] = x
    THEN Without(s, CHOOSE p \in 1..Len(ids) : ids[p] = x) ELSE s

(* A list of distinct ids within the limit is normal.                      *)
LEMMA UniqueSame ==
    ASSUME NEW ids \in Seq(Nat), Distinct(ids), Len(ids) <= MaxRecords
    PROVE  uniqueNewest(ids) = ids
<1>1. {i \in 1..Len(ids) : \A j \in 1..(i - 1) : ids[j] # ids[i]} = 1..Len(ids)
  <2> SUFFICES ASSUME NEW i \in 1..Len(ids), NEW j \in 1..(i - 1), ids[j] = ids[i]
               PROVE  FALSE
    OBVIOUS
  <2>1. j \in 1..Len(ids) /\ j # i
    BY LenProperties
  <2> QED
    BY <2>1 DEF Distinct
<1>2. Keep(ids, 1..Len(ids)) = ids
  BY KeepAll
<1> QED
  BY <1>1, <1>2, NewestIs DEF uniqueNewest

(* An id that is recorded moves to the front of the distinct ids.          *)
LEMMA UniqueMovesUp ==
    ASSUME NEW ids \in Seq(Nat), Distinct(ids), NEW x \in Nat
    PROVE  uniqueNewest(<<x>> \o ids) = Newest(<<x>> \o Rest(ids, x, ids))
<1> DEFINE t == <<x>> \o ids
           len == Len(ids)
           I == {i \in 1..Len(t) : \A j \in 1..(i - 1) : t[j] # t[i]}
<1>1. /\ t \in Seq(Nat) /\ Len(t) = len + 1 /\ len \in Nat
      /\ t[1] = x
      /\ \A i \in 1..len : i + 1 \in 1..(len + 1) /\ t[i + 1] = ids[i]
  BY FrontIs, LenProperties
<1>2. uniqueNewest(t) = Newest(Keep(t, I))
  BY DEF uniqueNewest
<1> HIDE DEF t
<1>3. \A i \in 2..(len + 1) : i - 1 \in 1..len /\ t[i] = ids[i - 1]
  <2> SUFFICES ASSUME NEW i \in 2..(len + 1)
               PROVE  i - 1 \in 1..len /\ t[i] = ids[i - 1]
    OBVIOUS
  <2>1. i - 1 \in 1..len /\ (i - 1) + 1 = i
    BY <1>1
  <2> QED
    BY <1>1, <2>1
<1>4. ASSUME NEW i \in 1..(len + 1)
      PROVE  i \in I <=> (i = 1 \/ ids[i - 1] # x)
  <2>1. CASE i = 1
    BY <1>1, <2>1
  <2>2. CASE i # 1
    <3>1. i \in 2..(len + 1) /\ 1 \in 1..(i - 1) /\ 1..(i - 1) \subseteq 1..len
      BY <1>1, <2>2
    <3>2. t[i] = ids[i - 1] /\ i - 1 \in 1..len
      BY <1>3, <3>1
    <3>3. ASSUME NEW j \in 2..(i - 1)
          PROVE  t[j] # t[i]
      <4>1. j \in 2..(len + 1) /\ j - 1 # i - 1
        BY <1>1
      <4>2. t[j] = ids[j - 1] /\ j - 1 \in 1..len
        BY <1>3, <4>1
      <4> QED
        BY <3>2, <4>1, <4>2 DEF Distinct
    <3>4. \A j \in 1..(i - 1) : j = 1 \/ j \in 2..(i - 1)
      OBVIOUS
    <3> QED
      BY <1>1, <2>2, <3>1, <3>2, <3>3, <3>4
  <2> QED
    BY <2>1, <2>2
<1>5. CASE ~ \E p \in 1..len : ids[p] = x
  <2>1. \A i \in 1..(len + 1) : i \in I
    <3> SUFFICES ASSUME NEW i \in 1..(len + 1), i # 1
                 PROVE  ids[i - 1] # x
      BY <1>4
    <3>1. i - 1 \in 1..len
      BY <1>1
    <3> QED
      BY <1>5, <3>1
  <2>2. I = 1..Len(t)
    BY <1>1, <2>1
  <2>3. Keep(t, I) = t
    BY <1>1, <2>2, KeepAll
  <2> QED
    BY <1>2, <1>5, <2>3 DEF Rest, t
<1>6. CASE \E p \in 1..len : ids[p] = x
  <2> DEFINE q == CHOOSE p \in 1..len : ids[p] = x
             w == Without(ids, q)
  <2>1. q \in 1..len /\ ids[q] = x
    BY <1>6
  <2>2. Rest(ids, x, ids) = w
    BY <1>6 DEF Rest
  <2> HIDE DEF q
  <2>3. q + 1 \in 1..Len(t)
    BY <1>1, <2>1
  <2>4. I = (1..Len(t)) \ {q + 1}
    <3>1. ASSUME NEW i \in 1..(len + 1)
          PROVE  (i = 1 \/ ids[i - 1] # x) <=> i # q + 1
      <4>1. CASE i = 1
        BY <1>1, <2>1, <4>1
      <4>2. CASE i # 1
        <5>1. i - 1 \in 1..len /\ (i - 1 = q <=> i = q + 1)
          BY <1>1, <2>1, <4>2
        <5> QED
          BY <2>1, <4>2, <5>1 DEF Distinct
      <4> QED
        BY <4>1, <4>2
    <3> QED
      BY <1>1, <1>4, <3>1
  <2>5. Keep(t, I) = Without(t, q + 1)
    BY <1>1, <2>3, <2>4, KeepAllBut
  <2>6. w \in Seq(Nat) /\ Len(w) = len - 1
    BY <2>1, WithoutIs
  <2> DEFINE u == <<x>> \o w
             v == Without(t, q + 1)
  <2>7. /\ u \in Seq(Nat) /\ Len(u) = len
        /\ u[1] = x
        /\ \A i \in 1..(len - 1) : u[i + 1] = w[i]
    <3>1. Len(w) + 1 = len
      BY <1>1, <2>6
    <3> QED
      BY <2>6, <3>1, FrontIs
  <2>8. v \in Seq(Nat) /\ Len(v) = len
    <3>1. (len + 1) - 1 = len
      BY <1>1
    <3> QED
      BY <1>1, <2>3, <3>1, WithoutIs
  <2>9. \A i \in 1..len : v[i] = IF i < q + 1 THEN t[i] ELSE t[i + 1]
    BY <1>1 DEF Without
  <2>10. \A i \in 1..(len - 1) : w[i] = IF i < q THEN ids[i] ELSE ids[i + 1]
    BY DEF Without
  <2> HIDE DEF w, u, v
  <2>11. ASSUME NEW i \in 1..len
         PROVE  v[i] = u[i]
    <3>1. CASE i = 1
      BY <1>1, <2>1, <2>7, <2>9, <3>1
    <3>2. CASE i # 1
      <4> DEFINE h == i - 1
      <4>1. h \in 1..(len - 1) /\ h \in 1..len /\ h + 1 \in 1..len /\ i = h + 1 /\ (i < q + 1 <=> h < q)
        BY <1>1, <2>1, <3>2
      <4> HIDE DEF h
      <4>2. u[i] = IF h < q THEN ids[h] ELSE ids[h + 1]
        BY <2>7, <2>10, <4>1
      <4>3. t[i] = ids[h] /\ t[i + 1] = ids[h + 1]
        BY <1>1, <4>1
      <4> QED
        BY <2>9, <4>1, <4>2, <4>3
    <3> QED
      BY <3>1, <3>2
  <2>12. v = u
    BY <2>7, <2>8, <2>11, SeqEqual
  <2> QED
    BY <1>2, <2>2, <2>5, <2>12 DEF t, u, v
<1> QED
  BY <1>5, <1>6 DEF t

(* So does its record. *)
LEMMA UpsertMovesUp ==
    ASSUME NEW S, NEW records \in Seq(S), NEW ids \in Seq(Nat), Distinct(ids), Len(records) = Len(ids),
           \A i \in 1..Len(ids) : records[i].id = ids[i],
           NEW next
    PROVE  upsertNewest(records, next) = Newest(<<next>> \o Rest(ids, next.id, records))
<1> DEFINE len == Len(ids)
           x == next.id
           I == {i \in 1..Len(records) : records[i].id # next.id}
<1>1. upsertNewest(records, next) = Newest(<<next>> \o Keep(records, I))
  BY DEF upsertNewest
<1>2. CASE ~ \E p \in 1..len : ids[p] = x
  <2>1. I = 1..Len(records)
    BY <1>2
  <2>2. Keep(records, I) = records
    BY <2>1, KeepAll
  <2> QED
    BY <1>1, <1>2, <2>2 DEF Rest
<1>3. CASE \E p \in 1..len : ids[p] = x
  <2> DEFINE q == CHOOSE p \in 1..len : ids[p] = x
  <2>1. q \in 1..len /\ ids[q] = x
    BY <1>3
  <2>2. Rest(ids, x, records) = Without(records, q)
    BY <1>3 DEF Rest
  <2> HIDE DEF q
  <2>3. I = (1..Len(records)) \ {q}
    BY <2>1 DEF Distinct
  <2>4. Keep(records, I) = Without(records, q)
    BY <2>1, <2>3, KeepAllBut
  <2> QED
    BY <1>1, <2>2, <2>4
<1> QED
  BY <1>2, <1>3

-----------------------------------------------------------------------------
(* The order of what was recorded *)

(* A set of positions that is not empty has a last one.                    *)
LEMMA LastExists ==
    ASSUME NEW n \in Nat, NEW I, I \subseteq 1..n, I # {}
    PROVE  \E i \in I : \A j \in I : j <= i
<1> DEFINE T == {i..n : i \in I}
<1>1. T \subseteq FiniteSubsetsOf(Nat) /\ T # {}
  <2>1. ASSUME NEW i \in I
        PROVE  IsFiniteSet(i..n) /\ i..n \subseteq Nat
    BY FS_Interval
  <2> QED
    BY <2>1 DEF FiniteSubsetsOf
<1>2. PICK U \in T : \A V \in T : ~(<<V, U>> \in StrictSubsetOrdering(Nat))
  BY <1>1, WFMin, FS_StrictSubsetOrderingWellFounded
<1>3. PICK x \in I : U = x..n
  OBVIOUS
<1>4. ASSUME NEW y \in I, ~(y <= x)
      PROVE  FALSE
  <2>1. y..n \subseteq x..n /\ x \in x..n /\ x \notin y..n /\ x..n \subseteq Nat
    BY <1>4
  <2>2. <<y..n, x..n>> \in StrictSubsetOrdering(Nat)
    BY <2>1 DEF StrictSubsetOrdering
  <2> QED
    BY <1>2, <1>3, <2>2
<1> QED
  BY <1>4

(* Where id was recorded last, and what was recorded after that.           *)
LastOf(R, id) == CHOOSE i \in 1..Len(R) : R[i] = id /\ \A j \in (i + 1)..Len(R) : R[j] # id
After(R, id) == {R[j] : j \in (LastOf(R, id) + 1)..Len(R)}

LEMMA RangeIs ==
    ASSUME NEW S, NEW s \in Seq(S)
    PROVE  Range(s) = {s[i] : i \in 1..Len(s)}
  BY LenProperties DEF Range

LEMMA LastIs ==
    ASSUME NEW R \in Seq(Nat), NEW id \in Range(R)
    PROVE  /\ LastOf(R, id) \in 1..Len(R)
           /\ R[LastOf(R, id)] = id
           /\ \A j \in (LastOf(R, id) + 1)..Len(R) : R[j] # id
<1> DEFINE I == {i \in 1..Len(R) : R[i] = id}
<1>0. Len(R) \in Nat
  BY LenProperties
<1>1. I # {} /\ I \subseteq 1..Len(R)
  BY RangeIs
<1>2. PICK i \in I : \A j \in I : j <= i
  BY <1>0, <1>1, LastExists
<1>3. R[i] = id /\ \A j \in (i + 1)..Len(R) : R[j] # id
  <2> SUFFICES ASSUME NEW j \in (i + 1)..Len(R), R[j] = id
               PROVE  FALSE
    OBVIOUS
  <2>1. i \in 1..Len(R) /\ j \in I /\ ~(j <= i)
    BY <1>0
  <2> QED
    BY <1>2, <2>1
<1> QED
  BY <1>3 DEF LastOf

(* What is recorded after the others is after each of them.                *)
LEMMA AfterGrows ==
    ASSUME NEW R \in Seq(Nat), NEW x \in Nat
    PROVE  /\ Append(R, x) \in Seq(Nat)
           /\ Range(Append(R, x)) = Range(R) \cup {x}
           /\ After(Append(R, x), x) = {} /\ LastOf(Append(R, x), x) = Len(R) + 1
           /\ \A y \in Range(R) : y # x => /\ After(Append(R, x), y) = After(R, y) \cup {x}
                                           /\ LastOf(Append(R, x), y) = LastOf(R, y)
<1> DEFINE Q == Append(R, x)
           n == Len(R)
<1>1. /\ n \in Nat /\ Q \in Seq(Nat) /\ Len(Q) = n + 1
      /\ Q[n + 1] = x /\ \A i \in 1..n : Q[i] = R[i]
  BY AppendProperties, LenProperties
<1> HIDE DEF Q
<1>2. Range(Q) = Range(R) \cup {x}
  <2>1. Range(Q) = {Q[i] : i \in 1..(n + 1)} /\ Range(R) = {R[i] : i \in 1..n}
    BY <1>1, RangeIs
  <2>2. \A i \in 1..(n + 1) : i \in 1..n \/ i = n + 1
    BY <1>1
  <2>3. n + 1 \in 1..(n + 1) /\ 1..n \subseteq 1..(n + 1)
    BY <1>1
  <2> QED
    BY <1>1, <2>1, <2>2, <2>3
<1>3. After(Q, x) = {} /\ LastOf(Q, x) = n + 1
  <2>1. /\ LastOf(Q, x) \in 1..(n + 1)
        /\ \A j \in (LastOf(Q, x) + 1)..(n + 1) : Q[j] # x
    BY <1>1, <1>2, LastIs
  <2> DEFINE l == LastOf(Q, x)
  <2> HIDE DEF l
  <2>2. l \in 1..(n + 1) /\ \A j \in (l + 1)..(n + 1) : Q[j] # x
    BY <2>1 DEF l
  <2>3. n + 1 \notin (l + 1)..(n + 1)
    BY <1>1, <2>2
  <2>4. (l + 1)..(n + 1) = {} /\ l = n + 1
    BY <1>1, <2>2, <2>3
  <2> QED
    BY <1>1, <2>4 DEF After, l
<1>4. ASSUME NEW y \in Range(R), y # x
      PROVE  After(Q, y) = After(R, y) \cup {x} /\ LastOf(Q, y) = LastOf(R, y)
  <2> DEFINE l == LastOf(R, y)
             m == LastOf(Q, y)
  <2>1. /\ l \in 1..n /\ R[l] = y
        /\ \A j \in (l + 1)..n : R[j] # y
    BY LastIs
  <2>2. /\ m \in 1..(n + 1) /\ Q[m] = y
        /\ \A j \in (m + 1)..(n + 1) : Q[j] # y
    BY <1>1, <1>2, LastIs
  <2>3. After(R, y) = {R[j] : j \in (l + 1)..n} /\ After(Q, y) = {Q[j] : j \in (m + 1)..(n + 1)}
    BY <1>1 DEF After
  <2> HIDE DEF l, m
  <2>4. m = l
    <3>1. m \in 1..n
      BY <1>1, <1>4, <2>2
    <3>2. ~(m > l)
      <4> SUFFICES ASSUME m > l
                   PROVE  FALSE
        OBVIOUS
      <4>1. m \in (l + 1)..n
        BY <1>1, <2>1, <3>1
      <4> QED
        BY <1>1, <2>1, <2>2, <3>1, <4>1
    <3>3. ~(m < l)
      <4> SUFFICES ASSUME m < l
                   PROVE  FALSE
        OBVIOUS
      <4>1. l \in (m + 1)..(n + 1)
        BY <1>1, <2>1, <3>1
      <4> QED
        BY <1>1, <2>1, <2>2, <4>1
    <3> QED
      BY <1>1, <2>1, <3>1, <3>2, <3>3
  <2>5. /\ \A j \in (l + 1)..(n + 1) : (j \in (l + 1)..n /\ Q[j] = R[j]) \/ (j = n + 1 /\ Q[j] = x)
        /\ n + 1 \in (l + 1)..(n + 1)
        /\ \A j \in (l + 1)..n : j \in (l + 1)..(n + 1) /\ Q[j] = R[j]
    <3>1. \A j \in (l + 1)..n : j \in 1..n /\ j \in (l + 1)..(n + 1)
      BY <1>1, <2>1
    <3>2. \A j \in (l + 1)..(n + 1) : j \in (l + 1)..n \/ j = n + 1
      BY <1>1, <2>1
    <3>3. n + 1 \in (l + 1)..(n + 1)
      BY <1>1, <2>1
    <3> QED
      BY <1>1, <3>1, <3>2, <3>3
  <2>6. After(Q, y) = After(R, y) \cup {x}
    BY <1>1, <2>3, <2>4, <2>5
  <2> QED
    BY <2>4, <2>6 DEF l, m
<1> QED
  BY <1>1, <1>2, <1>3, <1>4 DEF Q

(* The ids of the file are in the order in which they were recorded last,  *)
(* the newest first, and those that are missing are older than all others. *)
KeptInOrder(ids, R) ==
    /\ ids \in Seq(Nat) /\ R \in Seq(Nat)
    /\ Len(ids) <= MaxRecords
    /\ Distinct(ids)
    /\ \A i \in 1..Len(ids) : /\ ids[i] \in Range(R)
                              /\ After(R, ids[i]) = {ids[j] : j \in 1..(i - 1)}
    /\ \A id \in Range(R) : id \notin Range(ids)
          => Len(ids) = MaxRecords /\ Range(ids) \subseteq After(R, id)

(* The other ids, r, stay in that order when x is recorded.                *)
OthersInOrder(ids, R, x, r) ==
    /\ r \in Seq(Nat)
    /\ Len(r) = IF x \in Range(ids) THEN Len(ids) - 1 ELSE Len(ids)
    /\ \A i \in 1..Len(r) : r[i] # x /\ r[i] \in Range(ids)
    /\ Distinct(r)
    /\ Range(ids) \subseteq Range(r) \cup {x}
    /\ \A i \in 1..Len(r) : After(R, r[i]) \cup {x} = {r[j] : j \in 1..(i - 1)} \cup {x}

LEMMA RestIs ==
    ASSUME NEW ids, NEW R, KeptInOrder(ids, R), NEW x \in Nat
    PROVE  OthersInOrder(ids, R, x, Rest(ids, x, ids))
<1>0. /\ ids \in Seq(Nat) /\ Distinct(ids) /\ Len(ids) \in Nat
      /\ Range(ids) = {ids[i] : i \in 1..Len(ids)}
      /\ \A i \in 1..Len(ids) : After(R, ids[i]) = {ids[j] : j \in 1..(i - 1)}
  BY LenProperties, RangeIs DEF KeptInOrder
<1> DEFINE r == Rest(ids, x, ids)
<1>1. CASE ~ \E p \in 1..Len(ids) : ids[p] = x
  <2>1. r = ids
    BY <1>1 DEF Rest
  <2>2. x \notin Range(ids) /\ \A i \in 1..Len(ids) : ids[i] # x /\ ids[i] \in Range(ids)
    BY <1>0, <1>1
  <2>3. \A i \in 1..Len(ids) : After(R, ids[i]) \cup {x} = {ids[j] : j \in 1..(i - 1)} \cup {x}
    BY <1>0
  <2>4. OthersInOrder(ids, R, x, ids)
    BY <1>0, <2>2, <2>3 DEF OthersInOrder
  <2> QED
    BY <2>1, <2>4
<1>2. CASE \E p \in 1..Len(ids) : ids[p] = x
  <2> DEFINE q == CHOOSE p \in 1..Len(ids) : ids[p] = x
             len == Len(ids)
  <2>1. q \in 1..len /\ ids[q] = x
    BY <1>2
  <2>2. r = Without(ids, q)
    BY <1>2 DEF Rest
  <2> HIDE DEF q, r
  <2>3. r \in Seq(Nat) /\ Len(r) = len - 1
    BY <1>0, <2>1, <2>2, WithoutIs
  <2>4. \A i \in 1..(len - 1) : r[i] = IF i < q THEN ids[i] ELSE ids[i + 1]
    BY <2>2 DEF Without
  <2> DEFINE At(i) == IF i < q THEN i ELSE i + 1
  <2>5. \A i \in 1..(len - 1) : At(i) \in 1..len /\ At(i) # q /\ r[i] = ids[At(i)]
    <3> SUFFICES ASSUME NEW i \in 1..(len - 1)
                 PROVE  At(i) \in 1..len /\ At(i) # q /\ r[i] = ids[At(i)]
      OBVIOUS
    <3>1. At(i) \in 1..len /\ At(i) # q
      BY <1>0, <2>1
    <3>2. r[i] = ids[At(i)]
      BY <2>4
    <3> QED
      BY <3>1, <3>2
  <2>6. \A i, j \in 1..(len - 1) : At(i) = At(j) => i = j
    BY <1>0, <2>1
  <2>7. \A i \in 1..len : i # q => \E j \in 1..(len - 1) : At(j) = i
    <3> SUFFICES ASSUME NEW i \in 1..len, i # q
                 PROVE  \E j \in 1..(len - 1) : At(j) = i
      OBVIOUS
    <3>1. CASE i < q
      <4>1. i \in 1..(len - 1) /\ At(i) = i
        BY <1>0, <2>1, <3>1
      <4> QED
        BY <4>1
    <3>2. CASE ~(i < q)
      <4>1. i - 1 \in 1..(len - 1) /\ At(i - 1) = i
        BY <1>0, <2>1, <3>2
      <4> QED
        BY <4>1
    <3> QED
      BY <3>1, <3>2
  <2>8. \A i \in 1..(len - 1) : r[i] # x /\ r[i] \in Range(ids)
    BY <1>0, <2>1, <2>5 DEF Distinct
  <2>9. Distinct(r)
    <3> SUFFICES ASSUME NEW i \in 1..(len - 1), NEW j \in 1..(len - 1), r[i] = r[j]
                 PROVE  i = j
      BY <2>3 DEF Distinct
    <3>1. ids[At(i)] = ids[At(j)] /\ At(i) \in 1..len /\ At(j) \in 1..len
      BY <2>5
    <3>2. At(i) = At(j)
      BY <1>0, <3>1 DEF Distinct
    <3> QED
      BY <2>6, <3>2
  <2>10. x \in Range(ids) /\ Range(ids) \subseteq Range(r) \cup {x}
    <3>1. Range(r) = {r[i] : i \in 1..(len - 1)}
      BY <2>3, RangeIs
    <3>2. \A i \in 1..len : ids[i] = x \/ ids[i] \in Range(r)
      <4> SUFFICES ASSUME NEW i \in 1..len, i # q
                   PROVE  ids[i] \in Range(r)
        BY <2>1
      <4>1. PICK j \in 1..(len - 1) : At(j) = i
        BY <2>7
      <4>2. r[j] = ids[i]
        BY <2>5, <4>1
      <4> QED
        BY <3>1, <4>2
    <3> QED
      BY <1>0, <2>1, <3>2
  <2>11. ASSUME NEW i \in 1..(len - 1)
         PROVE  After(R, r[i]) \cup {x} = {r[j] : j \in 1..(i - 1)} \cup {x}
    <3>1. After(R, r[i]) = {ids[j] : j \in 1..(At(i) - 1)}
      BY <1>0, <2>5
    <3>2. ASSUME NEW j \in 1..(At(i) - 1)
          PROVE  ids[j] = x \/ ids[j] \in {r[h] : h \in 1..(i - 1)}
      <4>1. CASE j < q
        <5>1. j \in 1..(i - 1) /\ j \in 1..(len - 1) /\ At(j) = j
          BY <1>0, <2>1, <4>1
        <5>2. r[j] = ids[j]
          BY <2>5, <5>1
        <5> QED
          BY <5>1, <5>2
      <4>2. CASE j = q
        BY <2>1, <4>2
      <4>3. CASE j > q
        <5>1. j - 1 \in 1..(i - 1) /\ j - 1 \in 1..(len - 1) /\ At(j - 1) = j
          BY <1>0, <2>1, <4>3
        <5>2. r[j - 1] = ids[j]
          BY <2>5, <5>1
        <5> QED
          BY <5>1, <5>2
      <4> QED
        BY <1>0, <2>1, <4>1, <4>2, <4>3
    <3>3. ASSUME NEW j \in 1..(i - 1)
          PROVE  r[j] \in {ids[h] : h \in 1..(At(i) - 1)}
      <4>0. j \in Nat /\ i \in Nat /\ q \in Nat /\ j >= 1 /\ j < i /\ i <= len - 1 /\ len \in Nat
        BY <1>0, <2>1
      <4>1. j \in 1..(len - 1) /\ At(j) \in 1..(At(i) - 1)
        BY <4>0
      <4> QED
        BY <2>5, <4>1
    <3> QED
      BY <3>1, <3>2, <3>3
  <2>12. OthersInOrder(ids, R, x, r)
    BY <2>3, <2>8, <2>9, <2>10, <2>11 DEF OthersInOrder
  <2> QED
    BY <2>12 DEF r
<1> QED
  BY <1>1, <1>2

(* Recording an id keeps the order.                                        *)
LEMMA RecordKeepsOrder ==
    ASSUME NEW ids, NEW R, KeptInOrder(ids, R), NEW x \in Nat
    PROVE  KeptInOrder(uniqueNewest(<<x>> \o ids), Append(R, x))
<1> DEFINE r == Rest(ids, x, ids)
           t == <<x>> \o r
           m == Newest(t)
           Q == Append(R, x)
<1>0. /\ ids \in Seq(Nat) /\ R \in Seq(Nat) /\ Distinct(ids) /\ Len(ids) \in Nat
      /\ Len(ids) <= MaxRecords /\ MaxRecords \in Nat \ {0}
      /\ \A id \in Range(R) : id \notin Range(ids)
            => Len(ids) = MaxRecords /\ Range(ids) \subseteq After(R, id)
      /\ Range(ids) \subseteq Range(R)
  <2>1. \A i \in 1..Len(ids) : ids[i] \in Range(R)
    BY DEF KeptInOrder
  <2>2. Range(ids) = {ids[i] : i \in 1..Len(ids)}
    BY RangeIs DEF KeptInOrder
  <2> QED
    BY <2>1, <2>2, LenProperties, MaxRecordsAssumption DEF KeptInOrder
<1>1. uniqueNewest(<<x>> \o ids) = m
  BY <1>0, UniqueMovesUp
<1>r. OthersInOrder(ids, R, x, r)
  BY RestIs
<1> HIDE DEF r
<1>2. /\ r \in Seq(Nat)
      /\ Len(r) = IF x \in Range(ids) THEN Len(ids) - 1 ELSE Len(ids)
      /\ \A i \in 1..Len(r) : r[i] # x /\ r[i] \in Range(ids)
      /\ Distinct(r)
      /\ Range(ids) \subseteq Range(r) \cup {x}
      /\ \A i \in 1..Len(r) : After(R, r[i]) \cup {x} = {r[j] : j \in 1..(i - 1)} \cup {x}
  BY <1>r DEF OthersInOrder
<1>3. /\ t \in Seq(Nat) /\ Len(t) = Len(r) + 1 /\ Len(r) \in Nat
      /\ t[1] = x
      /\ \A i \in 1..Len(r) : i + 1 \in 1..(Len(r) + 1) /\ t[i + 1] = r[i]
  BY <1>2, FrontIs, LenProperties
<1> HIDE DEF t
<1>4. /\ m \in Seq(Nat)
      /\ Len(m) = IF Len(t) < MaxRecords THEN Len(t) ELSE MaxRecords
      /\ \A i \in 1..Len(m) : i \in 1..Len(t) /\ m[i] = t[i]
      /\ Len(m) \in Nat
  BY <1>3, NewestIs, LenProperties
<1>5. /\ Q \in Seq(Nat)
      /\ Range(Q) = Range(R) \cup {x}
      /\ After(Q, x) = {}
      /\ \A y \in Range(R) : y # x => After(Q, y) = After(R, y) \cup {x}
  BY <1>0, AfterGrows
<1> HIDE DEF m, Q
<1>6. /\ Len(m) >= 1 /\ Len(m) <= MaxRecords /\ m[1] = x
      /\ \A i \in 1..(Len(m) - 1) : i \in 1..Len(r) /\ i + 1 \in 1..Len(m) /\ m[i + 1] = r[i]
  <2>1. Len(m) >= 1 /\ Len(m) <= MaxRecords /\ 1 \in 1..Len(m) /\ Len(m) <= Len(r) + 1
    BY <1>0, <1>3, <1>4
  <2>2. ASSUME NEW i \in 1..(Len(m) - 1)
        PROVE  i \in 1..Len(r) /\ i + 1 \in 1..Len(m) /\ m[i + 1] = r[i]
    <3>1. i \in 1..Len(r) /\ i + 1 \in 1..Len(m)
      BY <1>3, <1>4, <2>1
    <3> QED
      BY <1>3, <1>4, <3>1
  <2> QED
    BY <1>3, <1>4, <2>1, <2>2
<1>7. \A i \in 1..Len(m) : i = 1 \/ (i - 1 \in 1..(Len(m) - 1) /\ m[i] = r[i - 1])
  <2> SUFFICES ASSUME NEW i \in 1..Len(m), i # 1
               PROVE  i - 1 \in 1..(Len(m) - 1) /\ m[i] = r[i - 1]
    OBVIOUS
  <2>1. i - 1 \in 1..(Len(m) - 1) /\ (i - 1) + 1 = i
    BY <1>4
  <2> QED
    BY <1>6, <2>1
<1>8. Distinct(m)
  <2> SUFFICES ASSUME NEW i \in 1..Len(m), NEW j \in 1..Len(m), m[i] = m[j]
               PROVE  i = j
    BY DEF Distinct
  <2>1. CASE i = 1 /\ j = 1
    BY <2>1
  <2>2. CASE i # 1 /\ j # 1
    <3>1. i - 1 \in 1..Len(r) /\ j - 1 \in 1..Len(r) /\ r[i - 1] = r[j - 1]
      BY <1>6, <1>7, <2>2
    <3>2. i - 1 = j - 1
      BY <1>2, <3>1 DEF Distinct
    <3> QED
      BY <1>4, <3>2
  <2>3. CASE (i = 1 /\ j # 1) \/ (i # 1 /\ j = 1)
    BY <1>2, <1>6, <1>7, <2>3
  <2> QED
    BY <2>1, <2>2, <2>3
<1>9. ASSUME NEW i \in 1..Len(m)
      PROVE  m[i] \in Range(Q) /\ After(Q, m[i]) = {m[j] : j \in 1..(i - 1)}
  <2>1. CASE i = 1
    <3>1. 1..(i - 1) = {}
      BY <2>1
    <3> QED
      BY <1>5, <1>6, <2>1, <3>1
  <2>2. CASE i # 1
    <3> DEFINE h == i - 1
    <3>1. h \in 1..(Len(m) - 1) /\ m[i] = r[h] /\ h \in Nat /\ h >= 1
      BY <1>4, <1>7, <2>2
    <3> HIDE DEF h
    <3>2. h \in 1..Len(r) /\ r[h] # x /\ r[h] \in Range(R)
      BY <1>0, <1>2, <1>6, <3>1
    <3>3. After(Q, m[i]) = {r[j] : j \in 1..(h - 1)} \cup {x}
      BY <1>2, <1>5, <3>1, <3>2
    <3>4. ASSUME NEW j \in 1..(h - 1)
          PROVE  j + 1 \in 1..h /\ m[j + 1] = r[j]
      <4>1. j \in 1..(Len(m) - 1) /\ j + 1 \in 1..h
        BY <1>4, <3>1
      <4> QED
        BY <1>6, <4>1
    <3>5. ASSUME NEW j \in 1..h
          PROVE  m[j] \in {r[k] : k \in 1..(h - 1)} \cup {x}
      <4>1. CASE j = 1
        BY <1>6, <4>1
      <4>2. CASE j # 1
        <5>1. j \in 1..Len(m) /\ j - 1 \in 1..(h - 1)
          BY <1>4, <3>1, <4>2
        <5>2. m[j] = r[j - 1]
          BY <1>7, <4>2, <5>1
        <5> QED
          BY <5>1, <5>2
      <4> QED
        BY <4>1, <4>2
    <3>6. {m[j] : j \in 1..h} = {r[j] : j \in 1..(h - 1)} \cup {x}
      <4>1. 1 \in 1..h
        BY <3>1
      <4>2. {m[j] : j \in 1..h} \subseteq {r[j] : j \in 1..(h - 1)} \cup {x}
        BY <3>5
      <4>3. x \in {m[j] : j \in 1..h}
        BY <1>6, <4>1
      <4>4. {r[j] : j \in 1..(h - 1)} \subseteq {m[j] : j \in 1..h}
        BY <3>4
      <4> QED
        BY <4>2, <4>3, <4>4
    <3> QED
      BY <1>5, <3>1, <3>2, <3>3, <3>6 DEF h
  <2> QED
    BY <2>1, <2>2
<1>10. ASSUME NEW id \in Range(Q), id \notin Range(m)
       PROVE  Len(m) = MaxRecords /\ Range(m) \subseteq After(Q, id)
  <2>0. Range(m) = {m[i] : i \in 1..Len(m)} /\ Range(r) = {r[i] : i \in 1..Len(r)}
    BY <1>2, <1>4, RangeIs
  <2>1. id # x /\ id \in Range(R)
    <3>1. 1 \in 1..Len(m)
      BY <1>4, <1>6
    <3> QED
      BY <1>5, <1>6, <1>10, <2>0, <3>1
  <2>2. After(Q, id) = After(R, id) \cup {x}
    BY <1>5, <2>1
  <2>3. CASE id \notin Range(ids)
    <3>1. Len(ids) = MaxRecords /\ Range(ids) \subseteq After(R, id)
      BY <1>0, <2>1, <2>3
    <3>2. Len(m) = MaxRecords
      BY <1>0, <1>2, <1>3, <1>4, <3>1
    <3>3. \A i \in 1..Len(m) : m[i] = x \/ m[i] \in Range(ids)
      BY <1>2, <1>6, <1>7
    <3> QED
      BY <2>0, <2>2, <3>1, <3>2, <3>3
  <2>4. CASE id \in Range(ids)
    <3>1. PICK p \in 1..Len(r) : r[p] = id
      BY <1>2, <2>0, <2>1, <2>4
    <3>2. ~(p <= Len(m) - 1)
      <4> SUFFICES ASSUME p <= Len(m) - 1
                   PROVE  FALSE
        OBVIOUS
      <4>1. p \in 1..(Len(m) - 1)
        BY <1>3, <1>4
      <4> QED
        BY <1>6, <1>10, <2>0, <3>1, <4>1
    <3>3. Len(m) = MaxRecords /\ p = Len(m)
      <4> DEFINE a == Len(m)
                 b == Len(r)
      <4>1. b <= MaxRecords /\ b \in Nat /\ a \in Nat /\ p \in 1..b
        BY <1>0, <1>2, <1>3, <1>4, <3>1
      <4>2. a = (IF b + 1 < MaxRecords THEN b + 1 ELSE MaxRecords) /\ ~(p <= a - 1)
        BY <1>3, <1>4, <3>2
      <4> HIDE DEF a, b
      <4>3. a = MaxRecords /\ p = a
        BY <1>0, <4>1, <4>2
      <4> QED
        BY <4>3 DEF a
    <3>4. After(Q, id) = {r[j] : j \in 1..(p - 1)} \cup {x}
      BY <1>2, <2>2, <3>1
    <3>5. \A i \in 1..Len(m) : m[i] = x \/ m[i] \in {r[j] : j \in 1..(p - 1)}
      BY <1>6, <1>7, <3>3
    <3> QED
      BY <2>0, <3>3, <3>4, <3>5
  <2> QED
    BY <2>3, <2>4
<1>11. KeptInOrder(m, Q)
  BY <1>4, <1>5, <1>6, <1>8, <1>9, <1>10 DEF KeptInOrder
<1> QED
  BY <1>1, <1>11 DEF Q

-----------------------------------------------------------------------------
(* The file *)

Gateways == {"me", "other"}
Records  == [id: Nat] \cup [id: Nat, request: Nat]
            \cup [id: Nat, offer: Nat, status: {"active", "closed"}, mode: {"a2a", "generic"}]
Replies  == {None} \cup Records

LEMMA RecordIds == \A r \in Records : r.id \in Nat /\ r \in Replies
  BY DEF Records, Replies

(* The record of id that was recorded last. *)
LatestOf(R, id) == R[LastOf(Ids(R), id)]

(* The two lists of a kind agree with each other and with what was         *)
(* recorded.                                                               *)
ListsAgree(ids, records, R) ==
    /\ R \in Seq(Records) /\ KeptInOrder(ids, Ids(R))
    /\ records \in Seq(Records) /\ Len(records) = Len(ids)
    /\ \A i \in 1..Len(ids) : records[i] = LatestOf(R, ids[i])

FileInv ==
    /\ DOMAIN file.ids = Kinds /\ DOMAIN file.records = Kinds
    /\ recorded = [k \in Kinds |-> recorded[k]]
    /\ \A k \in Kinds : ListsAgree(file.ids[k], file.records[k], recorded[k])

LEMMA IdsAre ==
    ASSUME NEW R \in Seq(Records)
    PROVE  /\ Ids(R) \in Seq(Nat) /\ Len(Ids(R)) = Len(R) /\ Len(R) \in Nat
           /\ \A i \in 1..Len(R) : Ids(R)[i] = R[i].id
<1>1. Len(R) \in Nat /\ \A i \in 1..Len(R) : R[i].id \in Nat
  BY LenProperties, ElementOfSeq, RecordIds
<1> QED
  BY <1>1, IsASeq DEF Ids

LEMMA IdsGrow ==
    ASSUME NEW R \in Seq(Records), NEW next \in Records
    PROVE  /\ Append(R, next) \in Seq(Records)
           /\ Ids(Append(R, next)) = Append(Ids(R), next.id)
<1> DEFINE n == Len(R)
           Q == Append(R, next)
           T == Append(Ids(R), next.id)
<1>1. /\ n \in Nat /\ Q \in Seq(Records) /\ Len(Q) = n + 1
      /\ Q[n + 1] = next /\ \A i \in 1..n : Q[i] = R[i]
  BY AppendProperties, LenProperties
<1>2. /\ Ids(R) \in Seq(Nat) /\ Len(Ids(R)) = n /\ next.id \in Nat
      /\ \A i \in 1..n : Ids(R)[i] = R[i].id
  BY IdsAre, RecordIds
<1>3. /\ T \in Seq(Nat) /\ Len(T) = n + 1
      /\ T[n + 1] = next.id /\ \A i \in 1..n : T[i] = Ids(R)[i]
  BY <1>2, AppendProperties
<1>4. /\ Ids(Q) \in Seq(Nat) /\ Len(Ids(Q)) = n + 1
      /\ \A i \in 1..(n + 1) : Ids(Q)[i] = Q[i].id
  BY <1>1, IdsAre
<1> HIDE DEF Q, T
<1>5. \A i \in 1..(n + 1) : i \in 1..n \/ i = n + 1
  BY <1>1
<1>6. \A i \in 1..(n + 1) : Ids(Q)[i] = T[i]
  BY <1>1, <1>2, <1>3, <1>4, <1>5
<1>7. Ids(Q) = T
  BY <1>3, <1>4, <1>6, SeqEqual
<1> QED
  BY <1>1, <1>7 DEF Q, T

(* Beside each id of the file is a record of that id. *)
LEMMA LatestHasId ==
    ASSUME NEW ids, NEW records, NEW R, ListsAgree(ids, records, R)
    PROVE  \A i \in 1..Len(ids) : records[i].id = ids[i]
<1> SUFFICES ASSUME NEW i \in 1..Len(ids)
             PROVE  records[i].id = ids[i]
  OBVIOUS
<1>1. /\ R \in Seq(Records) /\ ids[i] \in Range(Ids(R)) /\ records[i] = R[LastOf(Ids(R), ids[i])]
  BY DEF ListsAgree, KeptInOrder, LatestOf
<1>2. /\ Ids(R) \in Seq(Nat) /\ Len(Ids(R)) = Len(R)
      /\ \A j \in 1..Len(R) : Ids(R)[j] = R[j].id
  BY <1>1, IdsAre
<1>3. LastOf(Ids(R), ids[i]) \in 1..Len(R) /\ Ids(R)[LastOf(Ids(R), ids[i])] = ids[i]
  BY <1>1, <1>2, LastIs
<1> QED
  BY <1>1, <1>2, <1>3

LEMMA EmptyListsAgree ==
    ListsAgree(<< >>, << >>, << >>)
<1> DEFINE e == << >>
<1>1. e \in Seq(Nat) /\ e \in Seq(Records) /\ Len(e) = 0 /\ 1..Len(e) = {}
  BY EmptySeq
<1>2. Range(e) = {}
  BY <1>1, RangeIs
<1>a. Ids(e) = e
  BY DEF Ids
<1> HIDE DEF e
<1>3. KeptInOrder(e, e)
  BY <1>1, <1>2, MaxRecordsAssumption DEF KeptInOrder, Distinct
<1>4. ListsAgree(e, e, e)
  BY <1>1, <1>3, <1>a DEF ListsAgree
<1> QED
  BY <1>4 DEF e

(* The two lists lose the same position. *)
LEMMA RestsAgree ==
    ASSUME NEW ids, NEW records, NEW R, ListsAgree(ids, records, R), NEW x
    PROVE  /\ Rest(ids, x, ids) \in Seq(Nat)
           /\ Rest(ids, x, records) \in Seq(Records)
           /\ Len(Rest(ids, x, records)) = Len(Rest(ids, x, ids))
           /\ \A i \in 1..Len(Rest(ids, x, ids)) :
                 Rest(ids, x, records)[i] = LatestOf(R, Rest(ids, x, ids)[i])
<1>0. /\ ids \in Seq(Nat) /\ Distinct(ids) /\ Len(ids) \in Nat
      /\ records \in Seq(Records) /\ Len(records) = Len(ids)
      /\ \A i \in 1..Len(ids) : records[i] = LatestOf(R, ids[i])
  BY LenProperties DEF ListsAgree, KeptInOrder
<1>1. CASE ~ \E p \in 1..Len(ids) : ids[p] = x
  <2>1. Rest(ids, x, ids) = ids /\ Rest(ids, x, records) = records
    BY <1>1 DEF Rest
  <2> QED
    BY <1>0, <2>1
<1>2. CASE \E p \in 1..Len(ids) : ids[p] = x
  <2> DEFINE q == CHOOSE p \in 1..Len(ids) : ids[p] = x
             u == Without(ids, q)
             v == Without(records, q)
             len == Len(ids)
  <2>1. q \in 1..len
    BY <1>2
  <2>2. Rest(ids, x, ids) = u /\ Rest(ids, x, records) = v
    BY <1>2 DEF Rest
  <2> HIDE DEF q
  <2>3. /\ u \in Seq(Nat) /\ Len(u) = len - 1
        /\ v \in Seq(Records) /\ Len(v) = len - 1
    BY <1>0, <2>1, WithoutIs
  <2>4. /\ \A i \in 1..(len - 1) : u[i] = IF i < q THEN ids[i] ELSE ids[i + 1]
        /\ \A i \in 1..(len - 1) : v[i] = IF i < q THEN records[i] ELSE records[i + 1]
    BY <1>0 DEF Without
  <2> HIDE DEF u, v
  <2>5. ASSUME NEW i \in 1..(len - 1)
        PROVE  v[i] = LatestOf(R, u[i])
    <3>1. i \in 1..len /\ i + 1 \in 1..len
      BY <1>0
    <3>2. CASE i < q
      BY <1>0, <2>4, <3>1, <3>2
    <3>3. CASE ~(i < q)
      BY <1>0, <2>4, <3>1, <3>3
    <3> QED
      BY <3>2, <3>3
  <2> QED
    BY <2>2, <2>3, <2>5
<1> QED
  BY <1>1, <1>2

(* recordRequest(), recordOffer() and recordSession() change them side by  *)
(* side.                                                                   *)
LEMMA RecordKeepsLists ==
    ASSUME NEW ids, NEW records, NEW R, ListsAgree(ids, records, R), NEW next \in Records
    PROVE  ListsAgree(uniqueNewest(<<next.id>> \o ids), upsertNewest(records, next),
                      Append(R, next))
<1> DEFINE x == next.id
           Q == Append(R, next)
           r == Rest(ids, x, ids)
           s == Rest(ids, x, records)
           t == <<x>> \o r
           w == <<next>> \o s
           m == Newest(t)
           n == Newest(w)
<1>0. /\ R \in Seq(Records) /\ KeptInOrder(ids, Ids(R)) /\ x \in Nat
      /\ ids \in Seq(Nat) /\ Distinct(ids) /\ Len(ids) \in Nat
      /\ records \in Seq(Records) /\ Len(records) = Len(ids)
      /\ \A i \in 1..Len(ids) : records[i].id = ids[i]
      /\ \A i \in 1..Len(ids) : ids[i] \in Range(Ids(R))
  BY LenProperties, RecordIds, LatestHasId DEF ListsAgree, KeptInOrder
<1>a. Q \in Seq(Records) /\ Ids(Q) = Append(Ids(R), x)
  BY <1>0, IdsGrow
<1>b. /\ Ids(R) \in Seq(Nat) /\ Len(Ids(R)) = Len(R)
      /\ Q[Len(R) + 1] = next /\ \A i \in 1..Len(R) : Q[i] = R[i]
  BY <1>0, IdsAre, AppendProperties
<1>c. /\ LatestOf(Q, x) = next
      /\ \A y \in Range(Ids(R)) : y # x => LatestOf(Q, y) = LatestOf(R, y)
  <2>1. /\ LastOf(Ids(Q), x) = Len(R) + 1
        /\ \A y \in Range(Ids(R)) : y # x => LastOf(Ids(Q), y) = LastOf(Ids(R), y)
    <3> DEFINE T == Ids(R)
    <3>1. T \in Seq(Nat) /\ Len(T) = Len(R)
      BY <1>b
    <3> HIDE DEF T
    <3>2. /\ LastOf(Append(T, x), x) = Len(T) + 1
          /\ \A y \in Range(T) : y # x => LastOf(Append(T, x), y) = LastOf(T, y)
      BY <1>0, <3>1, AfterGrows
    <3> QED
      BY <1>a, <3>1, <3>2 DEF T
  <2>2. \A y \in Range(Ids(R)) : LastOf(Ids(R), y) \in 1..Len(R)
    BY <1>b, LastIs
  <2> QED
    BY <1>b, <2>1, <2>2 DEF LatestOf
<1> HIDE DEF Q
<1>1. KeptInOrder(uniqueNewest(<<x>> \o ids), Ids(Q))
  BY <1>0, <1>a, RecordKeepsOrder
<1>2. uniqueNewest(<<x>> \o ids) = m
  BY <1>0, UniqueMovesUp
<1>3. upsertNewest(records, next) = n
  BY <1>0, UpsertMovesUp
<1>4. /\ r \in Seq(Nat) /\ s \in Seq(Records) /\ Len(s) = Len(r) /\ Len(r) \in Nat
      /\ \A i \in 1..Len(r) : s[i] = LatestOf(R, r[i])
  BY RestsAgree, LenProperties
<1>d. \A i \in 1..Len(r) : r[i] # x /\ r[i] \in Range(Ids(R))
  <2>1. \A i \in 1..Len(r) : r[i] # x /\ r[i] \in Range(ids)
    BY <1>0, RestIs DEF OthersInOrder
  <2>2. Range(ids) = {ids[i] : i \in 1..Len(ids)}
    BY <1>0, RangeIs
  <2> QED
    BY <1>0, <2>1, <2>2
<1> HIDE DEF r, s
<1>5. /\ t \in Seq(Nat) /\ Len(t) = Len(r) + 1 /\ t[1] = x
      /\ \A i \in 1..Len(r) : t[i + 1] = r[i]
  BY <1>0, <1>4, FrontIs
<1>6. /\ w \in Seq(Records) /\ Len(w) = Len(r) + 1 /\ w[1] = next
      /\ \A i \in 1..Len(r) : w[i + 1] = s[i]
  BY <1>4, FrontIs
<1> HIDE DEF t, w
<1>7. \A i \in 1..(Len(r) + 1) : w[i] = LatestOf(Q, t[i])
  <2> SUFFICES ASSUME NEW i \in 1..(Len(r) + 1)
               PROVE  w[i] = LatestOf(Q, t[i])
    OBVIOUS
  <2>1. CASE i = 1
    BY <1>5, <1>6, <1>c, <2>1
  <2>2. CASE i # 1
    <3> DEFINE h == i - 1
    <3>1. h \in 1..Len(r) /\ i = h + 1
      BY <1>4, <2>2
    <3> HIDE DEF h
    <3> QED
      BY <1>4, <1>5, <1>6, <1>c, <1>d, <3>1
  <2> QED
    BY <2>1, <2>2
<1>8. /\ n \in Seq(Records) /\ Len(n) = Len(m)
      /\ \A i \in 1..Len(m) : i \in 1..(Len(r) + 1) /\ m[i] = t[i] /\ n[i] = w[i]
  BY <1>5, <1>6, NewestIs
<1> HIDE DEF m, n
<1>9. ListsAgree(m, n, Q)
  BY <1>1, <1>2, <1>7, <1>8, <1>a DEF ListsAgree
<1> QED
  BY <1>2, <1>3, <1>9 DEF Q

-----------------------------------------------------------------------------
(* The inductive invariant *)

Tools == {"createRequest", "createOffer", "acceptOffer", "getSession"}

(* The hub's offers are of its requests, and its sessions of its offers.   *)
HubTypes ==
    /\ requests \in Seq(Gateways)
    /\ offers \in Seq([request: Nat, by: Gateways])
    /\ sessions \in Seq([offer: Nat, status: {"active", "closed"}])
    /\ \A i \in 1..Len(offers) : offers[i].request \in 1..Len(requests)
    /\ \A i \in 1..Len(sessions) : sessions[i].offer \in 1..Len(offers)

Calls == [tool: Tools, id: Nat, reply: Replies, at: {"asked", "answered", "ended", "lost"}]

CallTypes ==
    /\ call \in Seq(Calls)
    /\ \A c \in 1..Len(call) : call[c].tool # "createRequest" => call[c].id # 0
    /\ registered \in BOOLEAN /\ faults \in 0..MaxFaults

(* A call that the hub answered holds the response until it is recorded.   *)
Holds(c) == c.at \in {"answered", "lost"}

ResponsesHeld ==
    \A c \in 1..Len(call) : Holds(call[c]) => call[c].reply \in Records

(* The ids recorded or not recorded, and what this gateway made.           *)
KnownIds(k) == Range(Ids(recorded[k])) \cup Unrecorded(k) \cup wiped[k]

MadeRequests == {i \in 3..Len(requests) : requests[i] = "me"}
MadeOffers   == {i \in 3..Len(offers) : offers[i].by = "me"}
MadeSessions ==
    {i \in 2..Len(sessions) : requests[offers[sessions[i].offer].request] = "me"}

MadeIsKnown ==
    /\ MadeRequests \subseteq KnownIds("requests")
    /\ MadeOffers \subseteq KnownIds("offers")
    /\ MadeSessions \subseteq KnownIds("sessions")

ToolsInv ==
    /\ HubTypes
    /\ CallTypes
    /\ ResponsesHeld
    /\ FileInv
    /\ MadeIsKnown

-----------------------------------------------------------------------------
(* What a step of the hub or of a call leaves alone *)

LEMMA Appended ==
    ASSUME NEW S, NEW s \in Seq(S), NEW x \in S
    PROVE  /\ Append(s, x) \in Seq(S)
           /\ Len(s) \in Nat /\ Len(Append(s, x)) = Len(s) + 1
           /\ Append(s, x)[Len(s) + 1] = x
           /\ \A i \in 1..Len(s) : i \in 1..Len(Append(s, x)) /\ Append(s, x)[i] = s[i]
           /\ Len(s) + 1 \in 1..Len(Append(s, x))
           /\ \A i \in 1..Len(Append(s, x)) : i \in 1..Len(s) \/ i = Len(s) + 1
<1> DEFINE n == Len(s)
           t == Append(s, x)
<1>1. /\ t \in Seq(S) /\ n \in Nat /\ Len(t) = n + 1 /\ t[n + 1] = x
      /\ \A i \in 1..n : t[i] = s[i]
  BY AppendProperties, LenProperties
<1> HIDE DEF n, t
<1>2. /\ \A i \in 1..n : i \in 1..(n + 1)
      /\ n + 1 \in 1..(n + 1)
      /\ \A i \in 1..(n + 1) : i \in 1..n \/ i = n + 1
  BY <1>1
<1> QED
  BY <1>1, <1>2 DEF n, t

(* The hub forgets nothing.                                                *)
HubGrows ==
    /\ \A i \in 1..Len(requests) : i \in 1..Len(requests') /\ requests'[i] = requests[i]
    /\ \A i \in 1..Len(offers) : i \in 1..Len(offers') /\ offers'[i] = offers[i]
    /\ \A i \in 1..Len(sessions) :
          i \in 1..Len(sessions') /\ sessions'[i].offer = sessions[i].offer

LEMMA FileStays ==
    ASSUME FileInv, UNCHANGED stateVars
    PROVE  FileInv'
  BY DEF FileInv, stateVars

LEMMA HubSame ==
    ASSUME UNCHANGED hubVars
    PROVE  HubGrows
  BY DEF HubGrows, hubVars

LEMMA KindValues ==
    /\ \A t \in Tools : KindOf[t] \in Kinds
    /\ KindOf["createRequest"] = "requests" /\ KindOf["createOffer"] = "offers"
    /\ KindOf["acceptOffer"] = "sessions" /\ KindOf["getSession"] = "sessions"
  BY DEF KindOf, Kinds, Tools

(* The hub answers call c. *)
LEMMA AnsweredIs ==
    ASSUME CallTypes, NEW c \in 1..Len(call), NEW next \in Replies, Answers(c, next),
           UNCHANGED <<registered, faults>>
    PROVE  /\ CallTypes' /\ Len(call') = Len(call)
           /\ \A d \in 1..Len(call) : d # c => call'[d] = call[d]
           /\ call'[c].at = "answered" /\ call'[c].reply = next /\ call'[c].tool = call[c].tool
<1> DEFINE x == [call[c] EXCEPT !.at = "answered", !.reply = next]
<1>1. call \in Seq(Calls) /\ call[c] \in Calls
  BY ElementOfSeq DEF CallTypes
<1>2. x \in Calls /\ x.at = "answered" /\ x.reply = next /\ x.tool = call[c].tool /\ x.id = call[c].id
  BY <1>1 DEF Calls
<1>3. call' = [call EXCEPT ![c] = x]
  BY DEF Answers
<1> HIDE DEF x
<1>4. /\ call' \in Seq(Calls) /\ Len(call') = Len(call) /\ call'[c] = x
      /\ \A d \in 1..Len(call) : d # c => call'[d] = call[d]
  BY <1>1, <1>2, <1>3, ExceptSeq
<1>5. \A d \in 1..Len(call) : call'[d].tool = call[d].tool /\ call'[d].id = call[d].id
  BY <1>2, <1>4
<1>6. CallTypes'
  BY <1>4, <1>5 DEF CallTypes
<1> QED
  BY <1>2, <1>4, <1>6

(* Call c ends, and keeps or loses its response. *)
LEMMA EndedIs ==
    ASSUME CallTypes, NEW c \in 1..Len(call), NEW at \in {"ended", "lost"}, NEW reply \in Replies,
           call' = [call EXCEPT ![c].at = at, ![c].reply = reply],
           registered' \in BOOLEAN, faults' \in 0..MaxFaults
    PROVE  /\ CallTypes' /\ Len(call') = Len(call)
           /\ \A d \in 1..Len(call) : d # c => call'[d] = call[d]
           /\ call'[c].at = at /\ call'[c].reply = reply /\ call'[c].tool = call[c].tool
<1> DEFINE x == [call[c] EXCEPT !.at = at, !.reply = reply]
<1>1. call \in Seq(Calls) /\ call[c] \in Calls
  BY ElementOfSeq DEF CallTypes
<1>2. x \in Calls /\ x.at = at /\ x.reply = reply /\ x.tool = call[c].tool /\ x.id = call[c].id
  BY <1>1 DEF Calls
<1>3. call' = [call EXCEPT ![c] = x]
  OBVIOUS
<1> HIDE DEF x
<1>4. /\ call' \in Seq(Calls) /\ Len(call') = Len(call) /\ call'[c] = x
      /\ \A d \in 1..Len(call) : d # c => call'[d] = call[d]
  <2> DEFINE new == [call EXCEPT ![c] = x]
  <2>1. /\ new \in Seq(Calls) /\ Len(new) = Len(call)
        /\ \A d \in 1..Len(call) : new[d] = IF d = c THEN x ELSE call[d]
    BY <1>1, <1>2, ExceptSeq
  <2> QED
    BY <1>3, <2>1
<1>5. \A d \in 1..Len(call) : call'[d].tool = call[d].tool /\ call'[d].id = call[d].id
  BY <1>2, <1>4
<1>6. CallTypes'
  BY <1>4, <1>5 DEF CallTypes
<1> QED
  BY <1>2, <1>4, <1>6

LEMMA CallIs ==
    ASSUME CallTypes, NEW c \in 1..Len(call)
    PROVE  /\ call[c] \in Calls
           /\ call[c].tool \in Tools /\ call[c].reply \in Replies
<1>1. call[c] \in Calls
  BY ElementOfSeq DEF CallTypes
<1> QED
  BY <1>1 DEF Calls

(* It ends and keeps its response. *)
LEMMA KeptIs ==
    ASSUME CallTypes, NEW c \in 1..Len(call), NEW at \in {"ended", "lost"},
           call' = [call EXCEPT ![c].at = at],
           registered' \in BOOLEAN, faults' \in 0..MaxFaults
    PROVE  /\ CallTypes' /\ Len(call') = Len(call)
           /\ \A d \in 1..Len(call) : d # c => call'[d] = call[d]
           /\ call'[c].at = at /\ call'[c].reply = call[c].reply /\ call'[c].tool = call[c].tool
<1>1. call[c] \in Calls /\ call[c].reply \in Replies
  BY CallIs
<1>2. [call[c] EXCEPT !.at = at] = [call[c] EXCEPT !.at = at, !.reply = call[c].reply]
  BY <1>1 DEF Calls
<1>3. call' = [call EXCEPT ![c].at = at, ![c].reply = call[c].reply]
  BY <1>2
<1> QED
  BY <1>1, <1>3, EndedIs

(* A response that stays with its call stays known.                        *)
LEMMA KnownStay ==
    ASSUME UNCHANGED stateVars,
           \A d \in 1..Len(call) : Holds(call[d])
               => /\ d \in 1..Len(call') /\ Holds(call'[d])
                  /\ call'[d].tool = call[d].tool /\ call'[d].reply = call[d].reply
    PROVE  \A k \in Kinds : KnownIds(k) \subseteq KnownIds(k)'
<1> SUFFICES ASSUME NEW k \in Kinds, NEW x \in KnownIds(k)
             PROVE  x \in KnownIds(k)'
  OBVIOUS
<1>0. recorded' = recorded /\ wiped' = wiped
  BY DEF stateVars
<1>1. CASE x \in Range(Ids(recorded[k])) \/ x \in wiped[k]
  BY <1>0, <1>1 DEF KnownIds
<1>2. CASE x \in Unrecorded(k)
  <2>1. PICK c \in 1..Len(call) :
           /\ Holds(call[c]) /\ call[c].tool # "getSession" /\ KindOf[call[c].tool] = k
           /\ x = call[c].reply.id
    BY <1>2 DEF Unrecorded, Holds
  <2>2. /\ c \in 1..Len(call') /\ Holds(call'[c])
        /\ call'[c].tool = call[c].tool /\ call'[c].reply = call[c].reply
    BY <2>1
  <2>3. x \in Unrecorded(k)'
    BY <2>1, <2>2 DEF Unrecorded, Holds
  <2> QED
    BY <2>3 DEF KnownIds
<1> QED
  BY <1>1, <1>2 DEF KnownIds

LEMMA ResponsesStay ==
    ASSUME ResponsesHeld,
           \A d \in 1..Len(call') : Holds(call'[d]) =>
               \/ d \in 1..Len(call) /\ Holds(call[d]) /\ call'[d].reply = call[d].reply
               \/ call'[d].reply \in Records
    PROVE  ResponsesHeld'
<1> SUFFICES ASSUME NEW d \in 1..Len(call'), Holds(call'[d])
             PROVE  call'[d].reply \in Records
  BY DEF ResponsesHeld, Holds
<1> QED
  BY DEF ResponsesHeld

(* What was made before a step was made before it already.                 *)
LEMMA MadeBefore ==
    ASSUME HubTypes, HubGrows
    PROVE  /\ \A i \in 1..Len(requests) : i \in MadeRequests' => i \in MadeRequests
           /\ \A i \in 1..Len(offers) : i \in MadeOffers' => i \in MadeOffers
           /\ \A i \in 1..Len(sessions) : i \in MadeSessions' => i \in MadeSessions
<1>0. Len(requests) \in Nat /\ Len(offers) \in Nat /\ Len(sessions) \in Nat
  BY LenProperties DEF HubTypes
<1>1. ASSUME NEW i \in 1..Len(requests), i \in MadeRequests'
      PROVE  i \in MadeRequests
  <2>1. requests'[i] = "me" /\ i >= 3
    BY <1>1 DEF MadeRequests
  <2>2. i \in 3..Len(requests)
    BY <1>0, <2>1
  <2> QED
    BY <2>1, <2>2 DEF MadeRequests, HubGrows
<1>2. ASSUME NEW i \in 1..Len(offers), i \in MadeOffers'
      PROVE  i \in MadeOffers
  <2>1. offers'[i].by = "me" /\ i >= 3
    BY <1>2 DEF MadeOffers
  <2>2. i \in 3..Len(offers)
    BY <1>0, <2>1
  <2> QED
    BY <2>1, <2>2 DEF MadeOffers, HubGrows
<1>3. ASSUME NEW i \in 1..Len(sessions), i \in MadeSessions'
      PROVE  i \in MadeSessions
  <2>1. requests'[offers'[sessions'[i].offer].request] = "me" /\ i >= 2
    BY <1>3 DEF MadeSessions
  <2>2. i \in 2..Len(sessions)
    BY <1>0, <2>1
  <2>3. sessions'[i].offer = sessions[i].offer /\ sessions[i].offer \in 1..Len(offers)
    BY DEF HubGrows, HubTypes
  <2>4. /\ offers'[sessions[i].offer] = offers[sessions[i].offer]
        /\ offers[sessions[i].offer].request \in 1..Len(requests)
    BY <2>3 DEF HubGrows, HubTypes
  <2>5. requests'[offers[sessions[i].offer].request] = requests[offers[sessions[i].offer].request]
    BY <2>4 DEF HubGrows
  <2> QED
    BY <2>1, <2>2, <2>3, <2>4, <2>5 DEF MadeSessions
<1> QED
  BY <1>1, <1>2, <1>3

LEMMA MadeStaysKnown ==
    ASSUME HubTypes, HubGrows, MadeIsKnown,
           \A k \in Kinds : KnownIds(k) \subseteq KnownIds(k)',
           \A i \in MadeRequests' : i \in 1..Len(requests) \/ i \in KnownIds("requests")',
           \A i \in MadeOffers' : i \in 1..Len(offers) \/ i \in KnownIds("offers")',
           \A i \in MadeSessions' : i \in 1..Len(sessions) \/ i \in KnownIds("sessions")'
    PROVE  MadeIsKnown'
<1>1. /\ MadeRequests \subseteq KnownIds("requests")
      /\ MadeOffers \subseteq KnownIds("offers")
      /\ MadeSessions \subseteq KnownIds("sessions")
  BY DEF MadeIsKnown
<1>2. /\ KnownIds("requests") \subseteq KnownIds("requests")'
      /\ KnownIds("offers") \subseteq KnownIds("offers")'
      /\ KnownIds("sessions") \subseteq KnownIds("sessions")'
  BY DEF Kinds
<1>3. /\ \A i \in 1..Len(requests) : i \in MadeRequests' => i \in MadeRequests
      /\ \A i \in 1..Len(offers) : i \in MadeOffers' => i \in MadeOffers
      /\ \A i \in 1..Len(sessions) : i \in MadeSessions' => i \in MadeSessions
  BY MadeBefore
<1>4. /\ MadeRequests' \subseteq KnownIds("requests")'
      /\ MadeOffers' \subseteq KnownIds("offers")'
      /\ MadeSessions' \subseteq KnownIds("sessions")'
  BY <1>1, <1>2, <1>3
<1> QED
  BY <1>4 DEF MadeIsKnown

LEMMA MadeInRange ==
    ASSUME HubTypes
    PROVE  /\ requests' = requests => \A i \in MadeRequests' : i \in 1..Len(requests)
           /\ offers' = offers => \A i \in MadeOffers' : i \in 1..Len(offers)
           /\ Len(sessions') = Len(sessions) => \A i \in MadeSessions' : i \in 1..Len(sessions)
<1>0. Len(requests) \in Nat /\ Len(offers) \in Nat /\ Len(sessions) \in Nat
  BY LenProperties DEF HubTypes
<1> QED
  BY <1>0 DEF MadeRequests, MadeOffers, MadeSessions

-----------------------------------------------------------------------------
(* The steps of the calls *)

(* The hub is not involved. *)
LEMMA QuietHub ==
    ASSUME HubTypes, UNCHANGED hubVars
    PROVE  /\ HubTypes' /\ HubGrows
           /\ \A i \in MadeRequests' : i \in 1..Len(requests)
           /\ \A i \in MadeOffers' : i \in 1..Len(offers)
           /\ \A i \in MadeSessions' : i \in 1..Len(sessions)
<1>1. requests' = requests /\ offers' = offers /\ sessions' = sessions
  BY DEF hubVars
<1>2. HubTypes'
  BY <1>1 DEF HubTypes
<1> QED
  BY <1>1, <1>2, HubSame, MadeInRange

LEMMA InvBegin ==
    ASSUME ToolsInv, Begin
    PROVE  ToolsInv'
<1>0. /\ UNCHANGED <<registered, faults>> /\ UNCHANGED hubVars /\ UNCHANGED stateVars
  BY DEF Begin
<1>1. PICK asked \in Asked :
          call' = Append(call, [tool |-> asked[1], id |-> asked[2], reply |-> None,
                                at |-> IF registered THEN "asked" ELSE "ended"])
  BY DEF Begin
<1> DEFINE x == [tool |-> asked[1], id |-> asked[2], reply |-> None,
                 at |-> IF registered THEN "asked" ELSE "ended"]
<1>2. asked[1] \in Tools /\ asked[2] \in Nat /\ (asked[1] # "createRequest" => asked[2] # 0)
  BY BoundsAssumption DEF Asked, Tools
<1>3. x \in Calls /\ ~Holds(x) /\ x.tool = asked[1] /\ x.id = asked[2]
  BY <1>2 DEF Replies, Calls, Holds
<1>4. call \in Seq(Calls) /\ HubTypes
  BY DEF ToolsInv, CallTypes
<1> HIDE DEF x
<1>5. /\ call' \in Seq(Calls) /\ call'[Len(call) + 1] = x
      /\ \A i \in 1..Len(call) : i \in 1..Len(call') /\ call'[i] = call[i]
      /\ \A i \in 1..Len(call') : i \in 1..Len(call) \/ i = Len(call) + 1
  BY <1>1, <1>3, <1>4, Appended DEF x
<1>6. CallTypes'
  <2>1. \A c \in 1..Len(call') : call'[c].tool # "createRequest" => call'[c].id # 0
    BY <1>2, <1>3, <1>5 DEF ToolsInv, CallTypes
  <2> QED
    BY <1>0, <1>5, <2>1 DEF ToolsInv, CallTypes
<1>7. HubTypes' /\ HubGrows
  BY <1>0, <1>4, QuietHub
<1>8. ResponsesHeld'
  BY <1>3, <1>5, ResponsesStay DEF ToolsInv
<1>9. FileInv'
  BY <1>0, FileStays DEF ToolsInv
<1>10. MadeIsKnown'
  <2>1. \A k \in Kinds : KnownIds(k) \subseteq KnownIds(k)'
    BY <1>0, <1>5, KnownStay
  <2> QED
    BY <1>0, <1>4, <1>7, <2>1, QuietHub, MadeStaysKnown DEF ToolsInv
<1> QED
  BY <1>6, <1>7, <1>8, <1>9, <1>10 DEF ToolsInv

(* An answer to call c about an object that is new or not made here.       *)
LEMMA InvAnswer ==
    ASSUME ToolsInv, NEW c \in 1..Len(call), call[c].at = "asked",
           NEW next \in Records, Answers(c, next),
           UNCHANGED <<registered, faults, stateVars>>, HubGrows, HubTypes',
           \A i \in MadeRequests' : i \in 1..Len(requests)
               \/ (call[c].tool = "createRequest" /\ i = next.id),
           \A i \in MadeOffers' : i \in 1..Len(offers)
               \/ (call[c].tool = "createOffer" /\ i = next.id),
           \A i \in MadeSessions' : i \in 1..Len(sessions)
               \/ (call[c].tool = "acceptOffer" /\ i = next.id)
    PROVE  ToolsInv'
<1>0. /\ UNCHANGED <<registered, faults>> /\ UNCHANGED stateVars
      /\ HubTypes /\ CallTypes /\ next \in Replies
  BY RecordIds DEF ToolsInv
<1>1. /\ CallTypes' /\ Len(call') = Len(call)
      /\ \A d \in 1..Len(call) : d # c => call'[d] = call[d]
      /\ call'[c].at = "answered" /\ call'[c].reply = next /\ call'[c].tool = call[c].tool
  BY <1>0, AnsweredIs
<1>2. ResponsesHeld'
  BY <1>1, ResponsesStay DEF ToolsInv
<1>3. FileInv'
  BY <1>0, FileStays DEF ToolsInv
<1>4. MadeIsKnown'
  <2>1. \A k \in Kinds : KnownIds(k) \subseteq KnownIds(k)'
    BY <1>0, <1>1, KnownStay DEF Holds
  <2>2. ASSUME NEW k \in Kinds, KindOf[call[c].tool] = k, call[c].tool # "getSession"
        PROVE  next.id \in KnownIds(k)'
    <3>1. next.id \in Unrecorded(k)'
      BY <1>1, <2>2 DEF Unrecorded
    <3> QED
      BY <3>1 DEF KnownIds
  <2>3. /\ \A i \in MadeRequests' : i \in 1..Len(requests) \/ i \in KnownIds("requests")'
        /\ \A i \in MadeOffers' : i \in 1..Len(offers) \/ i \in KnownIds("offers")'
        /\ \A i \in MadeSessions' : i \in 1..Len(sessions) \/ i \in KnownIds("sessions")'
    BY <2>2, KindValues DEF Kinds
  <2> QED
    BY <1>0, <2>1, <2>3, MadeStaysKnown DEF ToolsInv
<1> QED
  BY <1>1, <1>2, <1>3, <1>4 DEF ToolsInv

LEMMA AskedId ==
    ASSUME CallTypes, NEW c \in 1..Len(call), call[c].tool # "createRequest"
    PROVE  call[c].id \in Nat /\ call[c].id # 0
<1>1. call[c] \in Calls
  BY CallIs
<1> QED
  BY <1>1 DEF CallTypes, Calls

LEMMA InvCreateRequest ==
    ASSUME ToolsInv, NEW c \in 1..Len(call), call[c].at = "asked", createRequest(c),
           UNCHANGED <<registered, faults, stateVars>>
    PROVE  ToolsInv'
<1> PICK next : next = [id |-> Len(requests) + 1]
  OBVIOUS
<1>0. /\ HubTypes /\ CallTypes /\ requests \in Seq(Gateways) /\ "me" \in Gateways
      /\ requests' = Append(requests, "me") /\ offers' = offers /\ sessions' = sessions
      /\ Answers(c, next) /\ call[c].tool = "createRequest"
  BY DEF ToolsInv, HubTypes, createRequest, Gateways
<1>1. /\ requests' \in Seq(Gateways)
      /\ Len(requests) \in Nat /\ Len(requests') = Len(requests) + 1
      /\ requests'[Len(requests) + 1] = "me"
      /\ \A i \in 1..Len(requests) : i \in 1..Len(requests') /\ requests'[i] = requests[i]
      /\ Len(requests) + 1 \in 1..Len(requests')
      /\ \A i \in 1..Len(requests') : i \in 1..Len(requests) \/ i = Len(requests) + 1
  BY <1>0, Appended
<1>2. next \in Records /\ next.id \in Nat /\ next.id = Len(requests) + 1
  BY <1>1 DEF Records
<1>3. HubGrows
  BY <1>0, <1>1 DEF HubGrows
<1>4. HubTypes'
  BY <1>0, <1>1 DEF HubTypes
<1>8. /\ \A i \in MadeOffers' : i \in 1..Len(offers)
      /\ \A i \in MadeSessions' : i \in 1..Len(sessions)
  BY <1>0, MadeInRange
<1>9. \A i \in MadeRequests' : i \in 1..Len(requests) \/ i = next.id
  <2>1. \A i \in MadeRequests' : i \in 1..Len(requests')
    BY <1>1 DEF MadeRequests
  <2> QED
    BY <1>1, <1>2, <2>1
<1> QED
  BY <1>0, <1>2, <1>3, <1>4, <1>8, <1>9, InvAnswer

LEMMA InvCreateOffer ==
    ASSUME ToolsInv, NEW c \in 1..Len(call), call[c].at = "asked", createOffer(c),
           UNCHANGED <<registered, faults, stateVars>>
    PROVE  ToolsInv'
<1> DEFINE O == [request: Nat, by: Gateways]
<1> PICK id : id = call[c].id
  OBVIOUS
<1> PICK o : o = [request |-> id, by |-> "me"]
  OBVIOUS
<1> PICK next : next = [id |-> Len(offers) + 1, request |-> id]
  OBVIOUS
<1>0. /\ HubTypes /\ CallTypes /\ offers \in Seq(O)
      /\ offers' = Append(offers, o) /\ requests' = requests /\ sessions' = sessions
      /\ Answers(c, next) /\ call[c].tool = "createOffer" /\ id <= Len(requests)
  BY DEF ToolsInv, HubTypes, createOffer
<1>a. id \in Nat /\ id \in 1..Len(requests)
  <2>1. id \in Nat /\ id # 0
    BY <1>0, AskedId
  <2>2. Len(requests) \in Nat
    BY <1>0, LenProperties DEF HubTypes
  <2> QED
    BY <1>0, <2>1, <2>2
<1>b. o \in O /\ o.request = id /\ o.by = "me"
  BY <1>a DEF Gateways
<1> HIDE DEF O
<1>1. /\ offers' \in Seq(O)
      /\ Len(offers) \in Nat /\ Len(offers') = Len(offers) + 1
      /\ offers'[Len(offers) + 1] = o
      /\ \A i \in 1..Len(offers) : i \in 1..Len(offers') /\ offers'[i] = offers[i]
      /\ Len(offers) + 1 \in 1..Len(offers')
      /\ \A i \in 1..Len(offers') : i \in 1..Len(offers) \/ i = Len(offers) + 1
  BY <1>0, <1>b, Appended
<1>2. /\ next \in Records /\ next.id \in Nat /\ next.id = Len(offers) + 1
      /\ next.request = id
  BY <1>1, <1>a DEF Records
<1>3. HubGrows
  BY <1>0, <1>1 DEF HubGrows
<1>4. HubTypes'
  <2>1. \A i \in 1..Len(offers') : offers'[i].request \in 1..Len(requests)
    BY <1>0, <1>1, <1>a, <1>b DEF HubTypes
  <2>2. \A i \in 1..Len(sessions) : sessions[i].offer \in 1..Len(offers')
    BY <1>0, <1>1 DEF HubTypes
  <2> QED
    BY <1>0, <1>1, <2>1, <2>2 DEF HubTypes, O
<1>8. /\ \A i \in MadeRequests' : i \in 1..Len(requests)
      /\ \A i \in MadeSessions' : i \in 1..Len(sessions)
  BY <1>0, MadeInRange
<1>9. \A i \in MadeOffers' : i \in 1..Len(offers) \/ i = next.id
  <2>1. \A i \in MadeOffers' : i \in 1..Len(offers')
    BY <1>1 DEF MadeOffers
  <2> QED
    BY <1>1, <1>2, <2>1
<1> QED
  BY <1>0, <1>2, <1>3, <1>4, <1>8, <1>9, InvAnswer

(* The record of a session. *)
LEMMA SessionIs ==
    ASSUME NEW i \in Nat, NEW s \in [offer: Nat, status: {"active", "closed"}]
    PROVE  recordSession(i, s) \in Records /\ recordSession(i, s).id = i
<1> DEFINE m == buildConnectionSessionView(s).recommendedMode
<1>1. m \in {"a2a", "generic"}
  BY DEF buildConnectionSessionView, planA2aAdapter
<1>2. recordSession(i, s) = [id |-> i, offer |-> s.offer, status |-> s.status, mode |-> m]
  BY DEF recordSession
<1> HIDE DEF m
<1> QED
  BY <1>1, <1>2 DEF Records

LEMMA InvAcceptOffer ==
    ASSUME ToolsInv, NEW c \in 1..Len(call), call[c].at = "asked", acceptOffer(c),
           UNCHANGED <<registered, faults, stateVars>>
    PROVE  ToolsInv'
<1> DEFINE O == [offer: Nat, status: {"active", "closed"}]
<1> PICK id : id = call[c].id
  OBVIOUS
<1> PICK s : s = [offer |-> id, status |-> "active"]
  OBVIOUS
<1> PICK next : next = recordSession(Len(sessions) + 1, s)
  OBVIOUS
<1>0. /\ HubTypes /\ CallTypes /\ sessions \in Seq(O)
      /\ sessions' = Append(sessions, s) /\ requests' = requests /\ offers' = offers
      /\ Answers(c, next) /\ call[c].tool = "acceptOffer" /\ id <= Len(offers)
  BY DEF ToolsInv, HubTypes, acceptOffer
<1>a. id \in Nat /\ id \in 1..Len(offers)
  <2>1. id \in Nat /\ id # 0
    BY <1>0, AskedId
  <2>2. Len(offers) \in Nat
    BY <1>0, LenProperties DEF HubTypes
  <2> QED
    BY <1>0, <2>1, <2>2
<1>b. s \in O /\ s.offer = id /\ s.status = "active"
  BY <1>a
<1>c. Len(sessions) \in Nat /\ Len(sessions) + 1 \in Nat
  BY <1>0, LenProperties
<1>2. /\ next \in Records /\ next.id \in Nat /\ next.id = Len(sessions) + 1
  BY <1>b, <1>c, SessionIs
<1> HIDE DEF O
<1>1. /\ sessions' \in Seq(O)
      /\ Len(sessions') = Len(sessions) + 1
      /\ sessions'[Len(sessions) + 1] = s
      /\ \A i \in 1..Len(sessions) : i \in 1..Len(sessions') /\ sessions'[i] = sessions[i]
      /\ Len(sessions) + 1 \in 1..Len(sessions')
      /\ \A i \in 1..Len(sessions') : i \in 1..Len(sessions) \/ i = Len(sessions) + 1
  BY <1>0, <1>b, Appended
<1>3. HubGrows
  BY <1>0, <1>1 DEF HubGrows
<1>4. HubTypes'
  <2>1. \A i \in 1..Len(sessions') : sessions'[i].offer \in 1..Len(offers)
    BY <1>0, <1>1, <1>a, <1>b DEF HubTypes
  <2> QED
    BY <1>0, <1>1, <2>1 DEF HubTypes, O
<1>8. /\ \A i \in MadeRequests' : i \in 1..Len(requests)
      /\ \A i \in MadeOffers' : i \in 1..Len(offers)
  BY <1>0, MadeInRange
<1>9. \A i \in MadeSessions' : i \in 1..Len(sessions) \/ i = next.id
  <2>1. \A i \in MadeSessions' : i \in 1..Len(sessions')
    BY <1>1, <1>c DEF MadeSessions
  <2> QED
    BY <1>1, <1>2, <2>1
<1> QED
  BY <1>0, <1>2, <1>3, <1>4, <1>8, <1>9, InvAnswer

LEMMA InvGetSession ==
    ASSUME ToolsInv, NEW c \in 1..Len(call), call[c].at = "asked", getSession(c),
           UNCHANGED <<registered, faults, stateVars>>
    PROVE  ToolsInv'
<1> DEFINE O == [offer: Nat, status: {"active", "closed"}]
<1> PICK id : id = call[c].id
  OBVIOUS
<1> PICK next : next = recordSession(id, sessions[id])
  OBVIOUS
<1>0. /\ HubTypes /\ CallTypes /\ sessions \in Seq(O) /\ UNCHANGED hubVars
      /\ Answers(c, next) /\ call[c].tool = "getSession" /\ id <= Len(sessions)
  BY DEF ToolsInv, HubTypes, getSession
<1>a. id \in Nat /\ id \in 1..Len(sessions)
  <2>1. id \in Nat /\ id # 0
    BY <1>0, AskedId
  <2>2. Len(sessions) \in Nat
    BY <1>0, LenProperties DEF HubTypes
  <2> QED
    BY <1>0, <2>1, <2>2
<1>b. sessions[id] \in O
  BY <1>0, <1>a, ElementOfSeq
<1>2. /\ next \in Records /\ next.id \in Nat /\ next.id = id
  BY <1>a, <1>b, SessionIs
<1>3. /\ HubTypes' /\ HubGrows
      /\ \A i \in MadeRequests' : i \in 1..Len(requests)
      /\ \A i \in MadeOffers' : i \in 1..Len(offers)
      /\ \A i \in MadeSessions' : i \in 1..Len(sessions)
  BY <1>0, QuietHub
<1> QED
  BY <1>0, <1>2, <1>3, InvAnswer

(* A file that is read is as it was saved; one that is not counts as empty. *)
LEMMA LoadIs ==
    ASSUME FileInv, NEW readable \in BOOLEAN
    PROVE  LET before == IF readable THEN recorded ELSE [j \in Kinds |-> << >>]
           IN  /\ load(readable).ids = [j \in Kinds |-> load(readable).ids[j]]
               /\ load(readable).records = [j \in Kinds |-> load(readable).records[j]]
               /\ before = [j \in Kinds |-> before[j]]
               /\ \A j \in Kinds : ListsAgree(load(readable).ids[j],
                                              load(readable).records[j], before[j])
<1>1. CASE readable
  <2> DEFINE f == normalizeState(file)
  <2>1. load(readable) = f
    BY <1>1 DEF load
  <2>2. /\ f.ids = [j \in Kinds |-> uniqueNewest(file.ids[j])]
        /\ f.records = [j \in Kinds |-> Newest(file.records[j])]
    BY DEF normalizeState
  <2> HIDE DEF f
  <2>3. ASSUME NEW j \in Kinds
        PROVE  uniqueNewest(file.ids[j]) = file.ids[j] /\ Newest(file.records[j]) = file.records[j]
    <3>1. /\ file.ids[j] \in Seq(Nat) /\ Distinct(file.ids[j]) /\ Len(file.ids[j]) <= MaxRecords
          /\ file.records[j] \in Seq(Records) /\ Len(file.records[j]) = Len(file.ids[j])
      BY DEF FileInv, ListsAgree, KeptInOrder
    <3>2. uniqueNewest(file.ids[j]) = file.ids[j]
      BY <3>1, UniqueSame
    <3>3. Newest(file.records[j]) = file.records[j]
      BY <3>1, NewestIs
    <3> QED
      BY <3>2, <3>3
  <2>4. ASSUME NEW j \in Kinds
        PROVE  ListsAgree(f.ids[j], f.records[j], recorded[j])
    BY <2>2, <2>3 DEF FileInv
  <2> QED
    BY <1>1, <2>1, <2>2, <2>4 DEF FileInv
<1>2. CASE ~readable
  <2>1. load(readable) = defaultState
    BY <1>2 DEF load
  <2>2. /\ defaultState.ids = [j \in Kinds |-> << >>]
        /\ defaultState.records = [j \in Kinds |-> << >>]
    BY DEF defaultState
  <2> QED
    BY <1>2, <2>1, <2>2, EmptyListsAgree
<1> QED
  BY <1>1, <1>2

LEMMA UpdateKeepsFile ==
    ASSUME FileInv, NEW k \in Kinds, NEW next \in Records,
           NEW readable \in BOOLEAN, NEW saved \in BOOLEAN, update(k, next, readable, saved)
    PROVE  /\ FileInv'
           /\ saved => next.id \in Range(Ids(recorded'[k]))
           /\ \A j \in Kinds : Range(Ids(recorded[j])) \cup wiped[j]
                                 \subseteq Range(Ids(recorded'[j])) \cup wiped'[j]
<1>1. CASE ~saved
  <2>1. UNCHANGED stateVars
    BY <1>1 DEF update, stateVars
  <2>2. recorded' = recorded /\ wiped' = wiped
    BY <2>1 DEF stateVars
  <2>3. FileInv'
    BY <2>1, FileStays
  <2> QED
    BY <1>1, <2>2, <2>3
<1>2. CASE saved
  <2> DEFINE state == load(readable)
             before == IF readable THEN recorded ELSE [j \in Kinds |-> << >>]
             ids == [state.ids EXCEPT ![k] = uniqueNewest(<<next.id>> \o @)]
             records == [state.records EXCEPT ![k] = upsertNewest(@, next)]
             R == [before EXCEPT ![k] = Append(@, next)]
  <2>1. file' = [ids |-> ids, records |-> records] /\ recorded' = R
    BY <1>2 DEF update
  <2>2. /\ state.ids = [j \in Kinds |-> state.ids[j]]
        /\ state.records = [j \in Kinds |-> state.records[j]]
        /\ before = [j \in Kinds |-> before[j]]
        /\ \A j \in Kinds : ListsAgree(state.ids[j], state.records[j], before[j])
    BY LoadIs
  <2>3. readable => before = recorded
    OBVIOUS
  <2> HIDE DEF state, before
  <2>4. /\ ids = [j \in Kinds |-> IF j = k THEN uniqueNewest(<<next.id>> \o state.ids[j]) ELSE state.ids[j]]
        /\ records = [j \in Kinds |-> IF j = k THEN upsertNewest(state.records[j], next) ELSE state.records[j]]
        /\ R = [j \in Kinds |-> IF j = k THEN Append(before[j], next) ELSE before[j]]
    BY <2>2
  <2> HIDE DEF ids, records, R
  <2>5. ASSUME NEW j \in Kinds
        PROVE  ListsAgree(ids[j], records[j], R[j])
    <3>1. CASE j = k
      <4>1. ListsAgree(uniqueNewest(<<next.id>> \o state.ids[k]),
                       upsertNewest(state.records[k], next), Append(before[k], next))
        BY <2>2, RecordKeepsLists
      <4> QED
        BY <2>4, <3>1, <4>1
    <3>2. CASE j # k
      BY <2>2, <2>4, <3>2
    <3> QED
      BY <3>1, <3>2
  <2>6. ASSUME NEW j \in Kinds
        PROVE  ListsAgree(file'.ids[j], file'.records[j], recorded'[j])
    BY <2>1, <2>5
  <2>7. FileInv'
    <3>1. file'.ids = ids /\ file'.records = records
      BY <2>1
    <3>2. DOMAIN ids = Kinds /\ DOMAIN records = Kinds /\ R = [j \in Kinds |-> R[j]]
      BY <2>4
    <3> QED
      BY <2>1, <2>6, <3>1, <3>2 DEF FileInv
  <2>8. ASSUME NEW j \in Kinds
        PROVE  /\ Range(Ids(before[j])) \subseteq Range(Ids(R[j]))
               /\ j = k => next.id \in Range(Ids(R[j]))
    <3>1. before[j] \in Seq(Records) /\ next.id \in Nat
      BY <2>2, RecordIds DEF ListsAgree
    <3>2. /\ Ids(Append(before[j], next)) = Append(Ids(before[j]), next.id)
          /\ Ids(before[j]) \in Seq(Nat)
      BY <3>1, IdsGrow, IdsAre
    <3>3. Range(Append(Ids(before[j]), next.id)) = Range(Ids(before[j])) \cup {next.id}
      BY <3>1, <3>2, AfterGrows
    <3> QED
      BY <2>4, <3>2, <3>3
  <2>9. CASE readable
    <3>1. wiped' = wiped
      BY <2>9 DEF update
    <3> QED
      BY <2>1, <2>3, <2>7, <2>8, <2>9, <3>1
  <2>10. CASE ~readable
    <3>1. wiped' = [j \in Kinds |-> wiped[j] \cup Range(Ids(recorded[j]))]
      BY <1>2, <2>10 DEF update
    <3> QED
      BY <2>1, <2>7, <2>8, <3>1
  <2> QED
    BY <2>9, <2>10
<1> QED
  BY <1>1, <1>2

LEMMA InvHubAnswers ==
    ASSUME ToolsInv, NEW c \in 1..Len(call), HubAnswers(c)
    PROVE  ToolsInv'
<1>1. call[c].at = "asked" /\ UNCHANGED <<registered, faults, stateVars>>
  BY DEF HubAnswers
<1>2. CASE createRequest(c)
  BY <1>1, <1>2, InvCreateRequest
<1>3. CASE createOffer(c)
  BY <1>1, <1>3, InvCreateOffer
<1>4. CASE acceptOffer(c)
  BY <1>1, <1>4, InvAcceptOffer
<1>5. CASE getSession(c)
  BY <1>1, <1>5, InvGetSession
<1> QED
  BY <1>2, <1>3, <1>4, <1>5 DEF HubAnswers

(* The steps that leave the hub and the file alone. *)
LEMMA InvQuiet ==
    ASSUME ToolsInv, UNCHANGED hubVars, UNCHANGED stateVars, CallTypes', Len(call') = Len(call),
           \A d \in 1..Len(call) :
               /\ Holds(call'[d]) <=> Holds(call[d])
               /\ call'[d].tool = call[d].tool
               /\ Holds(call[d]) => call'[d].reply = call[d].reply
    PROVE  ToolsInv'
<1>1. HubTypes' /\ HubGrows
  BY QuietHub DEF ToolsInv
<1>2. ResponsesHeld'
  BY ResponsesStay DEF ToolsInv
<1>3. FileInv'
  BY FileStays DEF ToolsInv
<1>4. MadeIsKnown'
  <2>1. \A k \in Kinds : KnownIds(k) \subseteq KnownIds(k)'
    BY KnownStay
  <2> QED
    BY <1>1, <2>1, QuietHub, MadeStaysKnown DEF ToolsInv
<1> QED
  BY <1>1, <1>2, <1>3, <1>4 DEF ToolsInv

LEMMA InvHubRefuses ==
    ASSUME ToolsInv, NEW c \in 1..Len(call), HubRefuses(c)
    PROVE  ToolsInv'
<1>0. /\ call[c].at = "asked" /\ call' = [call EXCEPT ![c].at = "ended"]
      /\ registered' = registered /\ faults' = faults
      /\ UNCHANGED hubVars /\ UNCHANGED stateVars /\ CallTypes
  BY DEF HubRefuses, ToolsInv
<1>1. registered' \in BOOLEAN /\ faults' \in 0..MaxFaults
  BY <1>0 DEF CallTypes
<1>2. /\ CallTypes' /\ Len(call') = Len(call)
      /\ \A d \in 1..Len(call) : d # c => call'[d] = call[d]
      /\ call'[c].at = "ended" /\ call'[c].tool = call[c].tool
  BY <1>0, <1>1, KeptIs
<1> QED
  BY <1>0, <1>2, InvQuiet DEF Holds

LEMMA FaultIs ==
    ASSUME CallTypes, Fault
    PROVE  faults' \in 0..MaxFaults
  BY BoundsAssumption DEF CallTypes, Fault

(* An arrived response is recorded, or stays with its call.                *)
LEMMA InvRecord ==
    ASSUME ToolsInv, NEW c \in 1..Len(call), Record(c)
    PROVE  ToolsInv'
<1>0. /\ call[c].at = "answered"
      /\ registered' = registered /\ UNCHANGED hubVars
      /\ HubTypes /\ CallTypes /\ FileInv
  BY DEF Record, ToolsInv
<1>1. PICK readable, saved \in BOOLEAN :
          /\ update(KindOf[call[c].tool], call[c].reply, readable, saved)
          /\ IF readable /\ saved THEN UNCHANGED faults ELSE Fault
          /\ call' = IF saved THEN [call EXCEPT ![c].at = "ended", ![c].reply = None]
                              ELSE [call EXCEPT ![c].at = "lost"]
  BY DEF Record
<1> PICK k : k = KindOf[call[c].tool]
  OBVIOUS
<1> PICK next : next = call[c].reply
  OBVIOUS
<1>2. k \in Kinds
  BY <1>0, CallIs, KindValues
<1>3. next \in Records
  BY <1>0 DEF ToolsInv, ResponsesHeld, Holds
<1>4. /\ FileInv'
      /\ saved => next.id \in Range(Ids(recorded'[k]))
      /\ \A j \in Kinds : Range(Ids(recorded[j])) \cup wiped[j]
                            \subseteq Range(Ids(recorded'[j])) \cup wiped'[j]
  BY <1>0, <1>1, <1>2, <1>3, UpdateKeepsFile
<1>5. registered' \in BOOLEAN /\ faults' \in 0..MaxFaults
  BY <1>0, <1>1, FaultIs DEF CallTypes
<1>6. /\ CallTypes' /\ Len(call') = Len(call)
      /\ \A d \in 1..Len(call) : d # c => call'[d] = call[d]
      /\ saved => call'[c].at = "ended"
      /\ ~saved => /\ call'[c].at = "lost" /\ call'[c].reply = next
                   /\ call'[c].tool = call[c].tool
  <2>1. None \in Replies
    BY DEF Replies
  <2>2. CASE saved
    BY <1>0, <1>1, <1>5, <2>1, <2>2, EndedIs
  <2>3. CASE ~saved
    BY <1>0, <1>1, <1>5, <2>3, KeptIs
  <2> QED
    BY <2>2, <2>3
<1>7. HubTypes' /\ HubGrows
  BY <1>0, QuietHub
<1>8. ResponsesHeld'
  BY <1>0, <1>3, <1>6, ResponsesStay DEF ToolsInv, Holds
<1>9. MadeIsKnown'
  <2>1. ASSUME NEW j \in Kinds, NEW x \in KnownIds(j)
        PROVE  x \in KnownIds(j)'
    <3>1. CASE x \in Range(Ids(recorded[j])) \cup wiped[j]
      BY <1>4, <3>1 DEF KnownIds
    <3>2. CASE x \in Unrecorded(j)
      <4>1. PICK d \in 1..Len(call) :
               /\ Holds(call[d]) /\ call[d].tool # "getSession" /\ KindOf[call[d].tool] = j
               /\ x = call[d].reply.id
        BY <3>2 DEF Unrecorded, Holds
      <4>2. CASE d = c /\ saved
        BY <1>4, <4>1, <4>2 DEF KnownIds
      <4>3. CASE d # c \/ ~saved
        <5>1. /\ d \in 1..Len(call') /\ Holds(call'[d])
              /\ call'[d].reply = call[d].reply /\ call'[d].tool = call[d].tool
          BY <1>6, <4>1, <4>3 DEF Holds
        <5>2. x \in Unrecorded(j)'
          BY <4>1, <5>1 DEF Unrecorded, Holds
        <5> QED
          BY <5>2 DEF KnownIds
      <4> QED
        BY <4>2, <4>3
    <3> QED
      BY <3>1, <3>2 DEF KnownIds
  <2>2. \A j \in Kinds : KnownIds(j) \subseteq KnownIds(j)'
    BY <2>1
  <2> QED
    BY <1>0, <1>7, <2>2, QuietHub, MadeStaysKnown DEF ToolsInv
<1> QED
  BY <1>4, <1>6, <1>7, <1>8, <1>9 DEF ToolsInv

LEMMA InvLose ==
    ASSUME ToolsInv, NEW c \in 1..Len(call), Lose(c)
    PROVE  ToolsInv'
<1>0. /\ call[c].at = "answered" /\ call' = [call EXCEPT ![c].at = "lost"]
      /\ registered' = registered /\ UNCHANGED hubVars /\ UNCHANGED stateVars
      /\ CallTypes /\ Fault
  BY DEF Lose, ToolsInv
<1>1. registered' \in BOOLEAN /\ faults' \in 0..MaxFaults
  BY <1>0, FaultIs DEF CallTypes
<1>2. /\ CallTypes' /\ Len(call') = Len(call)
      /\ \A d \in 1..Len(call) : d # c => call'[d] = call[d]
      /\ call'[c].at = "lost" /\ call'[c].tool = call[c].tool /\ call'[c].reply = call[c].reply
  BY <1>0, <1>1, KeptIs
<1> QED
  BY <1>0, <1>2, InvQuiet DEF Holds

-----------------------------------------------------------------------------
(* The world around the calls *)

LEMMA InvWorld ==
    ASSUME ToolsInv, UNCHANGED <<call, faults, stateVars>>, registered' \in BOOLEAN,
           HubGrows, HubTypes',
           \A i \in MadeRequests' : i \in 1..Len(requests),
           \A i \in MadeOffers' : i \in 1..Len(offers),
           \A i \in MadeSessions' : i \in 1..Len(sessions)
    PROVE  ToolsInv'
<1>0. /\ call' = call /\ faults' = faults /\ UNCHANGED stateVars
      /\ HubTypes /\ CallTypes
  BY DEF ToolsInv
<1>1. CallTypes'
  BY <1>0 DEF CallTypes
<1>2. ResponsesHeld'
  BY <1>0, ResponsesStay DEF ToolsInv
<1>3. FileInv'
  BY <1>0, FileStays DEF ToolsInv
<1>4. MadeIsKnown'
  <2>1. \A k \in Kinds : KnownIds(k) \subseteq KnownIds(k)'
    BY <1>0, KnownStay
  <2> QED
    BY <1>0, <2>1, MadeStaysKnown DEF ToolsInv
<1> QED
  BY <1>1, <1>2, <1>3, <1>4 DEF ToolsInv

LEMMA InvRegister ==
    ASSUME ToolsInv, Register
    PROVE  ToolsInv'
<1>1. /\ UNCHANGED <<call, faults, stateVars>> /\ registered' \in BOOLEAN
      /\ UNCHANGED hubVars /\ HubTypes
  BY DEF Register, ToolsInv
<1> QED
  BY <1>1, QuietHub, InvWorld

LEMMA InvOtherOffers ==
    ASSUME ToolsInv, OtherOffers
    PROVE  ToolsInv'
<1> DEFINE O == [request: Nat, by: Gateways]
<1>0. /\ HubTypes /\ CallTypes /\ offers \in Seq(O) /\ requests \in Seq(Gateways)
      /\ requests' = requests /\ sessions' = sessions
      /\ UNCHANGED <<call, faults, stateVars>> /\ registered' \in BOOLEAN
  BY DEF ToolsInv, HubTypes, CallTypes, OtherOffers
<1>1. PICK q \in 1..Len(requests) : offers' = Append(offers, [request |-> q, by |-> "other"])
  BY DEF OtherOffers
<1> PICK o : o = [request |-> q, by |-> "other"]
  OBVIOUS
<1>2. o \in O /\ o.request = q /\ o.by = "other"
  <2>1. q \in Nat
    BY <1>0, LenProperties
  <2> QED
    BY <2>1 DEF Gateways
<1> HIDE DEF O
<1>3. /\ offers' \in Seq(O)
      /\ Len(offers) \in Nat /\ Len(offers') = Len(offers) + 1
      /\ offers'[Len(offers) + 1] = o
      /\ \A i \in 1..Len(offers) : i \in 1..Len(offers') /\ offers'[i] = offers[i]
      /\ \A i \in 1..Len(offers') : i \in 1..Len(offers) \/ i = Len(offers) + 1
  BY <1>0, <1>1, <1>2, Appended
<1>4. HubGrows
  BY <1>0, <1>3 DEF HubGrows
<1>5. HubTypes'
  <2>1. \A i \in 1..Len(offers') : offers'[i].request \in 1..Len(requests)
    BY <1>0, <1>2, <1>3 DEF HubTypes
  <2>2. \A i \in 1..Len(sessions) : sessions[i].offer \in 1..Len(offers')
    BY <1>0, <1>3 DEF HubTypes
  <2> QED
    BY <1>0, <1>3, <2>1, <2>2 DEF HubTypes, O
<1>6. /\ \A i \in MadeRequests' : i \in 1..Len(requests)
      /\ \A i \in MadeSessions' : i \in 1..Len(sessions)
  BY <1>0, MadeInRange
<1>7. \A i \in MadeOffers' : i \in 1..Len(offers)
  <2>1. \A i \in MadeOffers' : i \in 1..Len(offers') /\ offers'[i].by = "me"
    BY <1>3 DEF MadeOffers
  <2> QED
    BY <1>2, <1>3, <2>1
<1> QED
  BY <1>0, <1>4, <1>5, <1>6, <1>7, InvWorld

LEMMA InvOtherAccepts ==
    ASSUME ToolsInv, OtherAccepts
    PROVE  ToolsInv'
<1> DEFINE O == [offer: Nat, status: {"active", "closed"}]
<1>0. /\ HubTypes /\ CallTypes /\ sessions \in Seq(O) /\ Len(offers) \in Nat
      /\ requests' = requests /\ offers' = offers
      /\ UNCHANGED <<call, faults, stateVars>> /\ registered' \in BOOLEAN
  BY LenProperties DEF ToolsInv, HubTypes, CallTypes, OtherAccepts
<1>1. PICK o \in 1..Len(offers) :
          /\ requests[offers[o].request] = "other"
          /\ sessions' = Append(sessions, [offer |-> o, status |-> "active"])
  BY DEF OtherAccepts
<1> PICK s : s = [offer |-> o, status |-> "active"]
  OBVIOUS
<1>2. s \in O /\ s.offer = o
  BY <1>0
<1> HIDE DEF O
<1>3. /\ sessions' \in Seq(O)
      /\ Len(sessions) \in Nat /\ Len(sessions') = Len(sessions) + 1
      /\ sessions'[Len(sessions) + 1] = s
      /\ \A i \in 1..Len(sessions) : i \in 1..Len(sessions') /\ sessions'[i] = sessions[i]
      /\ \A i \in 1..Len(sessions') : i \in 1..Len(sessions) \/ i = Len(sessions) + 1
  BY <1>0, <1>1, <1>2, Appended
<1>4. HubGrows
  BY <1>0, <1>3 DEF HubGrows
<1>5. HubTypes'
  <2>1. \A i \in 1..Len(sessions') : sessions'[i].offer \in 1..Len(offers)
    BY <1>0, <1>2, <1>3 DEF HubTypes
  <2> QED
    BY <1>0, <1>3, <2>1 DEF HubTypes, O
<1>6. /\ \A i \in MadeRequests' : i \in 1..Len(requests)
      /\ \A i \in MadeOffers' : i \in 1..Len(offers)
  BY <1>0, MadeInRange
<1>7. \A i \in MadeSessions' : i \in 1..Len(sessions)
  <2>1. \A i \in MadeSessions' :
           i \in 1..Len(sessions') /\ requests[offers[sessions'[i].offer].request] = "me"
    BY <1>0, <1>3 DEF MadeSessions
  <2>2. requests[offers[sessions'[Len(sessions) + 1].offer].request] = "other"
    BY <1>1, <1>2, <1>3
  <2> QED
    BY <1>3, <2>1, <2>2
<1> QED
  BY <1>0, <1>4, <1>5, <1>6, <1>7, InvWorld

LEMMA InvSessionCloses ==
    ASSUME ToolsInv, SessionCloses
    PROVE  ToolsInv'
<1> DEFINE O == [offer: Nat, status: {"active", "closed"}]
<1>0. /\ HubTypes /\ CallTypes /\ sessions \in Seq(O)
      /\ requests' = requests /\ offers' = offers
      /\ UNCHANGED <<call, faults, stateVars>> /\ registered' \in BOOLEAN
  BY DEF ToolsInv, HubTypes, CallTypes, SessionCloses
<1>1. PICK q \in 1..Len(sessions) : sessions' = [sessions EXCEPT ![q].status = "closed"]
  BY DEF SessionCloses
<1> PICK s : s = [sessions[q] EXCEPT !.status = "closed"]
  OBVIOUS
<1>2. s \in O /\ s.offer = sessions[q].offer /\ s.status = "closed"
  <2>1. sessions[q] \in O
    BY <1>0, ElementOfSeq
  <2> QED
    BY <2>1
<1> HIDE DEF O
<1>3. /\ sessions' \in Seq(O) /\ Len(sessions') = Len(sessions)
      /\ \A i \in 1..Len(sessions) : sessions'[i] = IF i = q THEN s ELSE sessions[i]
  <2> DEFINE new == [sessions EXCEPT ![q] = s]
  <2>1. /\ new \in Seq(O) /\ Len(new) = Len(sessions)
        /\ \A i \in 1..Len(sessions) : new[i] = IF i = q THEN s ELSE sessions[i]
    BY <1>0, <1>2, ExceptSeq
  <2> QED
    BY <1>1, <2>1
<1>4. HubGrows
  BY <1>0, <1>2, <1>3 DEF HubGrows
<1>5. HubTypes'
  <2>1. \A i \in 1..Len(sessions') : sessions'[i].offer \in 1..Len(offers)
    BY <1>0, <1>2, <1>3 DEF HubTypes
  <2> QED
    BY <1>0, <1>3, <2>1 DEF HubTypes, O
<1>6. /\ \A i \in MadeRequests' : i \in 1..Len(requests)
      /\ \A i \in MadeOffers' : i \in 1..Len(offers)
      /\ \A i \in MadeSessions' : i \in 1..Len(sessions)
  BY <1>0, <1>3, MadeInRange
<1> QED
  BY <1>0, <1>4, <1>5, <1>6, InvWorld

LEMMA InvRestart ==
    ASSUME ToolsInv, Restart
    PROVE  ToolsInv'
<1> DEFINE n == Len(call)
           At(a) == CASE a = "asked" -> "ended" [] a = "answered" -> "lost" [] OTHER -> a
           X(c) == [call[c] EXCEPT !.at = At(call[c].at)]
<1>0. /\ call' = [c \in 1..n |-> X(c)]
      /\ registered' = registered /\ UNCHANGED hubVars /\ UNCHANGED stateVars
      /\ CallTypes /\ Fault
  BY DEF Restart, ToolsInv
<1>1. faults' \in 0..MaxFaults
  BY <1>0, FaultIs
<1>2. ASSUME NEW c \in 1..n
      PROVE  /\ X(c) \in Calls /\ X(c).tool = call[c].tool /\ X(c).id = call[c].id
             /\ X(c).reply = call[c].reply /\ (Holds(X(c)) <=> Holds(call[c]))
  <2>1. call[c] \in Calls
    BY <1>0, CallIs
  <2>2. call[c].at \in {"asked", "answered", "ended", "lost"}
    BY <2>1 DEF Calls
  <2>3. At(call[c].at) \in {"ended", "lost"} /\ (At(call[c].at) = "lost" <=> Holds(call[c]))
    BY <2>2 DEF Holds
  <2> HIDE DEF At
  <2> QED
    BY <2>1, <2>3 DEF Calls, Holds
<1>3. n \in Nat
  BY <1>0, LenProperties DEF CallTypes
<1>4. /\ call' \in Seq(Calls) /\ Len(call') = n
      /\ \A c \in 1..n : call'[c] = X(c)
  <2> HIDE DEF X, n
  <2>1. call' \in Seq(Calls)
    BY <1>0, <1>2, <1>3, IsASeq
  <2> QED
    BY <1>0, <1>3, <2>1
<1> HIDE DEF X
<1>5. CallTypes'
  BY <1>0, <1>1, <1>2, <1>4 DEF CallTypes
<1> QED
  BY <1>0, <1>2, <1>4, <1>5, InvQuiet

-----------------------------------------------------------------------------
(* The theorems *)

LEMMA InvInit ==
    ASSUME Init
    PROVE  ToolsInv
<1>0. /\ requests = <<"other", "me">>
      /\ offers = <<[request |-> 1, by |-> "me"], [request |-> 2, by |-> "other"]>>
      /\ sessions = <<[offer |-> 1, status |-> "active"]>>
      /\ call = << >> /\ faults = 0 /\ registered = FALSE
      /\ file = defaultState /\ recorded = [k \in Kinds |-> << >>]
  BY DEF Init, StateInit
<1>1. HubTypes
  BY <1>0 DEF HubTypes, Gateways
<1>2. CallTypes /\ ResponsesHeld
  <2>1. Len(call) = 0 /\ 1..Len(call) = {} /\ call \in Seq(Calls)
    BY <1>0, EmptySeq
  <2> QED
    <3>0. registered \in BOOLEAN
      BY <1>0
    <3>1. faults \in 0..MaxFaults
      BY <1>0, BoundsAssumption
    <3>2. CallTypes
      BY <2>1, <3>0, <3>1 DEF CallTypes
    <3>3. ResponsesHeld
      BY <2>1 DEF ResponsesHeld
    <3> QED
      BY <3>2, <3>3
<1>3. FileInv
  <2>1. file.ids = [k \in Kinds |-> << >>] /\ file.records = [k \in Kinds |-> << >>]
    BY <1>0 DEF defaultState
  <2> QED
    BY <1>0, <2>1, EmptyListsAgree DEF FileInv
<1>4. MadeIsKnown
  <2>1. 3..Len(requests) = {} /\ 3..Len(offers) = {} /\ 2..Len(sessions) = {}
    BY <1>0
  <2> QED
    BY <2>1 DEF MadeIsKnown, MadeRequests, MadeOffers, MadeSessions
<1> QED
  BY <1>1, <1>2, <1>3, <1>4 DEF ToolsInv

LEMMA InvNext ==
    ASSUME ToolsInv, [Next]_vars
    PROVE  ToolsInv'
<1>1. CASE Begin
  BY <1>1, InvBegin
<1>2. ASSUME NEW c \in 1..Len(call), Step(c) \/ Lose(c)
      PROVE  ToolsInv'
  BY <1>2, InvHubAnswers, InvHubRefuses, InvRecord, InvLose DEF Step
<1>3. CASE Register \/ OtherOffers \/ OtherAccepts \/ SessionCloses \/ Restart
  BY <1>3, InvRegister, InvOtherOffers, InvOtherAccepts, InvSessionCloses, InvRestart
<1>4. CASE Done \/ UNCHANGED vars
  <2>1. /\ UNCHANGED <<call, faults, stateVars>> /\ registered' = registered
        /\ UNCHANGED hubVars /\ HubTypes /\ CallTypes
    BY <1>4 DEF Done, vars, ToolsInv
  <2>2. registered' \in BOOLEAN
    BY <2>1 DEF CallTypes
  <2> QED
    BY <2>1, <2>2, QuietHub, InvWorld
<1> QED
  BY <1>1, <1>2, <1>3, <1>4 DEF Next

LEMMA ToolsInvariant == Spec => []ToolsInv
<1>1. Init => ToolsInv
  BY InvInit
<1>2. ToolsInv /\ [Next]_vars => ToolsInv'
  BY InvNext
<1> QED
  BY <1>1, <1>2, PTL DEF Spec

(* The elements at some positions are no more than the positions.          *)
LEMMA ImageIs ==
    ASSUME NEW I, IsFiniteSet(I), NEW s
    PROVE  /\ IsFiniteSet({s[j] : j \in I})
           /\ Cardinality({s[j] : j \in I}) <= Cardinality(I)
<1> DEFINE T == {s[j] : j \in I}
           f == [j \in I |-> s[j]]
<1>1. f \in Surjection(I, T)
  BY DEF Surjection
<1> QED
  BY <1>1, FS_Surjection

(* Being among the MAX_RECORDS newest ids is being in the list of ids.     *)
LEMMA KeptAreNewest ==
    ASSUME NEW ids, NEW R, KeptInOrder(ids, R)
    PROVE  Range(ids) = {id \in Range(R) : Cardinality(After(R, id)) < MaxRecords}
<1>0. /\ ids \in Seq(Nat) /\ R \in Seq(Nat) /\ Distinct(ids)
      /\ Len(ids) \in Nat /\ Len(R) \in Nat
      /\ Len(ids) <= MaxRecords /\ MaxRecords \in Nat
      /\ Range(ids) = {ids[i] : i \in 1..Len(ids)}
  BY LenProperties, RangeIs, MaxRecordsAssumption DEF KeptInOrder
<1>1. ASSUME NEW i \in 1..Len(ids)
      PROVE  ids[i] \in Range(R) /\ Cardinality(After(R, ids[i])) < MaxRecords
  <2>1. ids[i] \in Range(R) /\ After(R, ids[i]) = {ids[j] : j \in 1..(i - 1)}
    BY DEF KeptInOrder
  <2>2. i - 1 \in Nat /\ i - 1 < MaxRecords
    BY <1>0
  <2>3. IsFiniteSet(1..(i - 1)) /\ Cardinality(1..(i - 1)) = i - 1
    BY <2>2, UpTo
  <2> DEFINE m == Cardinality(After(R, ids[i]))
  <2>4. IsFiniteSet(After(R, ids[i])) /\ m <= i - 1
    BY <2>1, <2>3, ImageIs
  <2>5. m \in Nat
    BY <2>4, FS_CardinalityType
  <2> HIDE DEF m
  <2>6. m < MaxRecords
    BY <1>0, <2>2, <2>4, <2>5
  <2> QED
    BY <2>1, <2>6 DEF m
<1>2. ASSUME NEW id \in Range(R), id \notin Range(ids)
      PROVE  ~(Cardinality(After(R, id)) < MaxRecords)
  <2>1. Len(ids) = MaxRecords /\ Range(ids) \subseteq After(R, id)
    BY <1>2 DEF KeptInOrder
  <2>2. LastOf(R, id) \in 1..Len(R)
    BY <1>0, LastIs
  <2>3. IsFiniteSet(After(R, id))
    <3>1. LastOf(R, id) + 1 \in Int /\ Len(R) \in Int
      BY <1>0, <2>2
    <3>2. IsFiniteSet((LastOf(R, id) + 1)..Len(R))
      BY <3>1, FS_Interval
    <3> QED
      BY <3>2, ImageIs DEF After
  <2> DEFINE f == [j \in 1..MaxRecords |-> ids[j]]
             m == Cardinality(After(R, id))
  <2>4. f \in Injection(1..MaxRecords, After(R, id))
    <3>1. \A j \in 1..MaxRecords : ids[j] \in After(R, id)
      BY <1>0, <2>1
    <3>2. \A i, j \in 1..MaxRecords : ids[i] = ids[j] => i = j
      BY <1>0, <2>1 DEF Distinct
    <3> QED
      BY <3>1, <3>2 DEF Injection, IsInjective
  <2>5. Cardinality(1..MaxRecords) = MaxRecords
    BY <1>0, UpTo
  <2>6. MaxRecords <= m
    BY <2>3, <2>4, <2>5, FS_Injection
  <2>7. m \in Nat
    BY <2>3, FS_CardinalityType
  <2> HIDE DEF m
  <2>8. ~(m < MaxRecords)
    BY <1>0, <2>6, <2>7
  <2> QED
    BY <2>8 DEF m
<1> QED
  BY <1>0, <1>1, <1>2

LEMMA RecordedAre ==
    ASSUME ToolsInv, NEW k \in Kinds
    PROVE  /\ \A id : /\ LastRecorded(k, id) = LastOf(Ids(recorded[k]), id)
                      /\ id \in Range(Ids(recorded[k]))
                            => RecordedAfter(k, id) = After(Ids(recorded[k]), id)
           /\ Range(file.ids[k])
                 = {id \in Range(Ids(recorded[k])) :
                        Cardinality(RecordedAfter(k, id)) < MaxRecords}
<1> DEFINE R == recorded[k]
<1>1. ListsAgree(file.ids[k], file.records[k], R)
  BY DEF ToolsInv, FileInv
<1>2. /\ Ids(R) \in Seq(Nat) /\ Len(Ids(R)) = Len(R) /\ Len(R) \in Nat
      /\ \A i \in 1..Len(R) : Ids(R)[i] = R[i].id
  BY <1>1, IdsAre DEF ListsAgree
<1>3. ASSUME NEW id
      PROVE  LastRecorded(k, id) = LastOf(Ids(R), id)
  <2>1. ASSUME NEW i \in 1..Len(R)
        PROVE  (R[i].id = id /\ \A j \in (i + 1)..Len(R) : R[j].id # id)
                 <=> (Ids(R)[i] = id /\ \A j \in (i + 1)..Len(R) : Ids(R)[j] # id)
    <3>1. \A j \in (i + 1)..Len(R) : j \in 1..Len(R)
      BY <1>2
    <3> QED
      BY <1>2, <3>1
  <2> QED
    BY <1>2, <2>1 DEF LastRecorded, LastOf
<1>4. ASSUME NEW id \in Range(Ids(R))
      PROVE  RecordedAfter(k, id) = After(Ids(R), id)
  <2> DEFINE l == LastOf(Ids(R), id)
  <2>1. l \in 1..Len(R)
    BY <1>2, LastIs
  <2>2. /\ RecordedAfter(k, id) = {R[j].id : j \in (l + 1)..Len(R)}
        /\ After(Ids(R), id) = {Ids(R)[j] : j \in (l + 1)..Len(R)}
    BY <1>2, <1>3 DEF RecordedAfter, After
  <2> HIDE DEF l
  <2>3. \A j \in (l + 1)..Len(R) : j \in 1..Len(R)
    BY <1>2, <2>1
  <2> QED
    BY <1>2, <2>2, <2>3
<1>5. Range(file.ids[k])
         = {id \in Range(Ids(R)) : Cardinality(After(Ids(R), id)) < MaxRecords}
  BY <1>1, KeptAreNewest DEF ListsAgree
<1> QED
  BY <1>3, <1>4, <1>5

(* NewestAreKept for any limit, number of ids, of calls and of faults: the *)
(* ids of connection-state.ts are the newest ones recorded, and beside     *)
(* each is the response about it that arrived last.                        *)
THEOREM KeepsNewest == Spec => []NewestAreKept
<1>1. ToolsInv => NewestAreKept
  <2> SUFFICES ASSUME ToolsInv, NEW k \in Kinds
               PROVE  /\ Range(file.ids[k])
                            = {id \in Range(Ids(recorded[k])) :
                                   Cardinality(RecordedAfter(k, id)) < MaxRecords}
                      /\ file.records[k] = [i \in 1..Len(file.ids[k]) |->
                                              recorded[k][LastRecorded(k, file.ids[k][i])]]
    BY DEF NewestAreKept
  <2>1. /\ file.records[k] \in Seq(Records) /\ Len(file.records[k]) = Len(file.ids[k])
        /\ \A i \in 1..Len(file.ids[k]) :
              file.records[k][i] = recorded[k][LastRecorded(k, file.ids[k][i])]
    BY RecordedAre DEF ToolsInv, FileInv, ListsAgree, LatestOf
  <2>2. file.records[k] = [i \in 1..Len(file.ids[k]) |-> file.records[k][i]]
    BY <2>1, LenProperties
  <2> QED
    BY <2>1, <2>2, RecordedAre
<1> QED
  BY <1>1, ToolsInvariant, PTL

(* MadeIsOnFile: whatever this gateway's tools made at the hub is in the   *)
(* file, unless it was overtaken by MAX_RECORDS newer ids, its response    *)
(* did not get there or a read of the file failed, for any number of calls *)
(* that load, change and save the file between one another's requests.     *)
THEOREM ForgetsNothing == Spec => []MadeIsOnFile
<1>1. ToolsInv => MadeIsOnFile
  <2> SUFFICES ASSUME ToolsInv, NEW k \in Kinds, NEW id \in Made[k]
               PROVE  \/ id \in Range(file.ids[k])
                      \/ /\ id \in Range(Ids(recorded[k]))
                         /\ Cardinality(RecordedAfter(k, id)) >= MaxRecords
                      \/ id \in Unrecorded(k) \cup wiped[k]
    BY DEF MadeIsOnFile
  <2>1. id \in KnownIds(k)
    BY DEF ToolsInv, MadeIsKnown, Made, MadeRequests, MadeOffers, MadeSessions, Kinds
  <2>2. CASE id \in Range(Ids(recorded[k]))
    <3> DEFINE m == Cardinality(RecordedAfter(k, id))
               R == Ids(recorded[k])
    <3>1. R \in Seq(Nat) /\ Len(R) \in Nat
      BY IdsAre DEF ToolsInv, FileInv, ListsAgree
    <3>2. LastOf(R, id) \in 1..Len(R)
      BY <2>2, <3>1, LastIs
    <3>3. IsFiniteSet((LastOf(R, id) + 1)..Len(R))
      BY <3>1, <3>2, FS_Interval
    <3>a. IsFiniteSet(After(R, id))
      BY <3>3, ImageIs DEF After
    <3>4. IsFiniteSet(RecordedAfter(k, id))
      BY <2>2, <3>a, RecordedAre
    <3>5. m \in Nat /\ MaxRecords \in Nat
      BY <3>4, FS_CardinalityType, MaxRecordsAssumption
    <3>6. id \in Range(file.ids[k]) <=> m < MaxRecords
      BY <2>2, RecordedAre
    <3> HIDE DEF m
    <3>7. m < MaxRecords \/ m >= MaxRecords
      BY <3>5
    <3> QED
      BY <2>2, <3>6, <3>7 DEF m
  <2>3. CASE id \notin Range(Ids(recorded[k]))
    BY <2>1, <2>3 DEF KnownIds
  <2> QED
    BY <2>2, <2>3
<1> QED
  BY <1>1, ToolsInvariant, PTL

(* The types of the tools' variables, which bound the lists of the file of *)
(* connection-state.ts by MAX_RECORDS.                                     *)
THEOREM ToolTypes == Spec => []TypeOK
<1>1. ToolsInv => TypeOK
  <2> SUFFICES ASSUME ToolsInv
               PROVE  TypeOK
    OBVIOUS
  <2>1. HubTypes /\ CallTypes
    BY DEF ToolsInv
  <2>2. /\ Range(requests) = {requests[i] : i \in 1..Len(requests)}
        /\ Range(offers) = {offers[i] : i \in 1..Len(offers)}
        /\ Range(sessions) = {sessions[i] : i \in 1..Len(sessions)}
        /\ Range(call) = {call[i] : i \in 1..Len(call)}
    BY <2>1, RangeIs DEF HubTypes, CallTypes
  <2>3. \A i \in 1..Len(requests) : requests[i] \in {"me", "other"}
    BY <2>1, ElementOfSeq DEF HubTypes, Gateways
  <2>4. ASSUME NEW i \in 1..Len(offers)
        PROVE  offers[i].request \in 1..Len(requests) /\ offers[i].by \in {"me", "other"}
    <3>1. offers[i] \in [request: Nat, by: Gateways]
      BY <2>1, ElementOfSeq DEF HubTypes
    <3> QED
      BY <2>1, <3>1 DEF HubTypes, Gateways
  <2>5. ASSUME NEW i \in 1..Len(sessions)
        PROVE  sessions[i].offer \in 1..Len(offers) /\ sessions[i].status \in {"active", "closed"}
    <3>1. sessions[i] \in [offer: Nat, status: {"active", "closed"}]
      BY <2>1, ElementOfSeq DEF HubTypes
    <3> QED
      BY <2>1, <3>1 DEF HubTypes
  <2>6. \A i \in 1..Len(call) : call[i].at \in {"asked", "answered", "ended", "lost"}
    BY <2>1, CallIs DEF Calls
  <2>7. \A k \in Kinds : Len(file.ids[k]) <= MaxRecords /\ Len(file.records[k]) <= MaxRecords
    BY DEF ToolsInv, FileInv, ListsAgree, KeptInOrder
  <2> QED
    BY <2>1, <2>2, <2>3, <2>4, <2>5, <2>6, <2>7 DEF TypeOK, CallTypes
<1> QED
  BY <1>1, ToolsInvariant, PTL
=============================================================================
