------------------------- MODULE ThreadSchedProofs -------------------------
(***************************************************************************)
(* What the list operations return, for lists of any length: insertion     *)
(* adds exactly one element, sorting and filtering return the elements     *)
(* they are given, and neither duplicates or loses one.  From that, the    *)
(* scheduler operations keep the scheduler state well formed, for any      *)
(* number of threads and any priorities.                                   *)
(***************************************************************************)
EXTENDS ThreadSched, FunctionTheorems, FiniteSetTheorems, SequenceTheorems,
        TLAPS

(* Induction on sets: if a number were missing, so would be every smaller  *)
(* one, down from 0.                                                       *)
LEMMA SetInduction ==
  ASSUME NEW P, 0 \in P, \A n \in Nat : n \in P => n + 1 \in P
  PROVE  \A n \in Nat : n \in P
<1> SUFFICES ASSUME NEW n \in Nat, n \notin P PROVE FALSE
  OBVIOUS
<1> DEFINE D == {m \in 0..n : m \notin P}
           down == [m \in D |-> m - 1]
<1>1. IsFiniteSet(D) /\ IsFiniteSet(D \ {n}) /\ n \in D
  <2>1. IsFiniteSet(0..n) /\ D \in SUBSET (0..n)
    BY FS_Interval
  <2>2. IsFiniteSet(D)
    BY <2>1, FS_Subset
  <2> QED BY <2>2, FS_RemoveElement
<1>2. Cardinality(D) \in Nat /\ Cardinality(D \ {n}) = Cardinality(D) - 1
  BY <1>1, FS_CardinalityType, FS_RemoveElement
<1>3. ASSUME NEW m \in D PROVE m - 1 \in D \ {n}
  <2>1. m # 0 /\ m \in 0..n
    BY <1>3
  <2>2. m - 1 \in Nat /\ (m - 1) + 1 = m
    BY <2>1
  <2> QED BY <1>3, <2>1, <2>2
<1>4. down \in Injection(D, D \ {n})
  BY <1>3 DEF Injection, IsInjective
<1> QED BY <1>1, <1>2, <1>4, FS_Injection

(* A list is empty exactly if it has no elements.                          *)
LEMMA ElemsEmpty ==
  ASSUME NEW S, NEW q \in Seq(S)
  PROVE  q = <<>> <=> Elems(q) = {}
<1>1. Len(q) \in Nat /\ DOMAIN q = 1..Len(q)
  BY LenProperties
<1>2. q = <<>> <=> Len(q) = 0
  BY EmptySeq
<1>3. CASE Len(q) = 0
  BY <1>1, <1>2, <1>3 DEF Elems
<1>4. CASE Len(q) # 0
  <2>1. 1 \in DOMAIN q
    BY <1>1, <1>4
  <2>2. q[1] \in Elems(q)
    BY <2>1 DEF Elems
  <2> QED BY <2>2, <1>2, <1>4
<1> QED BY <1>3, <1>4

(* The elements that list_insert_ordered passes over are at most all.      *)
LEMMA PassedBound ==
  ASSUME NEW S, NEW q \in Seq(S), NEW e, NEW key
  PROVE  Cardinality(Passed(q, e, key)) \in 0..Len(q)
<1>1. Len(q) \in Nat /\ DOMAIN q = 1..Len(q)
  BY LenProperties
<1>2. IsFiniteSet(1..Len(q)) /\ Cardinality(1..Len(q)) = Len(q)
  BY <1>1, FS_Interval
<1>3. Passed(q, e, key) \in SUBSET (1..Len(q))
  BY <1>1 DEF Passed
<1>4. IsFiniteSet(Passed(q, e, key)) /\ Cardinality(Passed(q, e, key)) <= Len(q)
  BY <1>2, <1>3, FS_Subset
<1>5. Cardinality(Passed(q, e, key)) \in Nat
  BY <1>4, FS_CardinalityType
<1> QED BY <1>1, <1>4, <1>5

(* s is q with e inserted after the first p elements.                      *)
InsertedAt(s, q, e, p) ==
  /\ Len(s) = Len(q) + 1
  /\ \A i \in 1..(Len(q) + 1) : s[i] =
       IF i <= p THEN q[i] ELSE IF i = p + 1 THEN e ELSE q[i-1]

(* list_insert_ordered puts the new element behind the ones it passes over *)
(* and keeps the rest.                                                     *)
LEMMA InsertOrderedShape ==
  ASSUME NEW S, NEW q \in Seq(S), NEW e \in S, NEW key
  PROVE  \E p \in 0..Len(q) :
           /\ p = Cardinality(Passed(q, e, key))
           /\ InsertOrdered(q, e, key) \in Seq(S)
           /\ InsertedAt(InsertOrdered(q, e, key), q, e, p)
<1>0. PICK n, p \in 0..Len(q) : n = Len(q) /\ p = Cardinality(Passed(q, e, key))
  BY PassedBound
<1>1. (\A i \in 1..n : q[i] \in S) /\ p \in Nat /\ p <= n
  <2>1. Len(q) \in Nat /\ (\A i \in 1..Len(q) : q[i] \in S)
    BY LenProperties
  <2> QED BY <2>1, <1>0
<1>2. n \in Nat
  BY <1>0, LenProperties
<1>3. PICK a : a = SubSeq(q, 1, p)
  OBVIOUS
<1>4. PICK b : b = SubSeq(q, p + 1, n)
  OBVIOUS
<1>5. a \in Seq(S) /\ Len(a) = p /\ \A i \in 1..p : a[i] = q[i]
  <2>1. \A i \in 1..p : q[i] \in S
    BY <1>1
  <2>2. /\ SubSeq(q, 1, p) \in Seq(S)
        /\ Len(SubSeq(q, 1, p)) = IF 1 <= p THEN p - 1 + 1 ELSE 0
        /\ \A i \in 1..(p - 1 + 1) : SubSeq(q, 1, p)[i] = q[1 + i - 1]
    BY <2>1, <1>1, SubSeqProperties
  <2>3. a \in Seq(S) /\ Len(a) = IF 1 <= p THEN p - 1 + 1 ELSE 0
    BY <2>2, <1>3
  <2>4. \A i \in 1..(p - 1 + 1) : a[i] = q[1 + i - 1]
    BY <2>2, <1>3
  <2> QED BY <2>3, <2>4, <1>1
<1>6. b \in Seq(S) /\ Len(b) = n - p /\ \A i \in 1..(n - p) : b[i] = q[p + i]
  <2>1. \A i \in (p + 1)..n : q[i] \in S
    BY <1>1, <1>2
  <2>2. /\ SubSeq(q, p + 1, n) \in Seq(S)
        /\ Len(SubSeq(q, p + 1, n)) = IF p + 1 <= n THEN n - (p + 1) + 1 ELSE 0
        /\ \A i \in 1..(n - (p + 1) + 1) : SubSeq(q, p + 1, n)[i] = q[p + 1 + i - 1]
    BY <2>1, <1>1, SubSeqProperties
  <2>3. b \in Seq(S) /\ Len(b) = IF p + 1 <= n THEN n - (p + 1) + 1 ELSE 0
    BY <2>2, <1>4
  <2>4. \A i \in 1..(n - (p + 1) + 1) : b[i] = q[p + 1 + i - 1]
    BY <2>2, <1>4
  <2> QED BY <2>3, <2>4, <1>1, <1>2
<1>7. PICK c : c = a \o <<e>>
  OBVIOUS
<1>8. /\ c \in Seq(S) /\ Len(c) = p + 1
      /\ \A i \in 1..(p + 1) : c[i] = IF i <= p THEN a[i] ELSE e
  <2>1. <<e>> \in Seq(S) /\ Len(<<e>>) = 1 /\ <<e>>[1] = e
    OBVIOUS
  <2>2. /\ a \o <<e>> \in Seq(S)
        /\ Len(a \o <<e>>) = Len(a) + Len(<<e>>)
        /\ \A i \in 1 .. Len(a) + Len(<<e>>) : (a \o <<e>>)[i] =
                     IF i <= Len(a) THEN a[i] ELSE <<e>>[i - Len(a)]
    BY <1>5, <2>1, ConcatProperties
  <2>3. /\ c \in Seq(S) /\ Len(c) = p + 1
        /\ \A i \in 1 .. (p + 1) : c[i] = IF i <= p THEN a[i] ELSE <<e>>[i - p]
    BY <2>2, <2>1, <1>5, <1>7
  <2> QED BY <2>1, <2>3, <1>1
<1>9. PICK s : s = c \o b
  OBVIOUS
<1>10. /\ s \in Seq(S) /\ Len(s) = n + 1
       /\ \A i \in 1..(n + 1) : s[i] = IF i <= p + 1 THEN c[i] ELSE b[i - (p + 1)]
  <2>1. /\ c \o b \in Seq(S)
        /\ Len(c \o b) = Len(c) + Len(b)
        /\ \A i \in 1 .. Len(c) + Len(b) : (c \o b)[i] =
                     IF i <= Len(c) THEN c[i] ELSE b[i - Len(c)]
    BY <1>8, <1>6, ConcatProperties
  <2>2. Len(c) + Len(b) = n + 1 /\ Len(c) = p + 1
    BY <1>8, <1>6, <1>1
  <2> QED BY <2>1, <2>2, <1>9
<1>11. \A i \in 1..(n + 1) : s[i] =
          IF i <= p THEN q[i] ELSE IF i = p + 1 THEN e ELSE q[i-1]
  <2> TAKE i \in 1..(n + 1)
  <2>1. CASE i <= p + 1
    BY <2>1, <1>1, <1>2, <1>5, <1>8, <1>10
  <2>2. CASE i > p + 1
    <3>1. i - (p + 1) \in 1..(n - p) /\ p + (i - (p + 1)) = i - 1
      BY <2>2, <1>1, <1>2
    <3>2. s[i] = b[i - (p + 1)]
      BY <2>2, <1>1, <1>10
    <3>3. b[i - (p + 1)] = q[i - 1]
      BY <3>1, <1>6
    <3> QED BY <2>2, <3>2, <3>3, <1>1, <1>2
  <2> QED BY <2>1, <2>2, <1>1
<1>12. InsertOrdered(q, e, key) = s
  BY <1>0, <1>3, <1>4, <1>7, <1>9, Zenon DEF InsertOrdered
<1>13. InsertedAt(s, q, e, p)
  BY <1>0, <1>10, <1>11 DEF InsertedAt
<1> QED BY <1>0, <1>10, <1>12, <1>13

(* list_insert_ordered adds its argument and nothing else.                 *)
LEMMA InsertOrderedProperties ==
  ASSUME NEW S, NEW q \in Seq(S), NEW e \in S, NEW key
  PROVE  /\ InsertOrdered(q, e, key) \in Seq(S)
         /\ Elems(InsertOrdered(q, e, key)) = Elems(q) \cup {e}
         /\ NoDuplicates(q) /\ e \notin Elems(q)
              => NoDuplicates(InsertOrdered(q, e, key))
<1> DEFINE s == InsertOrdered(q, e, key)
           n == Len(q)
<1>0. PICK p \in 0..Len(q) : s \in Seq(S) /\ InsertedAt(s, q, e, p)
  BY InsertOrderedShape
<1>2. n \in Nat /\ DOMAIN q = 1..n
  BY LenProperties
<1> HIDE DEF s
<1>1. /\ p \in 0..n /\ s \in Seq(S) /\ Len(s) = n + 1
      /\ \A i \in 1..(n + 1) :
           s[i] = IF i <= p THEN q[i] ELSE IF i = p + 1 THEN e ELSE q[i-1]
  BY <1>0 DEF InsertedAt
<1> HIDE DEF n
<1>3. DOMAIN s = 1..(n + 1)
  BY <1>1, LenProperties
<1>4. Elems(s) \subseteq Elems(q) \cup {e}
  <2> SUFFICES ASSUME NEW i \in 1..(n + 1) PROVE s[i] \in Elems(q) \cup {e}
    BY <1>3 DEF Elems
  <2>1. CASE i <= p  BY <2>1, <1>1, <1>2 DEF Elems
  <2>2. CASE i = p + 1  BY <2>2, <1>1, <1>2
  <2>3. CASE i > p + 1
    <3>1. i - 1 \in 1..n  BY <2>3, <1>1, <1>2
    <3>2. s[i] = q[i-1]  BY <2>3, <1>1, <1>2
    <3> QED BY <3>1, <3>2, <1>2 DEF Elems
  <2> QED BY <2>1, <2>2, <2>3, <1>1, <1>2
<1>5. Elems(q) \cup {e} \subseteq Elems(s)
  <2>1. e \in Elems(s)
    <3>1. p + 1 \in 1..(n + 1) /\ s[p + 1] = e  BY <1>1, <1>2
    <3> QED BY <3>1, <1>3 DEF Elems
  <2>2. ASSUME NEW i \in 1..n PROVE q[i] \in Elems(s)
    <3>1. CASE i <= p
      <4>1. i \in 1..(n + 1) /\ s[i] = q[i]  BY <3>1, <1>1, <1>2
      <4> QED BY <4>1, <1>3 DEF Elems
    <3>2. CASE i > p
      <4>1. i + 1 \in 1..(n + 1) /\ (i + 1) - 1 = i  BY <1>2
      <4>2. s[i + 1] = q[i]  BY <3>2, <4>1, <1>1, <1>2
      <4> QED BY <4>1, <4>2, <1>3 DEF Elems
    <3> QED BY <3>1, <3>2, <1>1, <1>2
  <2> QED BY <2>1, <2>2, <1>2 DEF Elems
<1>6. ASSUME NoDuplicates(q), e \notin Elems(q) PROVE NoDuplicates(s)
  <2> DEFINE old(i) == IF i <= p THEN i ELSE i - 1
  <2>1. \A i \in 1..(n + 1) : i # p + 1 => old(i) \in 1..n /\ s[i] = q[old(i)]
    BY <1>1, <1>2
  <2>2. \A i \in 1..(n + 1) : i # p + 1 => s[i] # e
    BY <2>1, <1>2, <1>6 DEF Elems
  <2>3. s[p + 1] = e
    BY <1>1, <1>2
  <2>4. \A i, j \in 1..(n + 1) :
          i # p + 1 /\ j # p + 1 /\ old(i) = old(j) => i = j
    BY <1>1, <1>2
  <2>5. \A i, j \in 1..n : q[i] = q[j] => i = j
    BY <1>6, <1>2 DEF NoDuplicates
  <2> HIDE DEF old
  <2> SUFFICES ASSUME NEW i \in 1..(n + 1), NEW j \in 1..(n + 1), s[i] = s[j]
               PROVE i = j
    BY <1>3 DEF NoDuplicates
  <2>6. CASE i = p + 1
    BY <2>6, <2>2, <2>3
  <2>7. CASE j = p + 1
    BY <2>7, <2>2, <2>3
  <2>8. CASE i # p + 1 /\ j # p + 1
    BY <2>8, <2>1, <2>4, <2>5
  <2> QED BY <2>6, <2>7, <2>8
<1> QED BY <1>1, <1>4, <1>5, <1>6 DEF s

-----------------------------------------------------------------------------
(* The order that sorting puts positions in is total and strict.           *)
LEMMA BeforeOrder ==
  ASSUME NEW q, NEW key, NEW I \in SUBSET Nat,
         \A i \in I : key[q[i]] \in Int
  PROVE  /\ \A i \in I : ~Before(q, key, i, i)
         /\ \A i, j \in I : i # j => Before(q, key, i, j) \/ Before(q, key, j, i)
         /\ \A h, i, j \in I :
              Before(q, key, h, i) /\ Before(q, key, i, j) => Before(q, key, h, j)
BY DEF Before

(* Different positions go to different places, and every place is taken.   *)
LEMMA PlaceBijection ==
  ASSUME NEW q, NEW key, NEW I \in SUBSET Nat, IsFiniteSet(I),
         \A i \in I : key[q[i]] \in Int
  PROVE  /\ Cardinality(I) \in Nat
         /\ \A j \in I : Place(q, I, key, j) \in 1..Cardinality(I)
         /\ \A i, j \in I : Place(q, I, key, i) = Place(q, I, key, j) => i = j
         /\ \A r \in 1..Cardinality(I) : \E j \in I : Place(q, I, key, j) = r
<1> DEFINE n == Cardinality(I)
           pred(j) == {i \in I : Before(q, key, i, j)}
           f == [j \in I |-> Place(q, I, key, j)]
<1>1. n \in Nat
  BY FS_CardinalityType
<1>2. \A j \in I : /\ IsFiniteSet(pred(j)) /\ Cardinality(pred(j)) \in Nat
                  /\ Place(q, I, key, j) = Cardinality(pred(j)) + 1
  <2> TAKE j \in I
  <2>1. pred(j) \in SUBSET I
    OBVIOUS
  <2>2. IsFiniteSet(pred(j))
    BY <2>1, FS_Subset
  <2>3. Cardinality(pred(j)) \in Nat
    BY <2>2, FS_CardinalityType
  <2> QED BY <2>2, <2>3 DEF Place
<1>3. \A j \in I : Cardinality(pred(j)) < n
  <2> TAKE j \in I
  <2>1. pred(j) \in SUBSET I /\ j \notin pred(j)
    BY BeforeOrder
  <2>2. Cardinality(pred(j)) <= n /\ (Cardinality(pred(j)) = n => pred(j) = I)
    BY <2>1, FS_Subset
  <2> QED BY <2>1, <2>2, <1>1, <1>2
<1>4. \A i, j \in I : Before(q, key, i, j) => Cardinality(pred(i)) < Cardinality(pred(j))
  <2> SUFFICES ASSUME NEW i \in I, NEW j \in I, Before(q, key, i, j)
               PROVE  Cardinality(pred(i)) < Cardinality(pred(j))
    OBVIOUS
  <2>1. pred(i) \in SUBSET pred(j)
    BY BeforeOrder
  <2>2. i \in pred(j) /\ i \notin pred(i)
    BY BeforeOrder
  <2>3. /\ Cardinality(pred(i)) <= Cardinality(pred(j))
        /\ Cardinality(pred(i)) = Cardinality(pred(j)) => pred(i) = pred(j)
    BY <2>1, <1>2, FS_Subset
  <2> QED BY <2>2, <2>3, <1>2
<1>5. \A j \in I : Place(q, I, key, j) \in 1..n
  <2> TAKE j \in I
  <2>1. /\ Cardinality(pred(j)) \in Nat /\ Cardinality(pred(j)) < n
        /\ Place(q, I, key, j) = Cardinality(pred(j)) + 1
    BY <1>2, <1>3
  <2> HIDE DEF pred, n
  <2> QED BY <2>1, <1>1
<1>6. \A i, j \in I : Place(q, I, key, i) = Place(q, I, key, j) => i = j
  <2> SUFFICES ASSUME NEW i \in I, NEW j \in I, i # j
               PROVE  Place(q, I, key, i) # Place(q, I, key, j)
    OBVIOUS
  <2>1. Before(q, key, i, j) \/ Before(q, key, j, i)
    BY BeforeOrder
  <2>2. Cardinality(pred(i)) # Cardinality(pred(j))
    BY <2>1, <1>2, <1>4
  <2>3. /\ Cardinality(pred(i)) \in Nat /\ Cardinality(pred(j)) \in Nat
        /\ Place(q, I, key, i) = Cardinality(pred(i)) + 1
        /\ Place(q, I, key, j) = Cardinality(pred(j)) + 1
    BY <1>2
  <2> HIDE DEF pred
  <2> QED BY <2>2, <2>3
<1>7. \A r \in 1..n : \E j \in I : Place(q, I, key, j) = r
  <2>1. f \in [I -> 1..n]
    BY <1>5
  <2>2. \A i, j \in I : f[i] = f[j] => i = j
    BY <1>6
  <2>3. f \in Injection(I, 1..n)
    BY <2>1, <2>2 DEF Injection, IsInjective
  <2>4. IsFiniteSet(1..n) /\ Cardinality(1..n) = n
    BY <1>1, FS_Interval
  <2>5. f \in Surjection(I, 1..n)
    BY <2>3, <2>4, FS_Injection
  <2> QED BY <2>5 DEF Surjection
<1> QED BY <1>1, <1>5, <1>6, <1>7

(* Sorting and filtering return exactly the elements at the positions they *)
(* are given.                                                              *)
LEMMA ArrangedProperties ==
  ASSUME NEW S, NEW q \in Seq(S), NEW I \in SUBSET (DOMAIN q), NEW key,
         \A i \in I : key[q[i]] \in Int
  PROVE  /\ Arranged(q, I, key) \in Seq(S)
         /\ Elems(Arranged(q, I, key)) = {q[i] : i \in I}
         /\ NoDuplicates(q) => NoDuplicates(Arranged(q, I, key))
<1> DEFINE n == Cardinality(I)
           at(r) == CHOOSE j \in I : Place(q, I, key, j) = r
           s == Arranged(q, I, key)
<1>1. Len(q) \in Nat /\ DOMAIN q = 1..Len(q) /\ \A i \in DOMAIN q : q[i] \in S
  BY LenProperties
<1>2. IsFiniteSet(I) /\ I \in SUBSET Nat
  <2>1. IsFiniteSet(1..Len(q))
    BY <1>1, FS_Interval
  <2> QED BY <1>1, <2>1, FS_Subset
<1>3. /\ n \in Nat
      /\ \A j \in I : Place(q, I, key, j) \in 1..n
      /\ \A i, j \in I : Place(q, I, key, i) = Place(q, I, key, j) => i = j
      /\ \A r \in 1..n : \E j \in I : Place(q, I, key, j) = r
  BY <1>2, PlaceBijection
<1>4. \A r \in 1..n : at(r) \in I /\ Place(q, I, key, at(r)) = r
  BY <1>3
<1>5. \A j \in I : at(Place(q, I, key, j)) = j
  BY <1>3, <1>4
<1>6. s = [r \in 1..n |-> q[at(r)]]
  BY DEF Arranged
<1> HIDE DEF at, s, n
<1>7. s \in [1..n -> S]
  BY <1>1, <1>4, <1>6
<1>8. s \in Seq(S) /\ DOMAIN s = 1..n
  BY <1>3, <1>7, SeqDef
<1>9. Elems(s) = {q[i] : i \in I}
  <2>1. \A r \in 1..n : s[r] \in {q[i] : i \in I}
    BY <1>4, <1>6
  <2>2. \A i \in I : \E r \in 1..n : s[r] = q[i]
    BY <1>3, <1>5, <1>6
  <2> QED BY <2>1, <2>2, <1>8 DEF Elems
<1>10. ASSUME NoDuplicates(q) PROVE NoDuplicates(s)
  <2> SUFFICES ASSUME NEW a \in 1..n, NEW b \in 1..n, s[a] = s[b]
               PROVE  a = b
    BY <1>8 DEF NoDuplicates
  <2>1. q[at(a)] = q[at(b)]
    BY <1>6
  <2>2. at(a) = at(b)
    BY <2>1, <1>4, <1>10 DEF NoDuplicates
  <2> QED BY <2>2, <1>4
<1> QED BY <1>8, <1>9, <1>10 DEF s

(* list_sort returns the elements it is given.                             *)
LEMMA SortedProperties ==
  ASSUME NEW S, NEW q \in Seq(S), NEW key, \A e \in S : key[e] \in Int
  PROVE  /\ Sorted(q, key) \in Seq(S)
         /\ Elems(Sorted(q, key)) = Elems(q)
         /\ NoDuplicates(q) => NoDuplicates(Sorted(q, key))
<1>1. \A i \in DOMAIN q : q[i] \in S
  BY LenProperties
<1>2. \A i \in DOMAIN q : key[q[i]] \in Int
  BY <1>1
<1>3. DOMAIN q \in SUBSET (DOMAIN q)
  OBVIOUS
<1> QED BY <1>2, <1>3, ArrangedProperties DEF Sorted, Elems

(* The front of a sorted list is the element that comes before all others. *)
LEMMA SortedFront ==
  ASSUME NEW S, NEW q \in Seq(S), NEW key, \A e \in S : key[e] \in Int,
         Sorted(q, key) # <<>>
  PROVE  \E j \in DOMAIN q :
           /\ Head(Sorted(q, key)) = q[j]
           /\ \A i \in DOMAIN q : i # j => Before(q, key, j, i)
<1> DEFINE I == DOMAIN q
           n == Cardinality(I)
           at(r) == CHOOSE j \in I : Place(q, I, key, j) = r
           s == Sorted(q, key)
<1>1. Len(q) \in Nat /\ I = 1..Len(q) /\ \A i \in I : q[i] \in S
  BY LenProperties
<1>2. IsFiniteSet(I) /\ I \in SUBSET Nat /\ \A i \in I : key[q[i]] \in Int
  BY <1>1, FS_Interval
<1>3. /\ n \in Nat
      /\ \A r \in 1..n : \E j \in I : Place(q, I, key, j) = r
  BY <1>2, PlaceBijection
<1>4. s = [r \in 1..n |-> q[at(r)]] /\ s \in Seq(S)
  BY SortedProperties DEF Sorted, Arranged
<1> HIDE DEF at, n, I, s
<1>5. 1 \in 1..n
  <2>1. Len(s) \in Nat /\ Len(s) # 0 /\ DOMAIN s = 1..Len(s)
    BY <1>4, EmptySeq, LenProperties DEF s
  <2>2. DOMAIN s = 1..n
    BY <1>4, Zenon
  <2> QED BY <1>3, <2>1, <2>2
<1>6. Head(s) = s[1]
  BY <1>4, HeadTailProperties DEF s
<1>7. PICK j \in I : j = at(1) /\ Place(q, I, key, j) = 1
  <2>1. \E j \in I : Place(q, I, key, j) = 1
    BY <1>3, <1>5
  <2>2. at(1) \in I /\ Place(q, I, key, at(1)) = 1
    BY <2>1 DEF at
  <2> QED BY <2>2
<1>8. Head(s) = q[j]
  BY <1>4, <1>5, <1>6, <1>7
<1>9. {i \in I : Before(q, key, i, j)} = {}
  <2> DEFINE P == {i \in I : Before(q, key, i, j)}
  <2>1. P \in SUBSET I
    OBVIOUS
  <2>2. IsFiniteSet(P) /\ Cardinality(P) \in Nat
    BY <1>2, <2>1, FS_Subset, FS_CardinalityType
  <2>3. Cardinality(P) + 1 = 1
    BY <1>7 DEF Place
  <2> HIDE DEF P
  <2>4. Cardinality(P) = 0
    BY <2>2, <2>3
  <2>5. P = {}
    BY <2>2, <2>4, FS_EmptySet
  <2> QED BY <2>5 DEF P
<1>10. \A i \in I : i # j => Before(q, key, j, i)
  BY <1>2, <1>9, BeforeOrder
<1> QED BY <1>8, <1>10 DEF I, s

(* Removing a set of threads from a list leaves the others.                *)
LEMMA WithoutProperties ==
  ASSUME NEW S, NEW q \in Seq(S), NEW R
  PROVE  /\ Without(q, R) \in Seq(S)
         /\ Elems(Without(q, R)) = Elems(q) \ R
         /\ NoDuplicates(q) => NoDuplicates(Without(q, R))
<1> DEFINE I == {i \in DOMAIN q : q[i] \notin R}
           zero == [e \in Elems(q) |-> 0]
<1>1. \A i \in I : zero[q[i]] \in Int
  BY DEF Elems
<1>2. I \in SUBSET (DOMAIN q)
  OBVIOUS
<1>3. {q[i] : i \in I} = Elems(q) \ R
  BY DEF Elems
<1>4. Without(q, R) = Arranged(q, I, zero)
  BY DEF Without
<1> HIDE DEF I, zero
<1> QED BY <1>1, <1>2, <1>3, <1>4, ArrangedProperties

-----------------------------------------------------------------------------
(* The scheduler.                                                          *)

(* Taking the front of a ready list leaves a ready list.                   *)
LEMMA HeadTailType ==
  ASSUME NEW S, NEW q \in Seq(S), q # <<>>
  PROVE  Head(q) \in S /\ Tail(q) \in Seq(S)
BY HeadTailProperties

(* The front of a list without duplicates is not in the rest of it.        *)
LEMMA TailElems ==
  ASSUME NEW S, NEW q \in Seq(S), q # <<>>, NoDuplicates(q)
  PROVE  /\ NoDuplicates(Tail(q))
         /\ Elems(Tail(q)) = Elems(q) \ {Head(q)}
<1>1. /\ Len(q) \in Nat /\ Len(q) # 0 /\ DOMAIN q = 1..Len(q)
      /\ Head(q) = q[1] /\ Tail(q) \in Seq(S) /\ Len(Tail(q)) = Len(q) - 1
      /\ DOMAIN Tail(q) = 1..(Len(q) - 1)
      /\ \A i \in 1..(Len(q) - 1) : Tail(q)[i] = q[i + 1]
  BY LenProperties, HeadTailProperties, EmptySeq
<1>2. NoDuplicates(Tail(q))
  BY <1>1 DEF NoDuplicates
<1>3. ASSUME NEW e \in Elems(Tail(q)) PROVE e \in Elems(q) \ {Head(q)}
  <2>1. PICK i \in 1..(Len(q) - 1) : e = q[i + 1]
    BY <1>1, <1>3 DEF Elems
  <2> QED BY <1>1, <2>1 DEF NoDuplicates, Elems
<1>4. ASSUME NEW e \in Elems(q) \ {Head(q)} PROVE e \in Elems(Tail(q))
  <2>1. PICK i \in 1..Len(q) : e = q[i] /\ i # 1
    BY <1>1, <1>4 DEF Elems
  <2>2. i - 1 \in 1..(Len(q) - 1) /\ Tail(q)[i - 1] = e
    BY <1>1, <2>1
  <2> QED BY <1>1, <2>2 DEF Elems
<1> QED BY <1>2, <1>3, <1>4

(* schedule() keeps the scheduler state well formed, ...                   *)
LEMMA ScheduleType ==
  ASSUME NEW k, SchedTypeOK(k)
  PROVE  SchedTypeOK(Schedule(k))
<1>1. CASE k.ready = <<>>
  BY <1>1 DEF Schedule, SchedTypeOK
<1>2. CASE k.ready # <<>>
  <2>1. Head(k.ready) \in Threads /\ Tail(k.ready) \in Seq(Threads)
    BY <1>2, HeadTailType DEF SchedTypeOK
  <2> QED BY <1>2, <2>1 DEF Schedule, SchedTypeOK, Status, Running
<1> QED BY <1>1, <1>2

(* ... and so do thread_block, ...                                         *)
LEMMA BlockType ==
  ASSUME NEW k, SchedTypeOK(k)
  PROVE  SchedTypeOK(Block(k))
<1>1. SchedTypeOK([k EXCEPT !.status[k.cur] = Blocked])
  BY DEF SchedTypeOK, Status, Blocked
<1> QED BY <1>1, ScheduleType DEF Block

(* ... thread_unblock, ...                                                 *)
LEMMA UnblockType ==
  ASSUME NEW k, SchedTypeOK(k), NEW prio, NEW t \in Threads
  PROVE  SchedTypeOK(Unblock(k, prio, t))
<1>1. InsertOrdered(k.ready, t, prio) \in Seq(Threads)
  BY InsertOrderedProperties DEF SchedTypeOK
<1> QED BY <1>1 DEF Unblock, SchedTypeOK, Status, Ready

(* ... thread_yield, ...                                                   *)
LEMMA YieldType ==
  ASSUME NEW k, SchedTypeOK(k), NEW prio
  PROVE  SchedTypeOK(Yield(k, prio))
<1>1. CASE k.cur = Idle
  BY <1>1, ScheduleType DEF Yield
<1>2. CASE k.cur # Idle
  <2>1. k.cur \in Threads
    BY <1>2 DEF SchedTypeOK
  <2>2. SchedTypeOK(Unblock(k, prio, k.cur))
    BY <2>1, UnblockType
  <2> QED BY <1>2, <2>2, ScheduleType DEF Yield
<1> QED BY <1>1, <1>2

(* ... and thread_comp_ready.                                              *)
LEMMA CompReadyType ==
  ASSUME NEW k, SchedTypeOK(k), NEW prio
  PROVE  SchedTypeOK(CompReady(k, prio))
BY YieldType DEF CompReady
-----------------------------------------------------------------------------
(* Every thread is where its status says; before Schedule nobody runs.     *)
Placed(k) ==
  /\ NoDuplicates(k.ready)
  /\ \A t \in Threads : /\ k.status[t] = Running <=> k.cur = t
                        /\ k.status[t] = Ready <=> t \in Elems(k.ready)
(* The same while the running thread is on its way out of the CPU.         *)
Leaving(k) ==
  /\ NoDuplicates(k.ready)
  /\ \A t \in Threads : /\ k.status[t] # Running
                        /\ k.status[t] = Ready <=> t \in Elems(k.ready)
(* The same threads are blocked.                                           *)
SameBlocked(j, k) == \A t \in Threads : j.status[t] = Blocked <=> k.status[t] = Blocked

(* schedule() puts a thread of the ready list on the CPU.                  *)
LEMMA SchedulePlaced ==
  ASSUME NEW k, SchedTypeOK(k), Leaving(k)
  PROVE  Placed(Schedule(k)) /\ SameBlocked(Schedule(k), k)
<1>1. CASE k.ready = <<>>
  <2>1. Schedule(k) = [k EXCEPT !.cur = Idle]
    BY <1>1 DEF Schedule
  <2>2. /\ Schedule(k).cur = Idle /\ Schedule(k).status = k.status
        /\ Schedule(k).ready = k.ready
    BY <2>1 DEF SchedTypeOK
  <2> QED BY <2>2, ThreadsAssumption DEF Placed, Leaving, SameBlocked
<1>2. CASE k.ready # <<>>
  <2> DEFINE h == Head(k.ready)
  <2>1. /\ h \in Threads /\ k.ready \in Seq(Threads) /\ h \in Elems(k.ready)
        /\ NoDuplicates(Tail(k.ready)) /\ Elems(Tail(k.ready)) = Elems(k.ready) \ {h}
    <3>1. k.ready \in Seq(Threads) /\ NoDuplicates(k.ready)
      BY DEF SchedTypeOK, Leaving
    <3>2. k.ready[1] = h /\ 1 \in DOMAIN k.ready
      BY <1>2, <3>1, LenProperties, EmptySeq, HeadTailProperties
    <3> QED BY <1>2, <3>1, <3>2, HeadTailType, TailElems DEF Elems
  <2>2. /\ Schedule(k).cur = h /\ Schedule(k).status = [k.status EXCEPT ![h] = Running]
        /\ Schedule(k).ready = Tail(k.ready)
    BY <1>2 DEF Schedule, SchedTypeOK
  <2>3. k.status \in [Threads -> Status] /\ k.status[h] = Ready
    BY <2>1 DEF SchedTypeOK, Leaving
  <2> HIDE DEF h
  <2>4. ASSUME NEW t \in Threads
        PROVE  /\ Schedule(k).status[t] = Running <=> h = t
               /\ Schedule(k).status[t] = Ready <=> t \in Elems(k.ready) \ {h}
               /\ Schedule(k).status[t] = Blocked <=> k.status[t] = Blocked
    BY <2>1, <2>2, <2>3 DEF Leaving, Running, Ready, Blocked
  <2> QED BY <2>1, <2>2, <2>4 DEF Placed, SameBlocked
<1> QED BY <1>1, <1>2

(* thread_block blocks the running thread and no other.                    *)
LEMMA BlockPlaced ==
  ASSUME NEW k, SchedTypeOK(k), Placed(k)
  PROVE  /\ Placed(Block(k))
         /\ \A t \in Threads :
              Block(k).status[t] = Blocked <=> k.status[t] = Blocked \/ t = k.cur
<1>1. CASE k.cur = Idle
  <2>1. Leaving(k) /\ \A t \in Threads : t # k.cur
    BY <1>1, ThreadsAssumption DEF Placed, Leaving
  <2> QED BY <1>1, <2>1, SchedulePlaced DEF Block, SameBlocked
<1>2. CASE k.cur # Idle
  <2> DEFINE j == [k EXCEPT !.status[k.cur] = Blocked]
  <2>1. /\ k.cur \in Threads /\ k.status \in [Threads -> Status]
        /\ j.status = [k.status EXCEPT ![k.cur] = Blocked] /\ j.ready = k.ready
        /\ SchedTypeOK(j) /\ Block(k) = Schedule(j)
    BY <1>2 DEF SchedTypeOK, Block, Status, Blocked
  <2> HIDE DEF j
  <2>2. Leaving(j)
    BY <2>1 DEF Placed, Leaving, Running, Ready, Blocked
  <2>3. \A t \in Threads : j.status[t] = Blocked <=> k.status[t] = Blocked \/ t = k.cur
    BY <2>1
  <2> QED BY <2>1, <2>2, <2>3, SchedulePlaced DEF SameBlocked
<1> QED BY <1>1, <1>2

(* A thread that is in no ready list goes into it.                         *)
LEMMA UnblockFields ==
  ASSUME NEW k, SchedTypeOK(k), NEW prio, NEW t \in Threads, t \notin Elems(k.ready),
         NoDuplicates(k.ready)
  PROVE  /\ Unblock(k, prio, t).cur = k.cur
         /\ Unblock(k, prio, t).status = [k.status EXCEPT ![t] = Ready]
         /\ Elems(Unblock(k, prio, t).ready) = Elems(k.ready) \cup {t}
         /\ NoDuplicates(Unblock(k, prio, t).ready)
<1>1. Unblock(k, prio, t).ready = InsertOrdered(k.ready, t, prio)
  BY DEF Unblock, SchedTypeOK
<1>2. k.ready \in Seq(Threads)
  BY DEF SchedTypeOK
<1>3. /\ Elems(InsertOrdered(k.ready, t, prio)) = Elems(k.ready) \cup {t}
      /\ NoDuplicates(InsertOrdered(k.ready, t, prio))
  BY <1>2, InsertOrderedProperties
<1> QED BY <1>1, <1>3 DEF Unblock, SchedTypeOK

(* thread_unblock makes one blocked thread ready.                          *)
LEMMA UnblockPlaced ==
  ASSUME NEW k, SchedTypeOK(k), Placed(k), NEW prio, NEW t \in Threads, k.status[t] = Blocked
  PROVE  /\ Placed(Unblock(k, prio, t))
         /\ Unblock(k, prio, t).cur = k.cur
         /\ \A u \in Threads :
              Unblock(k, prio, t).status[u] = Blocked <=> k.status[u] = Blocked /\ u # t
<1>1. t \notin Elems(k.ready) /\ NoDuplicates(k.ready) /\ k.status \in [Threads -> Status]
      /\ k.cur # t
  BY DEF Placed, SchedTypeOK, Ready, Running, Blocked
<1> DEFINE j == Unblock(k, prio, t)
<1>2. /\ j.cur = k.cur /\ j.status = [k.status EXCEPT ![t] = Ready]
      /\ Elems(j.ready) = Elems(k.ready) \cup {t} /\ NoDuplicates(j.ready)
  BY <1>1, UnblockFields
<1> HIDE DEF j
<1>3. Placed(j)
  BY <1>1, <1>2 DEF Placed, Ready, Running, Blocked
<1>4. \A u \in Threads : j.status[u] = Blocked <=> k.status[u] = Blocked /\ u # t
  BY <1>1, <1>2 DEF Ready, Blocked
<1> QED BY <1>2, <1>3, <1>4 DEF j

(* thread_yield blocks and unblocks nobody, ...                            *)
LEMMA YieldPlaced ==
  ASSUME NEW k, SchedTypeOK(k), Placed(k), NEW prio
  PROVE  Placed(Yield(k, prio)) /\ SameBlocked(Yield(k, prio), k)
<1>1. CASE k.cur = Idle
  <2>1. Leaving(k)
    BY <1>1, ThreadsAssumption DEF Placed, Leaving
  <2> QED BY <1>1, <2>1, SchedulePlaced DEF Yield
<1>2. CASE k.cur # Idle
  <2> DEFINE j == Unblock(k, prio, k.cur)
  <2>1. k.cur \in Threads /\ k.status \in [Threads -> Status] /\ k.cur \notin Elems(k.ready)
        /\ NoDuplicates(k.ready)
    BY <1>2 DEF SchedTypeOK, Placed, Ready, Running
  <2>2. SchedTypeOK(j) /\ Yield(k, prio) = Schedule(j)
    BY <1>2, <2>1, UnblockType DEF Yield
  <2>3. /\ j.status = [k.status EXCEPT ![k.cur] = Ready]
        /\ Elems(j.ready) = Elems(k.ready) \cup {k.cur} /\ NoDuplicates(j.ready)
    BY <2>1, UnblockFields
  <2> HIDE DEF j
  <2>4. k.status[k.cur] = Running
    BY <2>1 DEF Placed
  <2>5. Leaving(j) /\ SameBlocked(j, k)
    BY <2>1, <2>3, <2>4 DEF Placed, Leaving, SameBlocked, Running, Ready, Blocked
  <2> QED BY <2>2, <2>5, SchedulePlaced DEF SameBlocked
<1> QED BY <1>1, <1>2

(* ... and neither does thread_comp_ready.                                 *)
LEMMA CompReadyPlaced ==
  ASSUME NEW k, SchedTypeOK(k), Placed(k), NEW prio
  PROVE  Placed(CompReady(k, prio)) /\ SameBlocked(CompReady(k, prio), k)
<1>1. SameBlocked(k, k)
  BY DEF SameBlocked
<1> QED BY <1>1, YieldPlaced DEF CompReady

(* All threads ready, in any order that names each of them once.           *)
LEMMA AllReadyPlaced ==
  ASSUME NEW q \in [1..Cardinality(Threads) -> Threads], NoDuplicates(q)
  PROVE  /\ SchedTypeOK(AllReady(q)) /\ Placed(AllReady(q))
         /\ \A t \in Threads : AllReady(q).status[t] # Blocked
<1>1. IsFiniteSet(Threads) /\ Cardinality(Threads) \in Nat
  BY ThreadsAssumption, FS_CardinalityType
<1>2. q \in Seq(Threads)
  BY <1>1, SeqDef
<1>3. Elems(q) = Threads
  <2>1. q \in Injection(1..Cardinality(Threads), Threads)
    BY DEF NoDuplicates, Injection, IsInjective
  <2>2. IsFiniteSet(1..Cardinality(Threads)) /\ Cardinality(1..Cardinality(Threads)) = Cardinality(Threads)
    BY <1>1, FS_Interval
  <2>3. q \in Surjection(1..Cardinality(Threads), Threads)
    BY <1>1, <2>1, <2>2, FS_Injection
  <2> QED BY <2>3 DEF Surjection, Elems
<1>4. /\ AllReady(q).cur = Idle /\ AllReady(q).ready = q
      /\ \A t \in Threads : AllReady(q).status[t] = Ready
  BY DEF AllReady
<1>5. SchedTypeOK(AllReady(q))
  BY <1>2 DEF AllReady, SchedTypeOK, Status, Ready
<1> QED BY <1>3, <1>4, <1>5, ThreadsAssumption DEF Placed, Ready, Running, Blocked

-----------------------------------------------------------------------------
(* A list that runs from high to low, as insertion in order keeps it.      *)
Descending(q, key) ==
  \A i, j \in DOMAIN q : i < j => key[q[i]] >= key[q[j]]

(* Insertion goes behind everything that is not lower, up to the first     *)
(* element that is.                                                        *)
LEMMA PassedPrefix ==
  ASSUME NEW S, NEW q \in Seq(S), NEW e, NEW key
  PROVE  Passed(q, e, key) = 1..Cardinality(Passed(q, e, key))
<1> DEFINE P == Passed(q, e, key)
           p == Cardinality(P)
<1>1. Len(q) \in Nat /\ DOMAIN q = 1..Len(q)
  BY LenProperties
<1>2. P \in SUBSET (1..Len(q)) /\ \A i \in P : 1..i \in SUBSET P
  BY <1>1 DEF Passed
<1> HIDE DEF P
<1>3. IsFiniteSet(P) /\ p \in Nat
  <2>1. IsFiniteSet(1..Len(q))
    BY <1>1, FS_Interval
  <2>2. IsFiniteSet(P)
    BY <1>2, <2>1, FS_Subset
  <2> QED BY <2>2, FS_CardinalityType
<1>4. ASSUME NEW i \in P PROVE i \in 1..p
  <2>1. i \in Nat /\ i >= 1 /\ Cardinality(1..i) = i
    BY <1>1, <1>2, FS_Interval
  <2>2. Cardinality(1..i) <= p
    BY <1>2, <1>3, FS_Subset
  <2> QED BY <1>3, <2>1, <2>2
<1>5. IsFiniteSet(1..p) /\ Cardinality(1..p) = p
  BY <1>3, FS_Interval
<1>6. P \in SUBSET (1..p)
  BY <1>4
<1> QED BY <1>5, <1>6, FS_Subset DEF P

(* list_insert_ordered keeps a list in order.                              *)
LEMMA InsertOrderedKeeps ==
  ASSUME NEW S, NEW q \in Seq(S), NEW e \in S, NEW key, \A x \in S : key[x] \in Int,
         Descending(q, key)
  PROVE  Descending(InsertOrdered(q, e, key), key)
<1> DEFINE s == InsertOrdered(q, e, key)
           n == Len(q)
<1>1. PICK p \in 0..n :
        p = Cardinality(Passed(q, e, key)) /\ s \in Seq(S) /\ InsertedAt(s, q, e, p)
  BY InsertOrderedShape
<1>2. /\ n \in Nat /\ DOMAIN q = 1..n /\ key[e] \in Int
      /\ \A i \in 1..n : q[i] \in S /\ key[q[i]] \in Int
  BY LenProperties
<1>3. Passed(q, e, key) = 1..p
  BY <1>1, PassedPrefix
<1>4. \A i \in 1..p : key[q[i]] >= key[e]
  <2> TAKE i \in 1..p
  <2>1. i \in Passed(q, e, key) /\ i \in 1..i
    BY <1>3
  <2>2. ~(key[e] > key[q[i]]) /\ i \in 1..n
    BY <1>1, <1>2, <2>1 DEF Passed
  <2> QED BY <1>2, <2>2
<1>5. \A i \in (p + 1)..n : key[e] >= key[q[i]]
  <2> TAKE i \in (p + 1)..n
  <2>1. p + 1 \in 1..n /\ p + 1 \notin Passed(q, e, key)
    <3>1. n \in Nat /\ p \in 0..n /\ p + 1 \in 1..n /\ p + 1 \notin 1..p
      BY <1>2
    <3> QED BY <1>3, <3>1
  <2>2. PICK j \in 1..(p + 1) : key[e] > key[q[j]]
    BY <1>2, <2>1 DEF Passed
  <2>3. j = p + 1
    BY <1>1, <1>2, <1>4, <2>1, <2>2
  <2>4. i = p + 1 \/ key[q[p + 1]] >= key[q[i]]
    BY <1>1, <1>2, <2>1 DEF Descending
  <2>5. i \in 1..n
    BY <1>1, <1>2
  <2> QED BY <1>2, <2>1, <2>2, <2>3, <2>4, <2>5
<1> HIDE DEF s, n
<1>6. /\ Len(s) = n + 1 /\ DOMAIN s = 1..(n + 1)
      /\ \A i \in 1..(n + 1) :
           s[i] = IF i <= p THEN q[i] ELSE IF i = p + 1 THEN e ELSE q[i-1]
  <2>1. Len(s) = n + 1 /\ DOMAIN s = 1..Len(s)
    BY <1>1, LenProperties DEF InsertedAt, n
  <2> QED BY <1>1, <2>1 DEF InsertedAt, n
<1>7. ASSUME NEW i \in 1..(n + 1), NEW j \in 1..(n + 1), i < j
      PROVE  key[s[i]] >= key[s[j]]
  <2>1. \A a, b \in 1..n : a < b => key[q[a]] >= key[q[b]]
    BY <1>2 DEF Descending
  <2>2. CASE j <= p
    <3>1. i \in 1..n /\ j \in 1..n /\ i <= p
      BY <1>2, <1>7, <2>2
    <3>2. s[i] = q[i] /\ s[j] = q[j]
      BY <1>6, <2>2, <3>1
    <3> QED BY <1>7, <2>1, <3>1, <3>2
  <2>3. CASE j = p + 1
    <3>1. i \in 1..p
      BY <1>2, <1>7, <2>3
    <3>2. s[i] = q[i] /\ s[j] = e
      BY <1>2, <1>6, <2>3, <3>1
    <3> QED BY <1>4, <3>1, <3>2
  <2>4. CASE j > p + 1 /\ i = p + 1
    <3>1. j - 1 \in (p + 1)..n /\ s[j] = q[j - 1] /\ s[i] = e
      BY <1>1, <1>2, <1>6, <2>4
    <3> QED BY <1>5, <3>1
  <2>5. CASE j > p + 1 /\ i # p + 1
    <3> DEFINE a == IF i <= p THEN i ELSE i - 1
    <3>1. a \in 1..n /\ j - 1 \in 1..n /\ a < j - 1
      BY <1>2, <1>7, <2>5
    <3>2. s[i] = q[a] /\ s[j] = q[j - 1]
      BY <1>2, <1>6, <1>7, <2>5
    <3> HIDE DEF a
    <3> QED BY <2>1, <3>1, <3>2
  <2> QED BY <1>1, <1>2, <2>2, <2>3, <2>4, <2>5
<1> QED BY <1>6, <1>7 DEF Descending, s

(* The front of such a list is as high as the rest, and the rest is one.   *)
LEMMA FrontHighest ==
  ASSUME NEW S, NEW q \in Seq(S), NEW key, \A x \in S : key[x] \in Int,
         Descending(q, key), q # <<>>
  PROVE  /\ Descending(Tail(q), key)
         /\ \A e \in Elems(q) : key[e] <= key[Head(q)]
         /\ Elems(Tail(q)) \subseteq Elems(q)
<1>1. /\ Len(q) \in Nat /\ Len(q) # 0 /\ DOMAIN q = 1..Len(q)
      /\ Head(q) = q[1] /\ Tail(q) \in Seq(S) /\ Len(Tail(q)) = Len(q) - 1
      /\ DOMAIN Tail(q) = 1..(Len(q) - 1)
      /\ \A i \in 1..(Len(q) - 1) : Tail(q)[i] = q[i + 1]
      /\ \A i \in 1..Len(q) : key[q[i]] \in Int
  BY LenProperties, HeadTailProperties, EmptySeq
<1>2. Descending(Tail(q), key)
  <2> SUFFICES ASSUME NEW i \in 1..(Len(q) - 1), NEW j \in 1..(Len(q) - 1), i < j
               PROVE  key[q[i + 1]] >= key[q[j + 1]]
    BY <1>1 DEF Descending
  <2>1. i + 1 \in 1..Len(q) /\ j + 1 \in 1..Len(q) /\ i + 1 < j + 1
    BY <1>1
  <2> QED BY <1>1, <2>1 DEF Descending
<1>3. \A i \in 1..Len(q) : key[q[i]] <= key[q[1]]
  BY <1>1 DEF Descending
<1>4. Elems(Tail(q)) \subseteq Elems(q)
  <2> SUFFICES ASSUME NEW i \in 1..(Len(q) - 1) PROVE q[i + 1] \in Elems(q)
    BY <1>1 DEF Elems
  <2>1. i + 1 \in DOMAIN q
    BY <1>1
  <2> QED BY <2>1 DEF Elems
<1> QED BY <1>1, <1>2, <1>3, <1>4 DEF Elems

(* The ready list is in order and nobody in it is above the running thread.*)
HighestFirst(k, prio) ==
  /\ Descending(k.ready, prio)
  /\ k.cur # Idle => \A u \in Elems(k.ready) : prio[u] <= prio[k.cur]

(* The operations of the scheduler run a highest thread, given a list in   *)
(* order: schedule, ...                                                    *)
LEMMA ScheduleHighest ==
  ASSUME NEW k, SchedTypeOK(k), NEW prio, \A t \in Threads : prio[t] \in Int,
         Descending(k.ready, prio)
  PROVE  HighestFirst(Schedule(k), prio)
<1>1. CASE k.ready = <<>>
  <2>1. Schedule(k).cur = Idle /\ Schedule(k).ready = k.ready
    BY <1>1 DEF Schedule, SchedTypeOK
  <2> QED BY <2>1 DEF HighestFirst
<1>2. CASE k.ready # <<>>
  <2>1. k.ready \in Seq(Threads)
    BY DEF SchedTypeOK
  <2>2. Schedule(k).cur = Head(k.ready) /\ Schedule(k).ready = Tail(k.ready)
    BY <1>2 DEF Schedule, SchedTypeOK
  <2> QED BY <1>2, <2>1, <2>2, FrontHighest DEF HighestFirst
<1> QED BY <1>1, <1>2

(* ... thread_block, ...                                                   *)
LEMMA BlockHighest ==
  ASSUME NEW k, SchedTypeOK(k), NEW prio, \A t \in Threads : prio[t] \in Int,
         Descending(k.ready, prio)
  PROVE  HighestFirst(Block(k), prio)
<1> DEFINE j == [k EXCEPT !.status[k.cur] = Blocked]
<1>1. SchedTypeOK(j) /\ j.ready = k.ready
  BY DEF SchedTypeOK, Status, Blocked
<1> HIDE DEF j
<1>2. HighestFirst(Schedule(j), prio) /\ HighestFirst(Schedule(k), prio)
  BY <1>1, ScheduleHighest
<1> QED BY <1>2 DEF Block, j

(* ... thread_unblock, which only keeps the order, ...                     *)
LEMMA UnblockOrder ==
  ASSUME NEW k, SchedTypeOK(k), NEW prio, \A t \in Threads : prio[t] \in Int,
         Descending(k.ready, prio), NEW t \in Threads
  PROVE  Descending(Unblock(k, prio, t).ready, prio)
<1>1. Unblock(k, prio, t).ready = InsertOrdered(k.ready, t, prio)
  BY DEF Unblock, SchedTypeOK
<1>2. k.ready \in Seq(Threads)
  BY DEF SchedTypeOK
<1> QED BY <1>1, <1>2, InsertOrderedKeeps

(* ... thread_yield and thread_comp_ready.                                 *)
LEMMA YieldHighest ==
  ASSUME NEW k, SchedTypeOK(k), NEW prio, \A t \in Threads : prio[t] \in Int,
         Descending(k.ready, prio)
  PROVE  HighestFirst(Yield(k, prio), prio)
<1>1. CASE k.cur = Idle
  BY <1>1, ScheduleHighest DEF Yield
<1>2. CASE k.cur # Idle
  <2>1. k.cur \in Threads
    BY <1>2 DEF SchedTypeOK
  <2>2. SchedTypeOK(Unblock(k, prio, k.cur)) /\ Descending(Unblock(k, prio, k.cur).ready, prio)
    BY <2>1, UnblockType, UnblockOrder
  <2> QED BY <1>2, <2>2, ScheduleHighest DEF Yield
<1> QED BY <1>1, <1>2

LEMMA CompReadyHighest ==
  ASSUME NEW k, SchedTypeOK(k), NEW prio, \A t \in Threads : prio[t] \in Int,
         Descending(k.ready, prio)
  PROVE  HighestFirst(CompReady(k, prio), prio)
<1>1. k.ready \in Seq(Threads) /\ k.cur \in Threads \cup {Idle}
  BY DEF SchedTypeOK
<1>2. CASE k.cur # Idle /\ k.ready # <<>> /\ prio[k.cur] < prio[Head(k.ready)]
  BY <1>2, YieldHighest DEF CompReady
<1>3. CASE k.cur # Idle /\ k.ready # <<>> /\ ~(prio[k.cur] < prio[Head(k.ready)])
  <2>1. CompReady(k, prio) = k
    BY <1>3 DEF CompReady
  <2>2. Head(k.ready) \in Threads /\ \A e \in Elems(k.ready) : e \in Threads
    BY <1>1, <1>3, HeadTailType, LenProperties DEF Elems
  <2>3. \A e \in Elems(k.ready) : prio[e] <= prio[Head(k.ready)]
    BY <1>1, <1>3, FrontHighest
  <2>4. \A e \in Elems(k.ready) : prio[e] <= prio[k.cur]
    BY <1>1, <1>3, <2>2, <2>3
  <2> QED BY <2>1, <2>4 DEF HighestFirst
<1>4. CASE k.cur = Idle \/ k.ready = <<>>
  BY <1>4 DEF CompReady, HighestFirst, Elems
<1> QED BY <1>2, <1>3, <1>4

(* The ready list starts in order.                                         *)
LEMMA AllReadyHighest ==
  ASSUME NEW q, NEW prio, Descending(q, prio)
  PROVE  HighestFirst(AllReady(q), prio)
BY DEF HighestFirst, AllReady

=============================================================================
