----------------------------- MODULE SynchProofs -----------------------------
(***************************************************************************)
(* Theorems about threads/synch.c: locks, semaphores and donation          *)
(* (PriorityLocks), for any number of threads, locks and semaphores, any   *)
(* priorities and any placement of the thread structures; and condition    *)
(* variables (Monitor), which lose no signal, deliver none twice, and      *)
(* return with the lock, for any threads, priorities and other locks.      *)
(***************************************************************************)
EXTENDS Monitor, ThreadSchedProofs

-----------------------------------------------------------------------------
(* list_sort as list.c works, on lists of any length: it ends with the     *)
(* stable order that Sorted of KernelLists defines.  A merge keeps elements *)
(* with equal keys in their order because it moves one only in front of    *)
(* smaller ones, and each pass that leaves more than one run makes the     *)
(* first run longer.                                                       *)

(* What list_sort compares are numbers.                                    *)
Keyed(S, key) == \A e \in S : key[e] \in Int

(* The positions from x up to y, without y, run from high to low.          *)
Falls(q, key, x, y) == \A i, j \in x..(y - 1) : i < j => key[q[i]] >= key[q[j]]

(* p has the elements of q, each from where f says, and those with equal   *)
(* keys in the order that they have in q.                                  *)
MovedBy(p, q, key, f) ==
  /\ Len(p) = Len(q)
  /\ f \in [1..Len(q) -> 1..Len(q)]
  /\ \A i \in 1..Len(q) : p[i] = q[f[i]]
  /\ \A i, j \in 1..Len(q) : i < j => f[i] # f[j] /\ (key[p[i]] = key[p[j]] => f[i] < f[j])

Reordered(p, q, key) == \E f : MovedBy(p, q, key, f)

(* A list is a reordering of itself, and of what it is a reordering of a   *)
(* reordering of.                                                          *)
LEMMA ReorderedSelf ==
  ASSUME NEW S, NEW q \in Seq(S), NEW key
  PROVE  Reordered(q, q, key)
<1> DEFINE f == [i \in 1..Len(q) |-> i]
<1>1. Len(q) \in Nat
  BY LenProperties
<1>2. MovedBy(q, q, key, f)
  BY <1>1 DEF MovedBy
<1> QED BY <1>2 DEF Reordered

LEMMA ReorderedAgain ==
  ASSUME NEW S, NEW q \in Seq(S), NEW p \in Seq(S), NEW r \in Seq(S), NEW key,
         Reordered(p, q, key), Reordered(r, p, key)
  PROVE  Reordered(r, q, key)
<1>1. PICK f : MovedBy(p, q, key, f)
  BY DEF Reordered
<1>2. PICK g : MovedBy(r, p, key, g)
  BY DEF Reordered
<1> DEFINE n == Len(q)
           h == [i \in 1..n |-> f[g[i]]]
<1>3. n \in Nat /\ Len(p) = n /\ Len(r) = n
  BY <1>1, <1>2, LenProperties DEF MovedBy
<1>4. f \in [1..n -> 1..n] /\ g \in [1..n -> 1..n]
  BY <1>1, <1>2, <1>3 DEF MovedBy
<1>5. \A i \in 1..n : p[i] = q[f[i]] /\ r[i] = p[g[i]]
  BY <1>1, <1>2, <1>3 DEF MovedBy
<1>6. \A i, j \in 1..n : i < j => f[i] # f[j] /\ (key[p[i]] = key[p[j]] => f[i] < f[j])
  BY <1>1 DEF MovedBy
<1>7. \A i, j \in 1..n : i < j => g[i] # g[j] /\ (key[r[i]] = key[r[j]] => g[i] < g[j])
  BY <1>2, <1>3 DEF MovedBy
<1> HIDE DEF n
<1>8. \A i \in 1..n : g[i] \in 1..n /\ h[i] = f[g[i]] /\ h[i] \in 1..n /\ r[i] = q[h[i]]
  BY <1>4, <1>5
<1>9. h \in [1..n -> 1..n]
  BY <1>4
<1>10. ASSUME NEW i \in 1..n, NEW j \in 1..n, i < j
       PROVE  h[i] # h[j] /\ (key[r[i]] = key[r[j]] => h[i] < h[j])
  <2>1. g[i] \in 1..n /\ g[j] \in 1..n /\ g[i] # g[j]
    BY <1>4, <1>7, <1>10
  <2>2. f[g[i]] # f[g[j]]
    <3>1. CASE g[i] < g[j]
      BY <3>1, <2>1, <1>6
    <3>2. CASE g[j] < g[i]
      BY <3>2, <2>1, <1>6
    <3> QED BY <3>1, <3>2, <2>1
  <2>3. ASSUME key[r[i]] = key[r[j]] PROVE f[g[i]] < f[g[j]]
    <3>1. g[i] < g[j]
      BY <2>3, <1>7, <1>10
    <3>2. key[p[g[i]]] = key[p[g[j]]]
      BY <2>3, <1>5
    <3> QED BY <3>1, <3>2, <2>1, <1>6
  <2> QED BY <2>2, <2>3, <1>8
<1> HIDE DEF h
<1>11. MovedBy(r, q, key, h)
  BY <1>3, <1>8, <1>9, <1>10 DEF MovedBy, n
<1> QED BY <1>11 DEF Reordered

(* A list that falls and reorders q is q sorted: as many elements stand    *)
(* before one as come before it.                                           *)
LEMMA ReorderedSorted ==
  ASSUME NEW S, NEW q \in Seq(S), NEW p \in Seq(S), NEW key, Keyed(S, key),
         Reordered(p, q, key), Falls(p, key, 1, Len(q) + 1)
  PROVE  p = Sorted(q, key)
<1>1. PICK f : MovedBy(p, q, key, f)
  BY DEF Reordered
<1> DEFINE n == Len(q)
           I == DOMAIN q
           at(r) == CHOOSE j \in I : Place(q, I, key, j) = r
<1>2. n \in Nat /\ I = 1..n /\ Len(p) = n /\ DOMAIN p = 1..n
  BY <1>1, LenProperties DEF MovedBy
<1>3. \A i \in 1..n : key[q[i]] \in Int /\ key[p[i]] \in Int
  BY <1>2, LenProperties DEF Keyed
<1>4. IsFiniteSet(I) /\ Cardinality(I) = n /\ I \in SUBSET Nat
  <2>1. IsFiniteSet(1..n) /\ Cardinality(1..n) = IF 1 > n THEN 0 ELSE n - 1 + 1
    <3> HIDE DEF n
    <3>1. 1 \in Int /\ n \in Int
      BY <1>2
    <3> QED BY <3>1, FS_Interval
  <2> HIDE DEF n
  <2> QED BY <2>1, <1>2
<1>5. f \in [1..n -> 1..n] /\ \A i \in 1..n : p[i] = q[f[i]]
  BY <1>1 DEF MovedBy
<1>6. \A i, j \in 1..n : i < j => f[i] # f[j] /\ (key[p[i]] = key[p[j]] => f[i] < f[j])
  BY <1>1 DEF MovedBy
<1>7. \A i, j \in 1..n : i < j => key[p[i]] >= key[p[j]]
  BY <1>2 DEF Falls
<1> HIDE DEF n
<1>8. \A i, j \in 1..n : i < j => Before(q, key, f[i], f[j])
  BY <1>3, <1>5, <1>6, <1>7 DEF Before
<1>9. f \in Injection(1..n, 1..n)
  BY <1>2, <1>5, <1>6 DEF Injection, IsInjective
<1>10. \A j \in 1..n : \E i \in 1..n : f[i] = j
  <2>1. f \in Surjection(1..n, 1..n)
    BY <1>2, <1>4, <1>9, FS_Injection
  <2> QED BY <2>1 DEF Surjection
<1>11. ASSUME NEW r \in 1..n PROVE f[r] \in I /\ Place(q, I, key, f[r]) = r
  <2> DEFINE D == {i \in I : Before(q, key, i, f[r])}
             g == [i \in 1..(r - 1) |-> f[i]]
  <2>1. f[r] \in I
    BY <1>2, <1>5
  <2>2. \A i \in 1..(r - 1) : i \in 1..n /\ i < r
    BY <1>2
  <2>3. \A i \in 1..(r - 1) : f[i] \in D
    BY <2>2, <1>2, <1>5, <1>8
  <2>4. ASSUME NEW j \in D PROVE \E i \in 1..(r - 1) : f[i] = j
    <3>1. PICK i \in 1..n : f[i] = j
      BY <1>2, <1>10
    <3>2. ~(r < i)
      <4>1. SUFFICES ASSUME r < i PROVE FALSE
        OBVIOUS
      <4>2. Before(q, key, f[r], f[i]) /\ Before(q, key, f[i], f[r])
        BY <4>1, <3>1, <1>8
      <4> QED BY <4>2, <2>1, <3>1, <1>2, <1>3, <1>5 DEF Before
    <3>3. i # r
      <4>1. ~Before(q, key, f[r], f[r])
        BY <2>1, <1>2, <1>3 DEF Before
      <4> QED BY <4>1, <3>1
    <3> QED BY <3>1, <3>2, <3>3, <1>2
  <2>5. g \in Bijection(1..(r - 1), D)
    <3>1. g \in [1..(r - 1) -> D]
      BY <2>3
    <3>2. \A i, j \in 1..(r - 1) : g[i] = g[j] => i = j
      BY <2>2, <1>2, <1>6
    <3>3. \A j \in D : \E i \in 1..(r - 1) : g[i] = j
      BY <2>4
    <3> HIDE DEF D, g
    <3> QED BY <3>1, <3>2, <3>3 DEF Bijection, Injection, IsInjective, Surjection
  <2>6. IsFiniteSet(1..(r - 1)) /\ Cardinality(1..(r - 1)) = r - 1
    <3>1. 1 \in Int /\ r - 1 \in Int
      BY <1>2
    <3>2. IsFiniteSet(1..(r - 1)) /\ Cardinality(1..(r - 1)) = IF 1 > r - 1 THEN 0 ELSE r - 1 - 1 + 1
      BY <3>1, FS_Interval
    <3> QED BY <3>2, <1>2
  <2>7. Cardinality(D) = r - 1
    <3>1. ExistsBijection(1..(r - 1), D)
      BY <2>5 DEF ExistsBijection
    <3> QED BY <3>1, <2>6, FS_Bijection
  <2> QED BY <2>1, <2>7, <1>2 DEF Place
<1>12. \A r \in 1..n : at(r) = f[r]
  <2>1. \A i, j \in I : Place(q, I, key, i) = Place(q, I, key, j) => i = j
    <3>1. \A i \in I : key[q[i]] \in Int
      BY <1>2, <1>3
    <3> HIDE DEF I
    <3> QED BY <3>1, <1>4, PlaceBijection
  <2> QED BY <2>1, <1>11
<1>13. Sorted(q, key) = [r \in 1..n |-> q[at(r)]]
  BY <1>4 DEF Sorted, Arranged
<1> HIDE DEF at, I
<1>14. Sorted(q, key) = [r \in 1..n |-> p[r]]
  BY <1>5, <1>12, <1>13
<1>15. p = [r \in 1..n |-> p[r]]
  BY <1>2, LenProperties
<1> QED BY <1>14, <1>15

(* To move an element in front of smaller ones keeps equal keys in order.  *)
LEMMA SplicedReorders ==
  ASSUME NEW S, NEW q \in Seq(S), NEW key, Keyed(S, key),
         NEW to \in 1..Len(q), NEW from \in 1..Len(q), to < from,
         \A i \in to..(from - 1) : key[q[from]] > key[q[i]]
  PROVE  Spliced(q, to, from) \in Seq(S) /\ Reordered(Spliced(q, to, from), q, key)
<1> DEFINE n == Len(q)
           f == [i \in 1..n |-> IF i = to THEN from ELSE IF i \in (to + 1)..from THEN i - 1 ELSE i]
           p == Spliced(q, to, from)
<1>1. n \in Nat /\ DOMAIN q = 1..n /\ \A i \in 1..n : q[i] \in S
  BY LenProperties
<1>2. p = [i \in 1..n |-> CASE i = to -> q[from] [] i \in (to + 1)..from -> q[i - 1] [] OTHER -> q[i]]
  BY <1>1 DEF Spliced
<1> HIDE DEF p
<1>3. f \in [1..n -> 1..n]
  BY <1>1
<1>4. \A i \in 1..n : p[i] = q[f[i]]
  <2> TAKE i \in 1..n
  <2>1. CASE i = to
    BY <2>1, <1>2
  <2>2. CASE i # to /\ i \in (to + 1)..from
    BY <2>2, <1>2
  <2>3. CASE i # to /\ i \notin (to + 1)..from
    BY <2>3, <1>2
  <2> QED BY <2>1, <2>2, <2>3
<1>5. \A i, j \in 1..n : i < j => f[i] # f[j]
  BY <1>1
<1>6. \A i, j \in 1..n : i < j /\ ~(f[i] < f[j]) => i = to /\ f[i] = from /\ f[j] \in to..(from - 1)
  BY <1>1
<1>7. p \in Seq(S) /\ Len(p) = n
  <2>1. p \in [1..n -> S]
    <3>1. \A i \in 1..n : p[i] \in S
      BY <1>1, <1>3, <1>4
    <3>2. p = [i \in 1..n |-> p[i]]
      BY <1>2
    <3> QED BY <3>1, <3>2
  <2>2. p \in Seq(S)
    BY <2>1, <1>1, SeqDef
  <2>3. Len(p) \in Nat /\ 1..Len(p) = 1..n
    BY <2>1, <2>2, LenProperties
  <2> HIDE DEF n
  <2> QED BY <2>2, <2>3, <1>1
<1> HIDE DEF f
<1>8. ASSUME NEW i \in 1..n, NEW j \in 1..n, i < j, key[p[i]] = key[p[j]]
      PROVE  f[i] < f[j]
  <2> SUFFICES ASSUME ~(f[i] < f[j]) PROVE FALSE
    OBVIOUS
  <2>1. f[i] = from /\ f[j] \in to..(from - 1)
    BY <1>6, <1>8
  <2>2. key[p[i]] = key[q[from]] /\ key[p[j]] = key[q[f[j]]]
    BY <2>1, <1>4
  <2>3. key[q[from]] > key[q[f[j]]] /\ key[q[from]] \in Int /\ key[q[f[j]]] \in Int
    BY <2>1, <1>1, <1>3 DEF Keyed
  <2> QED BY <2>2, <2>3, <1>8
<1>9. MovedBy(p, q, key, f)
  BY <1>3, <1>4, <1>5, <1>7, <1>8 DEF MovedBy
<1> QED BY <1>7, <1>9 DEF Reordered, p

(* Neighbours that fall make a row that falls.                             *)
LEMMA NeighboursFall ==
  ASSUME NEW q, NEW key, NEW a \in Nat, NEW b \in Nat,
         \A i \in a..(b - 1) : key[q[i]] \in Int,
         \A i \in (a + 1)..(b - 1) : key[q[i - 1]] >= key[q[i]]
  PROVE  Falls(q, key, a, b)
<1> DEFINE P == {d \in Nat : \A i \in a..(b - 1) : i + d < b => key[q[i]] >= key[q[i + d]]}
<1>1. 0 \in P
  OBVIOUS
<1>2. ASSUME NEW d \in Nat, d \in P PROVE d + 1 \in P
  <2> SUFFICES ASSUME NEW i \in a..(b - 1), i + (d + 1) < b
               PROVE  key[q[i]] >= key[q[i + (d + 1)]]
    OBVIOUS
  <2>1. /\ i + d \in a..(b - 1) /\ i + d < b /\ i + (d + 1) \in (a + 1)..(b - 1)
        /\ (i + (d + 1)) - 1 = i + d
    OBVIOUS
  <2>2. key[q[i]] >= key[q[i + d]]
    BY <2>1, <1>2
  <2>3. key[q[i + d]] >= key[q[i + (d + 1)]]
    BY <2>1
  <2>4. key[q[i]] \in Int /\ key[q[i + d]] \in Int /\ key[q[i + (d + 1)]] \in Int
    BY <2>1
  <2> QED BY <2>2, <2>3, <2>4
<1> HIDE DEF P
<1>3. \A d \in Nat : d \in P
  BY <1>1, <1>2, SetInduction
<1>4. ASSUME NEW i \in a..(b - 1), NEW j \in a..(b - 1), i < j
      PROVE  key[q[i]] >= key[q[j]]
  <2>1. j - i \in Nat /\ i + (j - i) = j /\ j < b
    BY <1>4
  <2>2. j - i \in P
    BY <2>1, <1>3
  <2> QED BY <2>1, <2>2 DEF P
<1> QED BY <1>4 DEF Falls

(* A set of positions has a first one.                                     *)
LEMMA FirstOf ==
  ASSUME NEW a \in Nat, NEW b \in Nat, NEW T \in SUBSET (a..b), b \in T
  PROVE  \E x \in T : \A y \in T : x <= y
<1> SUFFICES ASSUME \A x \in T : \E y \in T : y < x PROVE FALSE
  OBVIOUS
<1> DEFINE P == {d \in Nat : \E x \in T : x + d <= b}
<1>1. 0 \in P
  OBVIOUS
<1>2. ASSUME NEW d \in Nat, d \in P PROVE d + 1 \in P
  <2>1. PICK x \in T : x + d <= b
    BY <1>2
  <2>2. PICK y \in T : y < x
    OBVIOUS
  <2>3. y + (d + 1) <= b
    BY <2>1, <2>2
  <2> QED BY <2>3
<1> HIDE DEF P
<1>3. b + 1 \in P
  BY <1>1, <1>2, SetInduction
<1>4. PICK x \in T : x + (b + 1) <= b
  BY <1>3 DEF P
<1> QED BY <1>4

(* find_end_of_run finds the end of a run, and not before a given one.     *)
LEMMA RunEnds ==
  ASSUME NEW S, NEW q \in Seq(S), NEW key, Keyed(S, key),
         NEW a \in 1..Len(q), NEW b \in 1..(Len(q) + 1), a < b
  PROVE  /\ EndOfRun(q, key, a, b) \in (a + 1)..b
         /\ Falls(q, key, a, EndOfRun(q, key, a, b))
         /\ \A c \in (a + 1)..b : Falls(q, key, a, c) => c <= EndOfRun(q, key, a, b)
<1> DEFINE T == {i \in (a + 1)..b : i = b \/ Less(q, key, i, i - 1)}
<1>1. Len(q) \in Nat /\ \A i \in 1..Len(q) : key[q[i]] \in Int
  BY LenProperties DEF Keyed
<1>2. T \in SUBSET ((a + 1)..b) /\ b \in T
  BY <1>1
<1> HIDE DEF T
<1>3. \E x \in T : \A y \in T : x <= y
  <2>1. a + 1 \in Nat /\ b \in Nat
    BY <1>1
  <2> QED BY <2>1, <1>2, FirstOf
<1>4. PICK e : e = EndOfRun(q, key, a, b)
  OBVIOUS
<1>5. e = Min(T)
  BY <1>4 DEF EndOfRun, T
<1>6. e \in T /\ \A y \in T : e <= y
  BY <1>3, <1>5 DEF Min
<1>7. e \in (a + 1)..b
  BY <1>2, <1>6
<1>8. Falls(q, key, a, e)
  <2>1. \A i \in (a + 1)..(e - 1) : i \in (a + 1)..b /\ i # b /\ ~(e <= i)
    BY <1>1, <1>7
  <2>2. \A i \in (a + 1)..(e - 1) : ~Less(q, key, i, i - 1)
    BY <2>1, <1>6 DEF T
  <2>3. \A i \in a..(e - 1) : key[q[i]] \in Int
    BY <1>1, <1>7
  <2>4. \A i \in (a + 1)..(e - 1) : key[q[i - 1]] >= key[q[i]]
    BY <2>2, <2>3, <1>1, <1>7 DEF Less
  <2>5. a \in Nat /\ e \in Nat
    BY <1>1, <1>7
  <2> QED BY <2>3, <2>4, <2>5, NeighboursFall
<1>9. ASSUME NEW c \in (a + 1)..b, Falls(q, key, a, c) PROVE c <= e
  <2> SUFFICES ASSUME e < c PROVE FALSE
    BY <1>1, <1>7
  <2>1. e # b /\ e \in a..(c - 1) /\ e - 1 \in a..(c - 1) /\ e - 1 < e
    BY <1>1, <1>7
  <2>2. Less(q, key, e, e - 1)
    BY <2>1, <1>6 DEF T
  <2>3. key[q[e - 1]] >= key[q[e]]
    BY <2>1, <1>9 DEF Falls
  <2>4. key[q[e]] \in Int /\ key[q[e - 1]] \in Int
    BY <2>1, <1>1
  <2> QED BY <2>2, <2>3, <2>4 DEF Less
<1> QED BY <1>4, <1>7, <1>8, <1>9

(* An element of the second run that is above the rest of the first goes   *)
(* in front of it.                                                         *)
LEMMA SplicedFalls ==
  ASSUME NEW S, NEW p \in Seq(S), NEW key, Keyed(S, key),
         NEW a \in 1..Len(p), NEW b \in 1..(Len(p) + 1), NEW x \in a..(b - 1), NEW y \in (x + 1)..(b - 1),
         Falls(p, key, a, y), Falls(p, key, y, b), key[p[y]] > key[p[x]],
         \A i \in a..(x - 1), j \in y..(b - 1) : key[p[i]] >= key[p[j]]
  PROVE  /\ \A i \in 1..Len(p) : i \notin a..(b - 1) => Spliced(p, x, y)[i] = p[i]
         /\ Falls(Spliced(p, x, y), key, a, y + 1) /\ Falls(Spliced(p, x, y), key, y + 1, b)
         /\ \A i \in a..x, j \in (y + 1)..(b - 1) : key[Spliced(p, x, y)[i]] >= key[Spliced(p, x, y)[j]]
<1> DEFINE n == Len(p)
           s == Spliced(p, x, y)
<1>1. /\ n \in Nat /\ DOMAIN p = 1..n /\ \A i \in 1..n : key[p[i]] \in Int
  BY LenProperties DEF Keyed
<1>2. /\ a \in Nat /\ b \in Nat /\ x \in Nat /\ y \in Nat
      /\ 1 <= a /\ a <= x /\ x < y /\ y < b /\ b <= n + 1
  BY <1>1
<1>3. s = [i \in 1..n |-> CASE i = x -> p[y] [] i \in (x + 1)..y -> p[i - 1] [] OTHER -> p[i]]
  BY <1>1 DEF Spliced
<1> HIDE DEF n, s
<1>4. s[x] = p[y]
  <2>1. x \in 1..n
    BY <1>1, <1>2
  <2> QED BY <2>1, <1>3
<1>5. ASSUME NEW i \in 1..n, x < i, i <= y PROVE s[i] = p[i - 1]
  <2>1. i # x /\ i \in (x + 1)..y
    BY <1>1, <1>2, <1>5
  <2> QED BY <2>1, <1>3
<1>6. ASSUME NEW i \in 1..n, i < x \/ y < i PROVE s[i] = p[i]
  <2>1. i # x /\ i \notin (x + 1)..y
    BY <1>1, <1>2, <1>6
  <2> QED BY <2>1, <1>3
<1>7. ASSUME NEW i \in 1..n, NEW j \in 1..n, a <= i, i < j, j < y PROVE key[p[i]] >= key[p[j]]
  <2>1. i \in a..(y - 1) /\ j \in a..(y - 1)
    BY <1>1, <1>2, <1>7
  <2> QED BY <2>1, <1>7 DEF Falls
<1>8. ASSUME NEW i \in 1..n, NEW j \in 1..n, y <= i, i < j, j < b PROVE key[p[i]] >= key[p[j]]
  <2>1. i \in y..(b - 1) /\ j \in y..(b - 1)
    BY <1>1, <1>2, <1>8
  <2> QED BY <2>1, <1>8 DEF Falls
<1>9. ASSUME NEW i \in 1..n, NEW j \in 1..n, a <= i, i < x, y <= j, j < b PROVE key[p[i]] >= key[p[j]]
  <2>1. i \in a..(x - 1) /\ j \in y..(b - 1)
    BY <1>1, <1>2, <1>9
  <2> QED BY <2>1
<1>10. x \in 1..n /\ y \in 1..n
  BY <1>1, <1>2
<1>11. ASSUME NEW i \in 1..n, x <= i, i < y PROVE key[p[y]] >= key[p[i]]
  <2>1. i = x \/ key[p[x]] >= key[p[i]]
    BY <1>2, <1>7, <1>10, <1>11
  <2>2. key[p[x]] \in Int /\ key[p[y]] \in Int /\ key[p[i]] \in Int
    BY <1>1, <1>10
  <2> QED BY <2>1, <2>2
<1>12. ASSUME NEW i \in 1..n, i \notin a..(b - 1) PROVE s[i] = p[i]
  <2>1. i < x \/ y < i
    BY <1>1, <1>2, <1>12
  <2> QED BY <2>1, <1>6
<1>13. ASSUME NEW i \in a..((y + 1) - 1), NEW j \in a..((y + 1) - 1), i < j PROVE key[s[i]] >= key[s[j]]
  <2>1. i \in 1..n /\ j \in 1..n /\ a <= i /\ i < j /\ j <= y
    BY <1>1, <1>2, <1>13
  <2>2. CASE j < x
    <3>1. i < x /\ j < y
      BY <2>1, <2>2, <1>2
    <3> QED BY <3>1, <2>1, <2>2, <1>6, <1>7
  <2>3. CASE j = x
    <3>1. i < x /\ y <= y /\ y < b
      BY <2>1, <2>3, <1>2
    <3> QED BY <3>1, <2>1, <2>3, <1>4, <1>6, <1>9, <1>10
  <2>4. CASE x < j
    <3>1. /\ j - 1 \in 1..n /\ s[j] = p[j - 1] /\ x <= j - 1 /\ j - 1 < y
      <4>1. j - 1 \in 1..n /\ x <= j - 1 /\ j - 1 < y
        BY <2>1, <2>4, <1>1, <1>2
      <4> QED BY <4>1, <2>1, <2>4, <1>5
    <3>2. CASE i < x
      <4>1. s[i] = p[i] /\ i < j - 1
        BY <2>1, <3>1, <3>2, <1>2, <1>6
      <4> QED BY <4>1, <3>1, <2>1, <1>7
    <3>3. CASE i = x
      BY <3>1, <3>3, <1>4, <1>11
    <3>4. CASE x < i
      <4>1. i <= y /\ i - 1 \in 1..n /\ i - 1 < j - 1 /\ a <= i - 1
        BY <2>1, <3>4, <1>1, <1>2
      <4>2. s[i] = p[i - 1]
        BY <4>1, <2>1, <3>4, <1>5
      <4> QED BY <4>1, <4>2, <3>1, <1>7
    <3> QED BY <3>2, <3>3, <3>4, <2>1, <1>2
  <2> QED BY <2>2, <2>3, <2>4, <2>1, <1>2
<1>14. ASSUME NEW i \in (y + 1)..(b - 1), NEW j \in (y + 1)..(b - 1), i < j PROVE key[s[i]] >= key[s[j]]
  <2>1. i \in 1..n /\ j \in 1..n /\ y < i /\ y < j /\ y <= i /\ j < b
    BY <1>1, <1>2
  <2> QED BY <2>1, <1>6, <1>8, <1>14
<1>15. ASSUME NEW i \in a..x, NEW j \in (y + 1)..(b - 1) PROVE key[s[i]] >= key[s[j]]
  <2>1. i \in 1..n /\ j \in 1..n /\ a <= i /\ (i < x \/ i = x) /\ y < j /\ y <= j /\ j < b /\ y <= y
    BY <1>1, <1>2
  <2>2. s[j] = p[j]
    BY <2>1, <1>6
  <2>3. CASE i < x
    BY <2>1, <2>2, <2>3, <1>6, <1>9
  <2>4. CASE i = x
    BY <2>1, <2>2, <2>4, <1>4, <1>8, <1>10
  <2> QED BY <2>1, <2>3, <2>4
<1>16. Falls(s, key, a, y + 1) /\ Falls(s, key, y + 1, b)
  BY <1>13, <1>14 DEF Falls
<1> QED BY <1>12, <1>15, <1>16 DEF n, s

(* While runs are merged: q has been reordered between a and b only, what  *)
(* has been merged and the rest of the first run fall, so does the second  *)
(* run, and nothing in it is above what has been merged.                   *)
MergeState(S) == [list : Seq(S), a0 : Nat, a1b0 : Nat]

MergeKept(S, m, q, key, a, b) ==
  /\ m \in MergeState(S)
  /\ Reordered(m.list, q, key)
  /\ \A i \in 1..Len(q) : i \notin a..(b - 1) => m.list[i] = q[i]
  /\ m.a0 \in a..b /\ m.a1b0 \in m.a0..b
  /\ Falls(m.list, key, a, m.a1b0) /\ Falls(m.list, key, m.a1b0, b)
  /\ \A i \in a..(m.a0 - 1), j \in m.a1b0..(b - 1) : key[m.list[i]] >= key[m.list[j]]

MergeEnded(m, b) == m.a0 = m.a1b0 \/ m.a1b0 = b

(* A round leaves the element at a0 where it is, or moves one before it.   *)
LEMMA MergeRoundKeeps ==
  ASSUME NEW S, NEW q \in Seq(S), NEW key, Keyed(S, key),
         NEW a \in 1..Len(q), NEW b \in 1..(Len(q) + 1), NEW m, MergeKept(S, m, q, key, a, b)
  PROVE  /\ MergeKept(S, MergeRound(m, key, b), q, key, a, b)
         /\ IF MergeEnded(m, b) THEN MergeRound(m, key, b) = m
            ELSE MergeRound(m, key, b).a0 = m.a0 + 1
<1> DEFINE p == m.list
           n == Len(q)
           r == MergeRound(m, key, b)
<1>1. /\ m \in MergeState(S) /\ p \in Seq(S) /\ Reordered(p, q, key)
      /\ \A i \in 1..n : i \notin a..(b - 1) => p[i] = q[i]
      /\ m.a0 \in a..b /\ m.a1b0 \in m.a0..b
      /\ \A i, j \in a..(m.a1b0 - 1) : i < j => key[p[i]] >= key[p[j]]
      /\ \A i, j \in m.a1b0..(b - 1) : i < j => key[p[i]] >= key[p[j]]
      /\ \A i \in a..(m.a0 - 1), j \in m.a1b0..(b - 1) : key[p[i]] >= key[p[j]]
  BY DEF MergeKept, MergeState, Falls
<1>2. n \in Nat /\ Len(p) = n /\ \A i \in 1..n : key[p[i]] \in Int
  <2>1. Len(p) = n
    BY <1>1 DEF Reordered, MovedBy
  <2> QED BY <2>1, <1>1, LenProperties DEF Keyed
<1>3. CASE MergeEnded(m, b)
  BY <1>3 DEF MergeEnded, MergeRound
<1>4. CASE ~MergeEnded(m, b)
  <2> HIDE DEF n, p
  <2>1. /\ m.a0 < m.a1b0 /\ m.a1b0 < b /\ m.a0 \in 1..n /\ m.a1b0 \in 1..n
        /\ m.a0 \in a..(b - 1) /\ m.a0 + 1 \in a..b /\ m.a1b0 \in (m.a0 + 1)..b
        /\ m.a0 \in Nat /\ m.a1b0 \in Nat /\ b <= n + 1 /\ a >= 1
        /\ n \in Nat /\ a \in Nat /\ b \in Nat
    BY <1>1, <1>2, <1>4 DEF MergeEnded, n
  <2>2. CASE Stays(p, key, m.a0, m.a1b0)
    <3>1. r = [m EXCEPT !.a0 = @ + 1]
      BY <1>4, <2>2 DEF MergeRound, MergeEnded, p
    <3>2. r \in MergeState(S) /\ r.list = p /\ r.a0 = m.a0 + 1 /\ r.a1b0 = m.a1b0
      <4>1. DOMAIN m = {"list", "a0", "a1b0"} /\ m.list \in Seq(S) /\ m.a0 + 1 \in Nat /\ m.a1b0 \in Nat
        BY <2>1, <1>1 DEF MergeState
      <4>2. r = [list |-> m.list, a0 |-> m.a0 + 1, a1b0 |-> m.a1b0]
        <5> HIDE DEF r
        <5>1. m = [list |-> m.list, a0 |-> m.a0, a1b0 |-> m.a1b0]
          BY <1>1 DEF MergeState
        <5> QED BY <5>1, <3>1
      <4> HIDE DEF r
      <4> QED BY <4>1, <4>2 DEF MergeState, p
    <3>3. key[p[m.a0]] >= key[p[m.a1b0]]
      BY <2>1, <2>2, <1>2 DEF Stays, Less
    <3>4. \A j \in m.a1b0..(b - 1) : key[p[m.a0]] >= key[p[j]]
      <4> TAKE j \in m.a1b0..(b - 1)
      <4>1. j \in 1..n /\ m.a1b0 \in m.a1b0..(b - 1)
        BY <2>1
      <4>2. key[p[m.a1b0]] >= key[p[j]]
        BY <4>1, <1>1, <1>2
      <4>3. key[p[m.a0]] \in Int /\ key[p[m.a1b0]] \in Int /\ key[p[j]] \in Int
        BY <4>1, <2>1, <1>2
      <4> QED BY <4>2, <4>3, <3>3
    <3>5. \A i \in a..((m.a0 + 1) - 1), j \in m.a1b0..(b - 1) : key[p[i]] >= key[p[j]]
      <4> TAKE i \in a..((m.a0 + 1) - 1), j \in m.a1b0..(b - 1)
      <4>1. i = m.a0 \/ i \in a..(m.a0 - 1)
        BY <2>1
      <4> QED BY <4>1, <3>4, <1>1
    <3> HIDE DEF r
    <3> QED BY <3>2, <3>5, <2>1, <1>1, <1>4 DEF MergeKept, Falls, n, r
  <2>3. CASE ~Stays(p, key, m.a0, m.a1b0)
    <3> DEFINE s == Spliced(p, m.a0, m.a1b0)
    <3>1. r = [list |-> s, a0 |-> m.a0 + 1, a1b0 |-> m.a1b0 + 1]
      BY <1>4, <2>3 DEF MergeRound, MergeEnded, p
    <3>2. \A i \in m.a0..(m.a1b0 - 1) : key[p[m.a1b0]] > key[p[i]]
      <4> TAKE i \in m.a0..(m.a1b0 - 1)
      <4>1. key[p[m.a1b0]] > key[p[m.a0]]
        BY <2>3 DEF Stays, Less
      <4>2. i \in 1..n /\ i \in a..(m.a1b0 - 1) /\ m.a0 \in a..(m.a1b0 - 1)
        BY <2>1
      <4>3. key[p[m.a0]] \in Int /\ key[p[m.a1b0]] \in Int /\ key[p[i]] \in Int
        BY <4>2, <2>1, <1>2
      <4>4. i = m.a0 \/ key[p[m.a0]] >= key[p[i]]
        BY <4>2, <2>1, <1>1
      <4> QED BY <4>1, <4>3, <4>4
    <3>3. s \in Seq(S) /\ Reordered(s, p, key)
      BY <3>2, <2>1, <1>1, <1>2, SplicedReorders
    <3>4. Reordered(s, q, key)
      BY <3>3, <1>1, ReorderedAgain
    <3>5. /\ \A i \in 1..n : i \notin a..(b - 1) => s[i] = p[i]
          /\ Falls(s, key, a, m.a1b0 + 1) /\ Falls(s, key, m.a1b0 + 1, b)
          /\ \A i \in a..m.a0, j \in (m.a1b0 + 1)..(b - 1) : key[s[i]] >= key[s[j]]
      <4>1. Falls(p, key, a, m.a1b0) /\ Falls(p, key, m.a1b0, b)
        BY DEF MergeKept, p
      <4>2. key[p[m.a1b0]] > key[p[m.a0]]
        BY <2>3 DEF Stays, Less
      <4>3. m.a0 \in a..(b - 1) /\ m.a1b0 \in (m.a0 + 1)..(b - 1)
        BY <2>1
      <4> HIDE DEF s
      <4>4. ASSUME NEW x, x = m.a0, NEW y, y = m.a1b0
            PROVE  /\ \A i \in 1..n : i \notin a..(b - 1) => s[i] = p[i]
                   /\ Falls(s, key, a, y + 1) /\ Falls(s, key, y + 1, b)
                   /\ \A i \in a..x, j \in (y + 1)..(b - 1) : key[s[i]] >= key[s[j]]
        <5>1. /\ p \in Seq(S) /\ a \in 1..Len(p) /\ b \in 1..(Len(p) + 1)
              /\ x \in a..(b - 1) /\ y \in (x + 1)..(b - 1)
              /\ Falls(p, key, a, y) /\ Falls(p, key, y, b) /\ key[p[y]] > key[p[x]]
              /\ \A i \in a..(x - 1), j \in y..(b - 1) : key[p[i]] >= key[p[j]]
          BY <4>1, <4>2, <4>3, <4>4, <1>1, <1>2 DEF n
        <5>2. /\ \A i \in 1..Len(p) : i \notin a..(b - 1) => Spliced(p, x, y)[i] = p[i]
              /\ Falls(Spliced(p, x, y), key, a, y + 1) /\ Falls(Spliced(p, x, y), key, y + 1, b)
              /\ \A i \in a..x, j \in (y + 1)..(b - 1) : key[Spliced(p, x, y)[i]] >= key[Spliced(p, x, y)[j]]
          BY <5>1, SplicedFalls
        <5>3. s = Spliced(p, x, y)
          BY <4>4 DEF s
        <5> QED BY <5>2, <5>3, <1>2, Zenon
      <4> QED BY <4>4
    <3>6. r \in MergeState(S) /\ r.list = s /\ r.a0 = m.a0 + 1 /\ r.a1b0 = m.a1b0 + 1
      BY <3>1, <3>3, <2>1 DEF MergeState
    <3> HIDE DEF s, r
    <3>7. \A i \in 1..n : i \notin a..(b - 1) => s[i] = q[i]
      BY <3>5, <1>1
    <3>12. \A i \in a..((m.a0 + 1) - 1), j \in (m.a1b0 + 1)..(b - 1) : key[s[i]] >= key[s[j]]
      <4>1. a..((m.a0 + 1) - 1) = a..m.a0
        BY <2>1
      <4> QED BY <4>1, <3>5
    <3>13. m.a1b0 + 1 \in (m.a0 + 1)..b
      BY <2>1
    <3>14. m.a0 + 1 \in a..b
      BY <2>1
    <3> QED BY <3>4, <3>5, <3>6, <3>7, <3>12, <3>13, <3>14, <1>4 DEF MergeKept, n, r
  <2> QED BY <2>2, <2>3
<1> QED BY <1>3, <1>4

(* The rounds of a loop are the function that its definition describes.    *)
MergingIs(q, key, a, c, b, N, f) ==
  f = [n \in 0..N |-> IF n = 0 THEN [list |-> q, a0 |-> a, a1b0 |-> c]
                      ELSE MergeRound(f[n - 1], key, b)]

LEMMA MergingDef ==
  ASSUME NEW q, NEW key, NEW a \in Nat, NEW c, NEW b \in Nat, a <= b
  PROVE  MergingIs(q, key, a, c, b, b - a, Merging(q, key, a, c, b))
<1> DEFINE P == {n \in Nat : \E f : MergingIs(q, key, a, c, b, n, f)}
<1>1. 0 \in P
  <2>1. MergingIs(q, key, a, c, b, 0, [i \in 0..0 |-> [list |-> q, a0 |-> a, a1b0 |-> c]])
    BY DEF MergingIs
  <2> QED BY <2>1
<1>2. ASSUME NEW n \in Nat, n \in P PROVE n + 1 \in P
  <2>1. PICK f : MergingIs(q, key, a, c, b, n, f)
    BY <1>2
  <2> DEFINE g == [i \in 0..(n + 1) |-> IF i = n + 1 THEN MergeRound(f[n], key, b) ELSE f[i]]
  <2>2. MergingIs(q, key, a, c, b, n + 1, g)
    BY <2>1 DEF MergingIs
  <2> QED BY <2>2
<1>3. \E f : MergingIs(q, key, a, c, b, b - a, f)
  <2> HIDE DEF P
  <2>1. b - a \in P
    BY <1>1, <1>2, SetInduction
  <2> QED BY <2>1 DEF P
<1>4. Merging(q, key, a, c, b) = CHOOSE f : MergingIs(q, key, a, c, b, b - a, f)
  BY DEF Merging, MergingIs
<1> QED BY <1>3, <1>4

(* inplace_merge of two runs that fall is one that does.                   *)
LEMMA MergedFalls ==
  ASSUME NEW S, NEW q \in Seq(S), NEW key, Keyed(S, key),
         NEW a \in 1..Len(q), NEW b \in 1..(Len(q) + 1), NEW c \in (a + 1)..(b - 1),
         Falls(q, key, a, c), Falls(q, key, c, b)
  PROVE  /\ Merged(q, key, a, c, b) \in Seq(S)
         /\ Reordered(Merged(q, key, a, c, b), q, key)
         /\ \A i \in 1..Len(q) : i \notin a..(b - 1) => Merged(q, key, a, c, b)[i] = q[i]
         /\ Falls(Merged(q, key, a, c, b), key, a, b)
<1> DEFINE N == b - a
           M(n) == Merging(q, key, a, c, b)[n]
           P == {n \in Nat : n <= N => /\ MergeKept(S, M(n), q, key, a, b)
                                       /\ MergeEnded(M(n), b) \/ M(n).a0 = a + n}
<1>1. Len(q) \in Nat /\ a \in Nat /\ b \in Nat /\ c \in Nat /\ 1 <= a /\ a < c /\ c < b /\ b <= Len(q) + 1
  BY LenProperties
<1>2. N \in Nat
  BY <1>1
<1>3. MergingIs(q, key, a, c, b, N, Merging(q, key, a, c, b))
  BY <1>1, MergingDef
<1> HIDE DEF N, P
<1>4. 0 \in P
  <2> DEFINE m == [list |-> q, a0 |-> a, a1b0 |-> c]
  <2>1. Merging(q, key, a, c, b)[0] = m
    <3>1. 0 \in 0..N
      BY <1>2
    <3> QED BY <1>3, <3>1 DEF MergingIs
  <2>2. m \in MergeState(S) /\ Reordered(q, q, key)
    BY <1>1, ReorderedSelf DEF MergeState
  <2>3. a \in a..b /\ c \in a..b /\ \A i \in a..(a - 1) : FALSE
    BY <1>1
  <2>4. MergeKept(S, m, q, key, a, b)
    BY <2>2, <2>3 DEF MergeKept
  <2>5. m.a0 = a + 0
    BY <1>1
  <2> HIDE DEF m
  <2> QED BY <2>1, <2>4, <2>5 DEF P
<1>5. ASSUME NEW n \in Nat, n \in P PROVE n + 1 \in P
  <2> SUFFICES ASSUME n + 1 <= N
               PROVE  /\ MergeKept(S, M(n + 1), q, key, a, b)
                      /\ MergeEnded(M(n + 1), b) \/ M(n + 1).a0 = a + (n + 1)
    BY DEF P
  <2>1. PICK m : /\ m = Merging(q, key, a, c, b)[n] /\ MergeKept(S, m, q, key, a, b)
                 /\ MergeEnded(m, b) \/ m.a0 = a + n
    <3>1. n <= N
      BY <1>2
    <3>2. MergeKept(S, M(n), q, key, a, b) /\ (MergeEnded(M(n), b) \/ M(n).a0 = a + n)
      BY <1>5, <3>1 DEF P
    <3> QED BY <3>2
  <2>2. Merging(q, key, a, c, b)[n + 1] = MergeRound(m, key, b)
    <3>1. n + 1 \in 0..N /\ n + 1 # 0 /\ (n + 1) - 1 = n
      BY <1>2
    <3> QED BY <1>3, <2>1, <3>1 DEF MergingIs
  <2>3. /\ MergeKept(S, MergeRound(m, key, b), q, key, a, b)
        /\ IF MergeEnded(m, b) THEN MergeRound(m, key, b) = m
           ELSE MergeRound(m, key, b).a0 = m.a0 + 1
    BY <2>1, MergeRoundKeeps
  <2>4. MergeEnded(MergeRound(m, key, b), b) \/ MergeRound(m, key, b).a0 = a + (n + 1)
    <3>1. CASE MergeEnded(m, b)
      BY <2>3, <3>1
    <3>2. CASE ~MergeEnded(m, b)
      BY <2>1, <2>3, <3>2, <1>1
    <3> QED BY <3>1, <3>2
  <2> QED BY <2>2, <2>3, <2>4
<1>6. N \in P
  BY <1>2, <1>4, <1>5, SetInduction
<1>7. PICK m : /\ m = Merging(q, key, a, c, b)[N] /\ MergeKept(S, m, q, key, a, b)
               /\ MergeEnded(m, b) \/ m.a0 = a + N
  <2>1. N <= N
    BY <1>2
  <2>2. MergeKept(S, M(N), q, key, a, b) /\ (MergeEnded(M(N), b) \/ M(N).a0 = a + N)
    BY <1>6, <2>1 DEF P
  <2> QED BY <2>2
<1> DEFINE p == m.list
<1>8. Merged(q, key, a, c, b) = p
  BY <1>7 DEF Merged, N
<1>9. /\ p \in Seq(S) /\ Reordered(p, q, key)
      /\ \A i \in 1..Len(q) : i \notin a..(b - 1) => p[i] = q[i]
      /\ m.a0 \in a..b /\ m.a1b0 \in m.a0..b
      /\ Falls(p, key, a, m.a1b0) /\ Falls(p, key, m.a1b0, b)
      /\ \A i \in a..(m.a0 - 1), j \in m.a1b0..(b - 1) : key[p[i]] >= key[p[j]]
  BY <1>7 DEF MergeKept, MergeState
<1>10. m.a1b0 = b \/ m.a0 = m.a1b0
  BY <1>1, <1>7, <1>9 DEF MergeEnded, N
<1> HIDE DEF p
<1>11. Falls(p, key, a, b)
  <2>1. CASE m.a1b0 = b
    BY <2>1, <1>9
  <2>2. CASE m.a0 = m.a1b0
    <3>1. PICK x : x = m.a0
      OBVIOUS
    <3>2. /\ x \in a..b /\ Falls(p, key, a, x) /\ Falls(p, key, x, b)
          /\ \A i \in a..(x - 1), j \in x..(b - 1) : key[p[i]] >= key[p[j]]
      BY <2>2, <3>1, <1>9
    <3>3. ASSUME NEW i \in a..(b - 1), NEW j \in a..(b - 1), i < j PROVE key[p[i]] >= key[p[j]]
      <4>1. x \in Nat
        BY <3>2, <1>1
      <4>2. CASE j < x
        <5>1. i \in a..(x - 1) /\ j \in a..(x - 1)
          BY <4>1, <4>2, <3>3, <1>1
        <5> QED BY <5>1, <3>2, <3>3 DEF Falls
      <4>3. CASE i < x /\ x <= j
        <5>1. i \in a..(x - 1) /\ j \in x..(b - 1)
          BY <4>1, <4>3, <3>3, <1>1
        <5> QED BY <5>1, <3>2
      <4>4. CASE x <= i
        <5>1. i \in x..(b - 1) /\ j \in x..(b - 1)
          BY <4>1, <4>4, <3>3, <1>1
        <5> QED BY <5>1, <3>2, <3>3 DEF Falls
      <4> QED BY <4>1, <4>2, <4>3, <4>4, <1>1
    <3> QED BY <3>3 DEF Falls
  <2> QED BY <1>10, <2>1, <2>2
<1> QED BY <1>8, <1>9, <1>11

(* A pass merges the first two runs into one, up to SecondEnd, and leaves  *)
(* that alone from then on.                                                *)
FirstEnd(q, key) == EndOfRun(q, key, 1, Len(q) + 1)

SecondEnd(q, key) ==
  IF FirstEnd(q, key) = Len(q) + 1 THEN Len(q) + 1
  ELSE EndOfRun(q, key, FirstEnd(q, key), Len(q) + 1)

PassState(S) == [list : Seq(S), a0 : Nat, runs : Nat]

PassKept(S, p, q, key) ==
  /\ p \in PassState(S)
  /\ Reordered(p.list, q, key)
  /\ p.a0 \in 1..(Len(q) + 1)
  /\ \/ p.runs = 0 /\ p.a0 = 1 /\ p.list = q
     \/ /\ p.runs >= 1 /\ SecondEnd(q, key) \in Nat /\ Falls(p.list, key, 1, SecondEnd(q, key))
        /\ IF p.runs = 1 THEN p.a0 = SecondEnd(q, key) ELSE SecondEnd(q, key) < p.a0

LEMMA PassRoundKeeps ==
  ASSUME NEW S, NEW q \in Seq(S), NEW key, Keyed(S, key), NEW p, PassKept(S, p, q, key)
  PROVE  /\ PassKept(S, PassRound(p, key), q, key)
         /\ IF p.a0 = Len(q) + 1 THEN PassRound(p, key) = p
            ELSE PassRound(p, key).a0 > p.a0
<1> DEFINE l == p.list
           end == Len(q) + 1
           r == PassRound(p, key)
<1>1. /\ p = [list |-> l, a0 |-> p.a0, runs |-> p.runs] /\ p.a0 \in Nat /\ p.runs \in Nat
      /\ l \in Seq(S) /\ Reordered(l, q, key) /\ p.a0 \in 1..end
  BY DEF PassKept, PassState
<1>2. Len(q) \in Nat /\ Len(l) = Len(q)
  <2>1. Len(l) = Len(q)
    BY <1>1 DEF Reordered, MovedBy
  <2> QED BY <2>1, LenProperties
<1> HIDE DEF l
<1>3. CASE p.a0 = end
  <2>1. r = p
    BY <1>2, <1>3 DEF PassRound, l
  <2> QED BY <2>1, <1>3
<1>4. CASE p.a0 # end
  <2>1. PICK a : a = p.a0
    OBVIOUS
  <2>2. a \in 1..Len(q) /\ end \in 1..(Len(q) + 1) /\ a < end /\ a \in Nat /\ end \in Nat
    BY <2>1, <1>1, <1>2, <1>4
  <2>3. PICK c : c = EndOfRun(l, key, a, end)
    OBVIOUS
  <2>4. c \in (a + 1)..end /\ Falls(l, key, a, c)
    BY <2>2, <2>3, <1>1, <1>2, RunEnds
  <2>5. p.runs # 0 => /\ p.runs >= 1 /\ SecondEnd(q, key) \in Nat /\ SecondEnd(q, key) <= a
                      /\ Falls(l, key, 1, SecondEnd(q, key))
    BY <2>1, <2>2 DEF PassKept, l
  <2>6. p.runs = 0 => l = q /\ a = 1
    BY <2>1 DEF PassKept, l
  <2>7. CASE c = end
    <3>2. r = [list |-> l, a0 |-> end, runs |-> p.runs + 1]
      BY <2>1, <2>3, <2>7, <1>2, <1>4 DEF PassRound, l
    <3>3. /\ r \in PassState(S) /\ r.list = l /\ r.a0 = end /\ r.runs = p.runs + 1
          /\ r.runs >= 1 /\ (r.runs = 1 <=> p.runs = 0)
      BY <3>2, <2>2, <1>1 DEF PassState
    <3> HIDE DEF r
    <3>4. p.runs = 0 => SecondEnd(q, key) = end /\ Falls(l, key, 1, end)
      BY <2>3, <2>4, <2>6, <2>7 DEF SecondEnd, FirstEnd
    <3>5. SecondEnd(q, key) \in Nat /\ Falls(l, key, 1, SecondEnd(q, key))
          /\ IF r.runs = 1 THEN end = SecondEnd(q, key) ELSE SecondEnd(q, key) < end
      BY <3>3, <3>4, <2>2, <2>5
    <3>6. PassKept(S, r, q, key)
      BY <3>3, <3>5, <2>2, <1>1 DEF PassKept
    <3> QED BY <3>3, <3>6, <2>1, <2>2, <1>4 DEF r
  <2>8. CASE c # end
    <3>1. PICK b : b = EndOfRun(l, key, c, end)
      OBVIOUS
    <3>2. c \in 1..Len(q) /\ c < end /\ c \in (a + 1)..(end - 1)
      BY <2>2, <2>4, <2>8
    <3>3. b \in (c + 1)..end /\ Falls(l, key, c, b)
      BY <3>1, <3>2, <2>2, <1>1, <1>2, RunEnds
    <3>4. c \in (a + 1)..(b - 1) /\ b \in 1..(Len(q) + 1) /\ b \in Nat /\ a < b
      BY <3>2, <3>3, <2>2
    <3>5. PICK s : s = Merged(l, key, a, c, b)
      OBVIOUS
    <3>6. /\ s \in Seq(S) /\ Reordered(s, l, key) /\ Falls(s, key, a, b)
          /\ \A i \in 1..Len(l) : i \notin a..(b - 1) => s[i] = l[i]
      <4>1. l \in Seq(S) /\ a \in 1..Len(l) /\ b \in 1..(Len(l) + 1)
        BY <3>4, <2>2, <1>1, <1>2
      <4> QED BY <4>1, <3>3, <3>4, <3>5, <2>4, MergedFalls
    <3>7. Reordered(s, q, key)
      BY <3>6, <1>1, ReorderedAgain
    <3>8. r = [list |-> s, a0 |-> b, runs |-> p.runs + 1]
      BY <3>1, <3>5, <2>1, <2>3, <2>8, <1>2, <1>4 DEF PassRound, l
    <3>9. /\ r \in PassState(S) /\ r.list = s /\ r.a0 = b /\ r.runs = p.runs + 1
          /\ r.runs >= 1 /\ (r.runs = 1 <=> p.runs = 0)
      BY <3>4, <3>6, <3>8, <1>1 DEF PassState
    <3> HIDE DEF r
    <3>10. CASE p.runs = 0
      <4>1. l = q /\ a = 1
        BY <3>10, <2>6
      <4>2. SecondEnd(q, key) = b
        BY <4>1, <3>1, <2>3, <2>8 DEF SecondEnd, FirstEnd
      <4>3. SecondEnd(q, key) \in Nat /\ Falls(s, key, 1, SecondEnd(q, key)) /\ b = SecondEnd(q, key)
        BY <4>1, <4>2, <3>4, <3>6
      <4> QED BY <4>3, <3>4, <3>7, <3>9, <3>10, <2>1, <1>4 DEF PassKept, r
    <3>11. CASE p.runs # 0
      <4>1. PICK e : e = SecondEnd(q, key)
        OBVIOUS
      <4>2. e \in Nat /\ e <= a /\ e < b /\ Falls(l, key, 1, e)
        BY <4>1, <3>4, <3>11, <2>2, <2>5
      <4>3. \A i \in 1..(e - 1) : s[i] = l[i]
        <5> TAKE i \in 1..(e - 1)
        <5>1. i \in 1..Len(l) /\ i \notin a..(b - 1)
          BY <4>2, <2>2, <1>2
        <5> QED BY <5>1, <3>6
      <4>4. Falls(s, key, 1, e)
        BY <4>2, <4>3 DEF Falls
      <4> QED BY <4>1, <4>2, <4>4, <3>4, <3>7, <3>9, <3>11, <2>1, <1>4 DEF PassKept, r
    <3> QED BY <3>10, <3>11
  <2> QED BY <2>7, <2>8
<1> QED BY <1>3, <1>4

PassingIs(q, key, N, f) ==
  f = [n \in 0..N |-> IF n = 0 THEN [list |-> q, a0 |-> 1, runs |-> 0] ELSE PassRound(f[n - 1], key)]

LEMMA PassingDef ==
  ASSUME NEW S, NEW q \in Seq(S), NEW key
  PROVE  PassingIs(q, key, Len(q), Passing(q, key))
<1> DEFINE P == {n \in Nat : \E f : PassingIs(q, key, n, f)}
<1>1. 0 \in P
  <2>1. PassingIs(q, key, 0, [i \in 0..0 |-> [list |-> q, a0 |-> 1, runs |-> 0]])
    BY DEF PassingIs
  <2> QED BY <2>1
<1>2. ASSUME NEW n \in Nat, n \in P PROVE n + 1 \in P
  <2>1. PICK f : PassingIs(q, key, n, f)
    BY <1>2
  <2> DEFINE g == [i \in 0..(n + 1) |-> IF i = n + 1 THEN PassRound(f[n], key) ELSE f[i]]
  <2>2. PassingIs(q, key, n + 1, g)
    BY <2>1 DEF PassingIs
  <2> QED BY <2>2
<1>3. \E f : PassingIs(q, key, Len(q), f)
  <2> HIDE DEF P
  <2>1. Len(q) \in P
    BY <1>1, <1>2, SetInduction, LenProperties
  <2> QED BY <2>1 DEF P
<1>4. Passing(q, key) = CHOOSE f : PassingIs(q, key, Len(q), f)
  BY DEF Passing, PassingIs
<1> QED BY <1>3, <1>4

(* A pass that leaves one run has put the list in order; one that leaves   *)
(* more has made the first run longer.                                     *)
LEMMA PassProgress ==
  ASSUME NEW S, NEW q \in Seq(S), NEW key, Keyed(S, key)
  PROVE  /\ Pass(q, key) \in PassState(S)
         /\ Reordered(Pass(q, key).list, q, key)
         /\ Pass(q, key).runs <= 1 => Falls(Pass(q, key).list, key, 1, Len(q) + 1)
         /\ Pass(q, key).runs > 1 =>
              /\ FirstEnd(q, key) \in 2..(Len(q) + 1)
              /\ FirstEnd(Pass(q, key).list, key) \in 2..(Len(q) + 1)
              /\ FirstEnd(Pass(q, key).list, key) > FirstEnd(q, key)
<1> DEFINE N == Len(q)
           M(n) == Passing(q, key)[n]
           P == {n \in Nat : n <= N => PassKept(S, M(n), q, key) /\ (M(n).a0 = N + 1 \/ M(n).a0 > n)}
<1>1. N \in Nat
  BY LenProperties
<1>2. PassingIs(q, key, N, Passing(q, key))
  BY PassingDef
<1> HIDE DEF N, P
<1>3. 0 \in P
  <2> DEFINE m == [list |-> q, a0 |-> 1, runs |-> 0]
  <2>1. M(0) = m
    <3>1. 0 \in 0..N
      BY <1>1
    <3> QED BY <1>2, <3>1 DEF PassingIs
  <2>2. m \in PassState(S) /\ Reordered(q, q, key) /\ 1 \in 1..(Len(q) + 1)
    BY <1>1, ReorderedSelf DEF PassState, N
  <2>3. PassKept(S, m, q, key)
    BY <2>2 DEF PassKept
  <2>4. m.a0 > 0
    OBVIOUS
  <2> HIDE DEF m
  <2> QED BY <2>1, <2>3, <2>4 DEF P
<1>4. ASSUME NEW n \in Nat, n \in P PROVE n + 1 \in P
  <2> SUFFICES ASSUME n + 1 <= N
               PROVE  PassKept(S, M(n + 1), q, key) /\ (M(n + 1).a0 = N + 1 \/ M(n + 1).a0 > n + 1)
    BY DEF P
  <2>1. PICK m : m = Passing(q, key)[n] /\ PassKept(S, m, q, key) /\ (m.a0 = N + 1 \/ m.a0 > n)
    <3>1. n <= N
      BY <1>1
    <3>2. PassKept(S, M(n), q, key) /\ (M(n).a0 = N + 1 \/ M(n).a0 > n)
      BY <1>4, <3>1 DEF P
    <3> QED BY <3>2
  <2>2. M(n + 1) = PassRound(m, key)
    <3>1. n + 1 \in 0..N /\ n + 1 # 0 /\ (n + 1) - 1 = n
      BY <1>1
    <3> QED BY <1>2, <2>1, <3>1 DEF PassingIs
  <2>3. /\ PassKept(S, PassRound(m, key), q, key)
        /\ IF m.a0 = N + 1 THEN PassRound(m, key) = m ELSE PassRound(m, key).a0 > m.a0
    BY <2>1, PassRoundKeeps DEF N
  <2>4. m.a0 \in Nat /\ PassRound(m, key).a0 \in Nat
    BY <2>1, <2>3 DEF PassKept, PassState
  <2>5. PassRound(m, key).a0 = N + 1 \/ PassRound(m, key).a0 > n + 1
    <3>1. CASE m.a0 = N + 1
      BY <2>3, <3>1
    <3>2. CASE m.a0 # N + 1
      BY <2>1, <2>3, <2>4, <3>2
    <3> QED BY <3>1, <3>2
  <2> QED BY <2>2, <2>3, <2>5
<1>5. N \in P
  BY <1>1, <1>3, <1>4, SetInduction
<1>6. PICK m : m = Passing(q, key)[N] /\ PassKept(S, m, q, key) /\ (m.a0 = N + 1 \/ m.a0 > N)
  <2>1. N <= N
    BY <1>1
  <2>2. PassKept(S, M(N), q, key) /\ (M(N).a0 = N + 1 \/ M(N).a0 > N)
    BY <1>5, <2>1 DEF P
  <2> QED BY <2>2
<1>7. Pass(q, key) = m
  BY <1>6 DEF Pass, N
<1> DEFINE l == m.list
           e == SecondEnd(q, key)
<1>8. /\ m \in PassState(S) /\ m.runs \in Nat /\ l \in Seq(S) /\ Reordered(l, q, key)
      /\ \/ m.runs = 0 /\ m.a0 = 1 /\ l = q
         \/ /\ m.runs >= 1 /\ e \in Nat /\ Falls(l, key, 1, e)
            /\ IF m.runs = 1 THEN m.a0 = e ELSE e < m.a0
  BY <1>6 DEF PassKept, PassState
<1>9. m.a0 = N + 1 /\ Len(l) = N
  <2>1. m.a0 \in 1..(N + 1)
    BY <1>6 DEF PassKept, N
  <2>2. Len(l) = N
    BY <1>8 DEF Reordered, MovedBy, N
  <2> QED BY <2>1, <2>2, <1>1, <1>6
<1> HIDE DEF l, e
<1>10. ASSUME m.runs <= 1 PROVE Falls(l, key, 1, N + 1)
  <2>1. CASE m.runs = 0
    <3>1. N = 0
      BY <2>1, <1>1, <1>8, <1>9
    <3> QED BY <3>1 DEF Falls
  <2>2. CASE m.runs = 1
    BY <2>2, <1>8, <1>9
  <2> QED BY <2>1, <2>2, <1>8, <1>10
<1>11. ASSUME m.runs > 1
       PROVE  /\ FirstEnd(q, key) \in 2..(N + 1) /\ FirstEnd(l, key) \in 2..(N + 1)
              /\ FirstEnd(l, key) > FirstEnd(q, key)
  <2>1. e \in Nat /\ e < N + 1 /\ Falls(l, key, 1, e)
    BY <1>8, <1>9, <1>11
  <2>2. CASE N = 0
    <3>1. m = [list |-> q, a0 |-> 1, runs |-> 0]
      BY <1>2, <1>6, <2>2 DEF PassingIs
    <3> QED BY <3>1, <1>11
  <2>3. CASE N # 0
    <3>1. 1 \in 1..N /\ N + 1 \in 1..(N + 1) /\ 1 < N + 1
      BY <2>3, <1>1
    <3>2. PICK c : c = FirstEnd(q, key)
      OBVIOUS
    <3>3. c \in 2..(N + 1)
      <4>1. c = EndOfRun(q, key, 1, N + 1)
        BY <3>2 DEF FirstEnd, N
      <4>2. EndOfRun(q, key, 1, N + 1) \in (1 + 1)..(N + 1)
        BY <3>1, RunEnds DEF N
      <4> QED BY <4>1, <4>2
    <3>4. c # N + 1 /\ e = EndOfRun(q, key, c, N + 1)
      BY <2>1, <3>2, <1>1 DEF SecondEnd, e, N
    <3>5. c \in 1..N /\ c < N + 1
      BY <3>3, <3>4, <1>1
    <3>6. e \in (c + 1)..(N + 1)
      BY <3>1, <3>4, <3>5, RunEnds DEF N
    <3>7. e \in (1 + 1)..(N + 1) /\ e > c
      BY <3>3, <3>6, <1>1
    <3>8. /\ EndOfRun(l, key, 1, N + 1) \in (1 + 1)..(N + 1)
          /\ e <= EndOfRun(l, key, 1, N + 1)
      BY <2>1, <3>1, <3>7, <1>8, <1>9, RunEnds
    <3>9. FirstEnd(l, key) = EndOfRun(l, key, 1, N + 1)
      BY <1>9 DEF FirstEnd
    <3> QED BY <3>2, <3>3, <3>7, <3>8, <3>9, <1>1
  <2> QED BY <2>2, <2>3
<1> QED BY <1>7, <1>8, <1>10, <1>11 DEF l, N

SortingIs(q, key, N, f) ==
  f = [n \in 0..N |-> IF n = 0 THEN Pass(q, key) ELSE SortRound(f[n - 1], key)]

LEMMA SortingDef ==
  ASSUME NEW S, NEW q \in Seq(S), NEW key
  PROVE  SortingIs(q, key, Len(q), Sorting(q, key))
<1> DEFINE P == {n \in Nat : \E f : SortingIs(q, key, n, f)}
<1>1. 0 \in P
  <2>1. SortingIs(q, key, 0, [i \in 0..0 |-> Pass(q, key)])
    BY DEF SortingIs
  <2> QED BY <2>1
<1>2. ASSUME NEW n \in Nat, n \in P PROVE n + 1 \in P
  <2>1. PICK f : SortingIs(q, key, n, f)
    BY <1>2
  <2> DEFINE g == [i \in 0..(n + 1) |-> IF i = n + 1 THEN SortRound(f[n], key) ELSE f[i]]
  <2>2. SortingIs(q, key, n + 1, g)
    BY <2>1 DEF SortingIs
  <2> QED BY <2>2
<1>3. \E f : SortingIs(q, key, Len(q), f)
  <2> HIDE DEF P
  <2>1. Len(q) \in P
    BY <1>1, <1>2, SetInduction, LenProperties
  <2> QED BY <2>1 DEF P
<1>4. Sorting(q, key) = CHOOSE f : SortingIs(q, key, Len(q), f)
  BY DEF Sorting, SortingIs
<1> QED BY <1>3, <1>4

SortKept(S, q, key, n, m) ==
  /\ m \in PassState(S) /\ Reordered(m.list, q, key)
  /\ m.runs <= 1 => Falls(m.list, key, 1, Len(q) + 1)
  /\ m.runs > 1 => FirstEnd(m.list, key) \in (n + 3)..(Len(q) + 1)

(* list_sort of a list of any length ends, and sorts it stably.            *)
THEOREM MergeSortCorrect ==
  ASSUME NEW S, NEW q \in Seq(S), NEW key, Keyed(S, key)
  PROVE  SortsStably(q, key)
<1> DEFINE N == Len(q)
           M(n) == Sorting(q, key)[n]
           P == {n \in Nat : n <= N => SortKept(S, q, key, n, M(n))}
<1>1. N \in Nat
  BY LenProperties
<1>2. SortingIs(q, key, N, Sorting(q, key))
  BY SortingDef
<1> HIDE DEF N, P
<1>3. 0 \in P
  <2>1. PICK m : m = Pass(q, key)
    OBVIOUS
  <2>2. M(0) = m
    <3>1. 0 \in 0..N
      BY <1>1
    <3> QED BY <1>2, <2>1, <3>1 DEF SortingIs
  <2>3. /\ m \in PassState(S) /\ Reordered(m.list, q, key)
        /\ m.runs <= 1 => Falls(m.list, key, 1, N + 1)
        /\ m.runs > 1 => /\ FirstEnd(q, key) \in 2..(N + 1) /\ FirstEnd(m.list, key) \in 2..(N + 1)
                         /\ FirstEnd(m.list, key) > FirstEnd(q, key)
    BY <2>1, PassProgress DEF N
  <2>4. m.runs > 1 => FirstEnd(m.list, key) \in (0 + 3)..(N + 1)
    BY <2>3, <1>1
  <2>5. SortKept(S, q, key, 0, m)
    BY <2>3, <2>4 DEF SortKept, N
  <2> QED BY <2>2, <2>5 DEF P
<1>4. ASSUME NEW n \in Nat, n \in P PROVE n + 1 \in P
  <2> SUFFICES ASSUME n + 1 <= N PROVE SortKept(S, q, key, n + 1, M(n + 1))
    BY DEF P
  <2>1. PICK m : m = Sorting(q, key)[n] /\ SortKept(S, q, key, n, m)
    <3>1. n <= N
      BY <1>1
    <3> QED BY <1>4, <3>1 DEF P
  <2>2. M(n + 1) = IF m.runs > 1 THEN Pass(m.list, key) ELSE m
    <3>1. n + 1 \in 0..N /\ n + 1 # 0 /\ (n + 1) - 1 = n
      BY <1>1
    <3>2. M(n + 1) = SortRound(m, key)
      BY <1>2, <2>1, <3>1 DEF SortingIs
    <3> QED BY <3>2 DEF SortRound
  <2>3. /\ m \in PassState(S) /\ m.runs \in Nat /\ m.list \in Seq(S) /\ Reordered(m.list, q, key)
        /\ m.runs <= 1 => Falls(m.list, key, 1, N + 1)
        /\ m.runs > 1 => FirstEnd(m.list, key) \in (n + 3)..(N + 1)
    BY <2>1 DEF SortKept, PassState, N
  <2>4. CASE m.runs > 1
    <3>1. PICK r : r = Pass(m.list, key)
      OBVIOUS
    <3>2. Len(m.list) = N
      BY <2>3 DEF Reordered, MovedBy, N
    <3>3. /\ r \in PassState(S) /\ Reordered(r.list, m.list, key)
          /\ r.runs <= 1 => Falls(r.list, key, 1, N + 1)
          /\ r.runs > 1 => /\ FirstEnd(r.list, key) \in 2..(N + 1)
                           /\ FirstEnd(r.list, key) > FirstEnd(m.list, key)
      BY <2>3, <3>1, <3>2, PassProgress
    <3>4. Reordered(r.list, q, key)
      <4>1. r.list \in Seq(S)
        BY <3>3 DEF PassState
      <4> QED BY <4>1, <2>3, <3>3, ReorderedAgain
    <3>5. r.runs > 1 => FirstEnd(r.list, key) \in ((n + 1) + 3)..(N + 1)
      BY <2>3, <2>4, <3>3, <1>1
    <3>6. SortKept(S, q, key, n + 1, r)
      BY <3>3, <3>4, <3>5 DEF SortKept, N
    <3> QED BY <2>2, <2>4, <3>1, <3>6
  <2>5. CASE ~(m.runs > 1)
    <3>1. SortKept(S, q, key, n + 1, m)
      BY <2>3, <2>5 DEF SortKept, N
    <3> QED BY <2>2, <2>5, <3>1
  <2> QED BY <2>4, <2>5
<1>5. N \in P
  BY <1>1, <1>3, <1>4, SetInduction
<1>6. PICK m : m = Sorting(q, key)[N] /\ SortKept(S, q, key, N, m)
  <2>1. N <= N
    BY <1>1
  <2> QED BY <1>5, <2>1 DEF P
<1>7. /\ m.list \in Seq(S) /\ m.runs \in Nat /\ Reordered(m.list, q, key)
      /\ m.runs <= 1 => Falls(m.list, key, 1, N + 1)
      /\ m.runs > 1 => FirstEnd(m.list, key) \in (N + 3)..(N + 1)
  BY <1>6 DEF SortKept, PassState, N
<1>8. m.runs <= 1
  BY <1>1, <1>7
<1>9. m.list = Sorted(q, key)
  BY <1>7, <1>8, ReorderedSorted DEF N
<1> QED BY <1>6, <1>8, <1>9 DEF SortsStably, MergeSorted, N

(* So the lists that TLC tries come out sorted.                            *)
LEMMA ShortLists == ShortListsSorted
<1> SUFFICES ASSUME NEW n \in 0..5, NEW key \in [1..n -> 1..3]
             PROVE  SortsStably([i \in 1..n |-> i], key)
  BY DEF ShortListsSorted
<1>1. [i \in 1..n |-> i] \in Seq(1..n)
  BY SeqDef
<1>2. Keyed(1..n, key)
  BY DEF Keyed
<1> QED BY <1>1, <1>2, MergeSortCorrect

-----------------------------------------------------------------------------
(* Every priority is an integer key to sort by.                            *)
LEMMA PrioKey ==
  ASSUME TypeOK
  PROVE  \A t \in Threads : prio[t] \in Int
<1>1. Prios \subseteq Nat
  BY LocksAssumption
<1>2. \A t \in Threads : prio[t] \in Prios
  BY DEF TypeOK
<1>3. \A t \in Threads : prio[t] \in Nat
  BY <1>1, <1>2
<1> QED BY <1>3

(* What the dona lists are sorted by is a number for every thread.         *)
LEMMA DonaKeyType ==
  ASSUME TypeOK
  PROVE  \A t \in Threads : DonaKey[t] \in Int
<1> TAKE t \in Threads
<1>1. dona[t] \in Seq(Threads)
  BY DEF TypeOK
<1>2. CASE dona[t] = <<>>
  BY <1>2, LocksAssumption DEF DonaKey
<1>3. CASE dona[t] # <<>>
  <2>1. Len(dona[t]) \in Nat /\ Len(dona[t]) # 0
    BY <1>1, <1>3, EmptySeq, LenProperties
  <2>2. dona[t][Len(dona[t])] \in Threads
    BY <1>1, <2>1, ElementOfSeq
  <2> QED BY <1>3, <2>2, LocksAssumption DEF DonaKey
<1> QED BY <1>2, <1>3

(* Inserting a donor leaves a list of threads.                             *)
LEMMA InsertDonaType ==
  ASSUME TypeOK, NEW h \in Threads, NEW t \in Threads
  PROVE  InsertOrdered(dona[h], t, DonaKey) \in Seq(Threads)
<1>1. dona[h] \in Seq(Threads)
  BY DEF TypeOK
<1> QED BY <1>1, InsertOrderedProperties

(* So does sorting it, and the refreshed priority is a priority.           *)
LEMMA RefreshType ==
  ASSUME TypeOK, NEW t \in Threads
  PROVE  RefreshedDona(t) \in Seq(Threads) /\ RefreshedPrio(t) \in Prios
<1>1. dona[t] \in Seq(Threads) /\ prio[t] \in Prios
  BY DEF TypeOK
<1>2. RefreshedDona(t) \in Seq(Threads) /\ Elems(RefreshedDona(t)) = Elems(dona[t])
  BY <1>1, DonaKeyType, SortedProperties DEF RefreshedDona
<1>3. CASE dona[t] = <<>>
  BY <1>1, <1>2, <1>3 DEF RefreshedPrio
<1>4. CASE dona[t] # <<>>
  <2>1. RefreshedDona(t) # <<>>
    BY <1>1, <1>2, <1>4, ElemsEmpty
  <2>2. Head(RefreshedDona(t)) \in Threads
    BY <1>2, <2>1, HeadTailType
  <2>3. prio[Head(RefreshedDona(t))] \in Prios
    BY <2>2 DEF TypeOK
  <2> QED BY <1>1, <1>2, <2>3 DEF RefreshedPrio
<1> QED BY <1>3, <1>4

(* sema_up on a list of waiters in any order.                              *)
LEMMA UppedType ==
  ASSUME TypeOK, NEW s \in Semas
  PROVE  /\ Upped(s) \in [value : Nat, waiters : Seq(Threads)]
         /\ Upped(s).value = sema[s].value + 1
         /\ SchedTypeOK(WokenBy(s))
<1>1. sema[s].value \in Nat /\ sema[s].waiters \in Seq(Threads)
  BY DEF TypeOK
<1>2. WakeOrder(s) \in Seq(Threads)
  BY <1>1, PrioKey, SortedProperties DEF WakeOrder
<1>3. SchedTypeOK(k)
  BY DEF TypeOK
<1>4. CASE WakeOrder(s) = <<>>
  BY <1>1, <1>3, <1>4 DEF Upped, WokenBy
<1>5. CASE WakeOrder(s) # <<>>
  <2>1. Head(WakeOrder(s)) \in Threads /\ Tail(WakeOrder(s)) \in Seq(Threads)
    BY <1>2, <1>5, HeadTailType
  <2>2. SchedTypeOK(WokenBy(s))
    BY <1>3, <1>5, <2>1, UnblockType DEF WokenBy
  <2> QED BY <1>1, <1>5, <2>1, <2>2 DEF Upped
<1> QED BY <1>4, <1>5

(* sema_down, and what it does to the semaphore's value.                   *)
LEMMA SemaDownType ==
  ASSUME TypeOK, NEW t \in Threads, NEW s \in Semas, SemaDown(t, s)
  PROVE  /\ SchedTypeOK(k')
         /\ sema' \in [Semas -> [value : Nat, waiters : Seq(Threads)]]
         /\ pc' \in [Threads -> Labels]
         /\ arg' \in [Threads -> Semas \cup {None}]
<1>1. /\ SchedTypeOK(k) /\ sema[s].value \in Nat
      /\ sema[s].waiters \in Seq(Threads)
  BY DEF TypeOK
<1>2. CASE sema[s].value > 0
  <2>1. sema' = [sema EXCEPT ![s].value = @ - 1] /\ k' = k
    BY <1>2, <1>1 DEF SemaDown
  <2>2. sema[s].value - 1 \in Nat
    BY <1>1, <1>2
  <2>3. sema' \in [Semas -> [value : Nat, waiters : Seq(Threads)]]
    BY <2>1, <2>2 DEF TypeOK
  <2>4. /\ pc' = [pc EXCEPT ![t] = IF s \in Locks THEN "acq_own" ELSE "run"]
        /\ arg' = [arg EXCEPT ![t] = IF s \in Locks THEN s ELSE None]
    BY <1>2, <1>1 DEF SemaDown
  <2>5. pc' \in [Threads -> Labels] /\ arg' \in [Threads -> Semas \cup {None}]
    BY <2>4 DEF TypeOK, Labels, InLock, HasUnit
  <2> QED BY <1>1, <2>1, <2>3, <2>5
<1>3. CASE sema[s].value = 0
  <2>1. /\ sema' = [sema EXCEPT ![s].waiters = InsertOrdered(@, t, prio)]
        /\ pc' = [pc EXCEPT ![t] = "retry"] /\ arg' = [arg EXCEPT ![t] = s]
        /\ k' = Block(k)
    BY <1>3, <1>1 DEF SemaDown
  <2>2. InsertOrdered(sema[s].waiters, t, prio) \in Seq(Threads)
    BY <1>1, InsertOrderedProperties
  <2>3. sema' \in [Semas -> [value : Nat, waiters : Seq(Threads)]]
    BY <2>1, <2>2 DEF TypeOK
  <2>4. pc' \in [Threads -> Labels] /\ arg' \in [Threads -> Semas \cup {None}]
    BY <2>1 DEF TypeOK, Labels
  <2> QED BY <1>1, <2>1, <2>3, <2>4, BlockType
<1> QED BY <1>1, <1>2, <1>3 DEF SemaDown

(* sema_up keeps the scheduler and the semaphores well formed.             *)
LEMMA SemaUpType ==
  ASSUME TypeOK, NEW s \in Semas, SemaUp(s)
  PROVE  /\ SchedTypeOK(k')
         /\ sema' \in [Semas -> [value : Nat, waiters : Seq(Threads)]]
<1>1. sema' = [sema EXCEPT ![s] = Upped(s)] /\ k' = CompReady(WokenBy(s), prio)
  BY DEF SemaUp
<1> QED BY <1>1, UppedType, CompReadyType DEF TypeOK

(* What lock_acquire and dona_priority remember of their walk.             *)
LEMMA WalkFrom ==
  ASSUME NEW t \in Threads
  PROVE  /\ [NoWalk EXCEPT !.at = t] \in Walks
         /\ [NoWalk EXCEPT !.at = t] # NoWalk
<1>1. None \notin Threads
  BY LocksAssumption
<1>2. [NoWalk EXCEPT !.at = t] = [at |-> t, depth |-> 0, to |-> None]
  BY DEF NoWalk
<1>3. [at |-> t, depth |-> 0, to |-> None] \in Walks
  BY DEF Walks, MaxDepth
<1>4. [at |-> t, depth |-> 0, to |-> None].at # NoWalk.at
  BY <1>1 DEF NoWalk
<1> QED BY <1>2, <1>3, <1>4

LEMMA WalkTo ==
  ASSUME NEW w \in Walks, w # NoWalk, NEW h \in Threads \cup {None}
  PROVE  /\ [w EXCEPT !.to = h] \in Walks
         /\ [w EXCEPT !.to = h].at \in Threads
         /\ [w EXCEPT !.to = h].depth = w.depth
  BY DEF Walks

(* Every step keeps the values in their types.                             *)
LEMMA TypeStep ==
  ASSUME TypeOK, AtLabels, [Next]_vars
  PROVE  TypeOK'
<1> USE DEF prioVars, lockVars, At, Goto
<1>0. walk \in [Threads -> Walks] /\ pc \in [Threads -> Labels]
  BY DEF TypeOK
<1>1. ASSUME NEW t \in Threads, LockCode(t) PROVE TypeOK'
  <2>1. CASE AcquireRead(t)
    <3>1. arg[t] \in Locks
      BY <2>1 DEF AcquireRead, AtLabels, InLock
    <3>2. CASE holder[arg[t]] = None
      BY <2>1, <3>2 DEF AcquireRead, TypeOK
    <3>3. CASE holder[arg[t]] # None
      <4>1. holder[arg[t]] \in Threads
        BY <3>1, <3>3 DEF TypeOK
      <4>2. walk' \in [Threads -> Walks]
        <5>1. [NoWalk EXCEPT !.at = holder[arg[t]]] \in Walks
          BY <4>1, WalkFrom
        <5>2. walk' = [walk EXCEPT ![t] = [NoWalk EXCEPT !.at = holder[arg[t]]]]
          BY <2>1, <3>3 DEF AcquireRead
        <5> QED BY <1>0, <5>1, <5>2
      <4>3. pc' \in [Threads -> Labels]
        BY <2>1, <3>3 DEF AcquireRead, TypeOK, Labels, InLock, InWalk
      <4> QED BY <2>1, <3>3, <4>2, <4>3 DEF AcquireRead, TypeOK
    <3> QED BY <3>2, <3>3
  <2>2. CASE AcquireInsert(t)
    <3>1. walk[t].at \in Threads
      BY <2>2 DEF AcquireInsert, AtLabels, InWalk, TypeOK, Walks
    <3>2. CASE \E h \in Threads : t \in Elems(dona[h])
      BY <2>2, <3>2 DEF AcquireInsert, TypeOK
    <3>3. CASE ~\E h \in Threads : t \in Elems(dona[h])
      <4>1. InsertOrdered(dona[walk[t].at], t, DonaKey) \in Seq(Threads)
        BY <3>1, InsertDonaType
      <4>2. dona' \in [Threads -> Seq(Threads)]
        BY <2>2, <3>1, <3>3, <4>1 DEF AcquireInsert, TypeOK
      <4>3. walk' \in [Threads -> Walks]
        <5>1. [NoWalk EXCEPT !.at = t] \in Walks
          BY WalkFrom
        <5>2. walk' = [walk EXCEPT ![t] = [NoWalk EXCEPT !.at = t]]
          BY <2>2, <3>3 DEF AcquireInsert
        <5> QED BY <1>0, <5>1, <5>2
      <4>4. pc' \in [Threads -> Labels]
        <5>1. pc' = [pc EXCEPT ![t] = "acq_donate"]
          BY <2>2, <3>3 DEF AcquireInsert
        <5> QED BY <1>0, <5>1 DEF Labels, InLock, InWalk
      <4> QED BY <2>2, <3>3, <4>2, <4>3, <4>4 DEF AcquireInsert, TypeOK
    <3> QED BY <3>2, <3>3
  <2>3. CASE DonateTest(t)
    <3>1. NoWalk \in Walks
      BY DEF Walks
    <3> QED BY <2>3, <3>1 DEF DonateTest, TypeOK, Labels, InLock, InWalk, InRound
  <2>11. CASE DonateHolder(t)
    <3>1. walk[t] # NoWalk /\ walk[t] \in Walks
      BY <1>0, <2>11 DEF DonateHolder, AtLabels, InWalk, InRound
    <3>2. walk[t].at \in Threads
      BY <3>1 DEF Walks
    <3>3. waitLock[walk[t].at] # None => holder[waitLock[walk[t].at]] \in Threads \cup {None}
      BY <3>2 DEF TypeOK
    <3>4. CASE waitLock[walk[t].at] = None
      BY <2>11, <3>4 DEF DonateHolder, TypeOK
    <3>5. CASE waitLock[walk[t].at] # None
      <4>1. [walk[t] EXCEPT !.to = holder[waitLock[walk[t].at]]] \in Walks
        BY <3>1, <3>3, <3>5, WalkTo
      <4>2. walk' = [walk EXCEPT ![t].to = holder[waitLock[walk[t].at]]]
        BY <2>11, <3>5 DEF DonateHolder
      <4>3. walk' \in [Threads -> Walks]
        BY <1>0, <4>1, <4>2
      <4> QED BY <2>11, <3>5, <4>3 DEF DonateHolder, TypeOK, Labels, InLock, InWalk, InRound
    <3> QED BY <3>4, <3>5
  <2>12. CASE DonateGive(t)
    <3>1. walk[t] # NoWalk /\ walk[t] \in Walks /\ walk[t].depth < MaxDepth
      BY <1>0, <2>12 DEF DonateGive, AtLabels, InWalk, InRound
    <3>2. /\ walk[t].at \in Threads /\ walk[t].to \in Threads \cup {None}
          /\ walk[t].depth \in 0..MaxDepth
      BY <3>1 DEF Walks
    <3>3. CASE walk[t].to = None
      BY <2>12, <3>3 DEF DonateGive, TypeOK
    <3>4. CASE walk[t].to # None
      <4>1. [at |-> walk[t].to, depth |-> walk[t].depth + 1, to |-> None] \in Walks
        BY <3>1, <3>2, <3>4 DEF Walks, MaxDepth
      <4>2. walk' = [walk EXCEPT ![t] = [at |-> walk[t].to, depth |-> walk[t].depth + 1,
                                         to |-> None]]
        BY <1>0, <2>12, <3>4 DEF DonateGive
      <4>3. walk' \in [Threads -> Walks]
        BY <1>0, <4>1, <4>2
      <4>4. prio' \in [Threads -> Prios]
        <5>1. prio' = [prio EXCEPT ![walk[t].to] = prio[walk[t].at]]
          BY <2>12, <3>4 DEF DonateGive
        <5>2. prio[walk[t].at] \in Prios /\ prio \in [Threads -> Prios]
          BY <3>2 DEF TypeOK
        <5> QED BY <3>2, <5>1, <5>2
      <4> QED BY <2>12, <3>4, <4>3, <4>4 DEF DonateGive, TypeOK, Labels, InLock, InWalk
    <3> QED BY <3>3, <3>4
  <2>4. CASE AcquireDown(t)
    <3>1. SemaDown(t, arg[t]) /\ arg[t] \in Semas
      BY <2>4 DEF AcquireDown, AtLabels, InLock, Semas
    <3> QED BY <2>4, <3>1, SemaDownType DEF AcquireDown, TypeOK
  <2>5. CASE Retry(t)
    <3>1. SemaDown(t, arg[t]) /\ arg[t] \in Semas
      BY <2>5 DEF Retry, AtLabels
    <3> QED BY <2>5, <3>1, SemaDownType DEF Retry, TypeOK
  <2>6. CASE AcquireOwn(t)
    BY <2>6 DEF AcquireOwn, TypeOK, Labels, InLock
  <2>7. CASE TryOwn(t)
    BY <2>7 DEF TryOwn, TypeOK, Labels, InLock
  <2>8. CASE RemoveWithLock(t)
    <3>1. \A R : Without(dona[t], R) \in Seq(Threads)
      BY WithoutProperties DEF TypeOK
    <3>2. dona' \in [Threads -> Seq(Threads)]
      BY <2>8, <3>1 DEF RemoveWithLock, TypeOK
    <3> QED BY <2>8, <3>2 DEF RemoveWithLock, TypeOK, Labels, InLock, HasUnit
  <2>9. CASE RefreshReset(t)
    <3>1. initPrio[t] \in Prios
      BY DEF TypeOK
    <3> QED BY <2>9, <3>1 DEF RefreshReset, TypeOK, Labels, InLock, HasUnit
  <2>13. CASE RefreshRaise(t)
    <3>1. dona' \in [Threads -> Seq(Threads)] /\ prio' \in [Threads -> Prios]
      BY <2>13, RefreshType DEF RefreshRaise, TypeOK
    <3> QED BY <2>13, <3>1 DEF RefreshRaise, TypeOK, Labels, InLock, HasUnit
  <2>14. CASE SetRaise(t)
    <3>1. dona' \in [Threads -> Seq(Threads)] /\ prio' \in [Threads -> Prios]
      BY <2>14, RefreshType DEF SetRaise, TypeOK
    <3>2. SchedTypeOK(k')
      BY <2>14, CompReadyType DEF SetRaise, TypeOK
    <3> QED BY <2>14, <3>1, <3>2 DEF SetRaise, TypeOK, Labels
  <2>10. CASE ReleaseUp(t)
    <3>1. SemaUp(arg[t]) /\ arg[t] \in Semas
      BY <2>10 DEF ReleaseUp, AtLabels, InLock, HasUnit, Semas
    <3> QED BY <2>10, <3>1, SemaUpType DEF ReleaseUp, TypeOK, Labels
  <2> QED BY <1>1, <2>1, <2>2, <2>3, <2>4, <2>5, <2>6, <2>7, <2>8, <2>9, <2>10,
             <2>11, <2>12, <2>13, <2>14 DEF LockCode
<1>2. ASSUME NEW t \in Threads, Client(t) PROVE TypeOK'
  <2>1. ASSUME NEW l \in Locks, AcquireTest(t, l) PROVE TypeOK'
    <3>1. /\ waitLock' \in [Threads -> Locks \cup {None}]
          /\ pc' \in [Threads -> Labels]
      BY <2>1 DEF AcquireTest, TypeOK, Labels, InLock, InWalk
    <3> QED BY <2>1, <3>1 DEF AcquireTest, TypeOK, Semas
  <2>2. ASSUME NEW l \in TryLocks, TryAcquire(t, l) PROVE TypeOK'
    <3>1. l \in Semas
      BY LocksAssumption DEF Semas
    <3>2. sema[l].value - 1 \in Nat
      BY <2>2, <3>1 DEF TryAcquire, TypeOK
    <3>3. sema' \in [Semas -> [value : Nat, waiters : Seq(Threads)]]
      BY <2>2, <3>1, <3>2 DEF TryAcquire, TypeOK
    <3> QED BY <2>2, <3>1, <3>3 DEF TryAcquire, TypeOK, Labels, InLock, HasUnit
  <2>3. ASSUME NEW l \in Locks, ReleaseStart(t, l) PROVE TypeOK'
    BY <2>3 DEF ReleaseStart, TypeOK, Labels, InLock, HasUnit, Semas
  <2>4. ASSUME NEW e \in Events, EventDown(t, e) PROVE TypeOK'
    <3>1. SemaDown(t, e) /\ e \in Semas
      BY <2>4 DEF EventDown, Semas
    <3> QED BY <2>4, <3>1, SemaDownType DEF EventDown, TypeOK
  <2>5. ASSUME NEW e \in Events, EventUp(t, e) PROVE TypeOK'
    <3>1. SemaUp(e) /\ e \in Semas
      BY <2>5 DEF EventUp, Semas
    <3> QED BY <2>5, <3>1, SemaUpType DEF EventUp, TypeOK
  <2>6. ASSUME NEW p \in NewPrios, SetPriority(t, p) PROVE TypeOK'
    <3>1. p \in Prios
      BY LocksAssumption
    <3> QED BY <2>6, <3>1 DEF SetPriority, TypeOK, Labels
  <2> QED BY <1>2, <2>1, <2>2, <2>3, <2>4, <2>5, <2>6 DEF Client
<1>3. ASSUME NEW t \in Sliced, Preempt(t) PROVE TypeOK'
  BY <1>3, YieldType DEF Preempt, TypeOK
<1>4. ASSUME NEW e \in Events, InterruptUp(e) PROVE TypeOK'
  <2>1. e \in Semas
    BY DEF Semas
  <2>2. /\ sema' \in [Semas -> [value : Nat, waiters : Seq(Threads)]]
        /\ SchedTypeOK(k')
    BY <1>4, <2>1, UppedType DEF InterruptUp, TypeOK
  <2>3. fault' \in {NoFault, NullHolder, LinkedTwice, YieldInIntr}
    BY <1>4 DEF InterruptUp
  <2> QED BY <1>4, <2>2, <2>3 DEF InterruptUp, TypeOK
<1>5. CASE IdleLoop
  BY <1>5, BlockType DEF IdleLoop, TypeOK
<1>6. CASE UNCHANGED vars
  BY <1>6 DEF vars, TypeOK
<1> QED BY <1>1, <1>2, <1>3, <1>4, <1>5, <1>6 DEF Next, Halted

-----------------------------------------------------------------------------
(* Ownership of the semaphores' units.                                     *)
LEMMA FreeLock ==
  ASSUME LockInv, NEW l \in Locks, sema[l].value > 0
  PROVE  /\ holder[l] = None
         /\ \A t \in Threads : ~Owns(t, l)
<1>1. \A t \in Threads : ~Owns(t, l)
  BY DEF LockInv, LockExclusive
<1>2. holder[l] \in Threads \cup {None}
  BY DEF LockInv, TypeOK
<1> QED BY <1>1, <1>2 DEF Owns

(* Two owners of a lock are one thread, and the unit is not also up.       *)
LEMMA OneOwner ==
  ASSUME LockInv, NEW l \in Locks,
         NEW t \in Threads, NEW u \in Threads, Owns(t, l), Owns(u, l)
  PROVE  t = u /\ sema[l].value = 0
BY DEF LockInv, LockExclusive

(* A step leaves ownership alone, ...                                      *)
Keeps ==
  \A l \in Locks : /\ sema'[l].value = sema[l].value
                   /\ \A t \in Threads : Owns(t, l)' <=> Owns(t, l)

(* ... or changes it for one thread and one lock, with the unit.           *)
OthersKeep(t, l) ==
  \A m \in Locks :
    /\ m # l => sema'[m].value = sema[m].value
    /\ \A u \in Threads : ~(u = t /\ m = l) => (Owns(u, m)' <=> Owns(u, m))

(* ... gives a lock whose unit was in its semaphore to a thread, ...       *)
Takes(t, l) ==
  /\ sema[l].value > 0 /\ sema'[l].value = sema[l].value - 1
  /\ Owns(t, l)'
  /\ OthersKeep(t, l)

(* ... or puts the unit of a thread back.                                  *)
Gives(t, l) ==
  /\ Owns(t, l) /\ sema'[l].value = sema[l].value + 1
  /\ ~Owns(t, l)'
  /\ OthersKeep(t, l)

Effect ==
  \/ Keeps
  \/ \E t \in Threads, l \in Locks : Takes(t, l)
  \/ \E t \in Threads, l \in Locks : Gives(t, l)

(* Any such step keeps exclusion.                                          *)
LEMMA EffectExclusive ==
  ASSUME LockInv, Effect
  PROVE  LockExclusive'
<1> SUFFICES ASSUME NEW m \in Locks
             PROVE  \/ /\ sema'[m].value = 1
                       /\ \A t \in Threads : ~Owns(t, m)'
                    \/ /\ sema'[m].value = 0
                       /\ \E t \in Threads : /\ Owns(t, m)'
                                             /\ \A u \in Threads \ {t} : ~Owns(u, m)'
  BY DEF LockExclusive
<1>0. \/ sema[m].value = 1 /\ \A t \in Threads : ~Owns(t, m)
      \/ /\ sema[m].value = 0
         /\ \E t \in Threads : Owns(t, m) /\ \A u \in Threads \ {t} : ~Owns(u, m)
  BY DEF LockInv, LockExclusive
<1>1. CASE Keeps
  <2>1. /\ sema'[m].value = sema[m].value
        /\ \A t \in Threads : Owns(t, m)' <=> Owns(t, m)
    BY <1>1 DEF Keeps
  <2> QED BY <1>0, <2>1
<1>2. ASSUME NEW t \in Threads, NEW l \in Locks, Takes(t, l) \/ Gives(t, l), m # l
      PROVE  /\ sema'[m].value = sema[m].value
             /\ \A u \in Threads : Owns(u, m)' <=> Owns(u, m)
  BY <1>2 DEF Takes, Gives, OthersKeep
<1>3. ASSUME NEW t \in Threads, Takes(t, m)
      PROVE  /\ sema'[m].value = 0
             /\ Owns(t, m)' /\ \A u \in Threads \ {t} : ~Owns(u, m)'
  <2>1. sema[m].value > 0 /\ sema'[m].value = sema[m].value - 1 /\ Owns(t, m)'
    BY <1>3 DEF Takes
  <2>2. sema[m].value = 1 /\ \A u \in Threads : ~Owns(u, m)
    BY <1>0, <2>1
  <2>3. \A u \in Threads \ {t} : Owns(u, m)' <=> Owns(u, m)
    BY <1>3 DEF Takes, OthersKeep
  <2>4. \A u \in Threads \ {t} : ~Owns(u, m)'
    BY <2>2, <2>3
  <2>5. sema'[m].value = 0
    BY <2>1, <2>2
  <2> QED BY <2>1, <2>4, <2>5
<1>4. ASSUME NEW t \in Threads, Gives(t, m)
      PROVE  sema'[m].value = 1 /\ \A u \in Threads : ~Owns(u, m)'
  <2>1. Owns(t, m) /\ sema'[m].value = sema[m].value + 1 /\ ~Owns(t, m)'
    BY <1>4 DEF Gives
  <2>2. sema[m].value = 0
    BY <2>1, OneOwner
  <2>3. \A u \in Threads \ {t} : Owns(u, m)' <=> Owns(u, m)
    BY <1>4 DEF Gives, OthersKeep
  <2>4. \A u \in Threads \ {t} : ~Owns(u, m)
    BY <2>1, OneOwner
  <2>5. \A u \in Threads : ~Owns(u, m)'
    BY <2>1, <2>3, <2>4
  <2>6. sema'[m].value = 1
    BY <2>1, <2>2
  <2> QED BY <2>5, <2>6
<1>5. CASE \E t \in Threads, l \in Locks : Takes(t, l)
  <2>1. PICK t \in Threads, l \in Locks : Takes(t, l)
    BY <1>5
  <2>2. CASE m = l
    BY <1>3, <2>1, <2>2
  <2>3. CASE m # l
    BY <1>0, <1>2, <2>1, <2>3
  <2> QED BY <2>2, <2>3
<1>6. CASE \E t \in Threads, l \in Locks : Gives(t, l)
  <2>1. PICK t \in Threads, l \in Locks : Gives(t, l)
    BY <1>6
  <2>2. CASE m = l
    BY <1>4, <2>1, <2>2
  <2>3. CASE m # l
    BY <1>0, <1>2, <2>1, <2>3
  <2> QED BY <2>2, <2>3
<1> QED BY <1>1, <1>5, <1>6 DEF Effect

(* sema_down of a lock takes it or leaves ownership alone; of an event it  *)
(* leaves ownership alone.  The caller owns nothing that lock.holder does  *)
(* not show.                                                               *)
LEMMA SemaDownEffect ==
  ASSUME LockInv, NEW t \in Threads, NEW s \in Semas, SemaDown(t, s),
         pc[t] \notin HasUnit, UNCHANGED <<holder, walk>>
  PROVE  Effect /\ HolderClear' /\ AtLabels'
<1>1. /\ sema \in [Semas -> [value : Nat, waiters : Seq(Threads)]]
      /\ pc \in [Threads -> Labels] /\ arg \in [Threads -> Semas \cup {None}]
      /\ \A l \in Locks : l \in Semas
  BY DEF LockInv, TypeOK, Semas
<1>2. \A u \in Threads : pc[u] \in HasUnit => holder[arg[u]] = None
  BY DEF LockInv, HolderClear
<1>3. AtLabels
  BY DEF LockInv
<1>4. CASE sema[s].value > 0 /\ s \in Locks
  <2>1. /\ sema' = [sema EXCEPT ![s].value = sema[s].value - 1]
        /\ pc' = [pc EXCEPT ![t] = "acq_own"] /\ arg' = [arg EXCEPT ![t] = s]
    BY <1>1, <1>4 DEF SemaDown
  <2>2. holder[s] = None /\ \A u \in Threads : ~Owns(u, s)
    BY <1>4, FreeLock
  <2>3. Takes(t, s)
    <3>1. sema'[s].value = sema[s].value - 1
      BY <1>1, <2>1
    <3>2. Owns(t, s)'
      BY <1>1, <2>1 DEF Owns, HasUnit
    <3>3. OthersKeep(t, s)
      <4>1. \A m \in Locks : m # s => sema'[m].value = sema[m].value
        BY <1>1, <2>1
      <4>2. \A u \in Threads \ {t} : pc'[u] = pc[u] /\ arg'[u] = arg[u]
        BY <1>1, <2>1
      <4>3. \A m \in Locks : m # s => arg'[t] # m
        BY <1>1, <2>1
      <4> QED BY <4>1, <4>2, <4>3 DEF OthersKeep, Owns
    <3> QED BY <1>4, <3>1, <3>2, <3>3 DEF Takes
  <2>4. HolderClear'
    BY <1>1, <1>2, <2>1, <2>2 DEF HolderClear
  <2>5. AtLabels'
    BY <1>1, <1>3, <1>4, <2>1 DEF AtLabels, InLock, InWalk, InRound, HasUnit
  <2> QED BY <1>4, <2>3, <2>4, <2>5 DEF Effect
<1>5. CASE sema[s].value > 0 /\ s \notin Locks
  <2>1. /\ sema' = [sema EXCEPT ![s].value = sema[s].value - 1]
        /\ pc' = [pc EXCEPT ![t] = "run"] /\ arg' = [arg EXCEPT ![t] = None]
    BY <1>1, <1>5 DEF SemaDown
  <2>2. Keeps
    <3>1. \A m \in Locks : sema'[m].value = sema[m].value
      BY <1>1, <1>5, <2>1
    <3>2. pc'[t] \notin HasUnit
      BY <1>1, <2>1 DEF HasUnit
    <3>3. \A u \in Threads \ {t} : pc'[u] = pc[u] /\ arg'[u] = arg[u]
      BY <1>1, <2>1
    <3> QED BY <3>1, <3>2, <3>3 DEF Keeps, Owns
  <2>3. HolderClear'
    BY <1>1, <1>2, <2>1 DEF HolderClear, HasUnit
  <2>4. AtLabels'
    BY <1>1, <1>3, <2>1 DEF AtLabels, InLock, InWalk, InRound, HasUnit
  <2> QED BY <2>2, <2>3, <2>4 DEF Effect
<1>6. CASE ~(sema[s].value > 0)
  <2>1. /\ sema' = [sema EXCEPT ![s].waiters = InsertOrdered(@, t, prio)]
        /\ pc' = [pc EXCEPT ![t] = "retry"] /\ arg' = [arg EXCEPT ![t] = s]
    BY <1>1, <1>6 DEF SemaDown
  <2>2. Keeps
    <3>1. \A m \in Locks : sema'[m].value = sema[m].value
      BY <1>1, <2>1
    <3>2. pc'[t] \notin HasUnit
      BY <1>1, <2>1 DEF HasUnit
    <3>3. \A u \in Threads \ {t} : pc'[u] = pc[u] /\ arg'[u] = arg[u]
      BY <1>1, <2>1
    <3> QED BY <3>1, <3>2, <3>3 DEF Keeps, Owns
  <2>3. HolderClear'
    BY <1>1, <1>2, <2>1 DEF HolderClear, HasUnit
  <2>4. AtLabels'
    BY <1>1, <1>3, <2>1 DEF AtLabels, InLock, InWalk, InRound, HasUnit
  <2> QED BY <2>2, <2>3, <2>4 DEF Effect
<1> QED BY <1>4, <1>5, <1>6

(* A step that moves one thread between two labels where it owns nothing   *)
(* through arg, or the same lock, and changes no value and no holder.      *)
LEMMA MoveEffect ==
  ASSUME LockInv, NEW t \in Threads, UNCHANGED <<sema, holder>>,
         \A u \in Threads \ {t} : pc'[u] = pc[u] /\ arg'[u] = arg[u],
         \/ pc[t] \notin HasUnit /\ pc'[t] \notin HasUnit
         \/ pc[t] \in HasUnit /\ pc'[t] \in HasUnit /\ arg'[t] = arg[t]
  PROVE  Effect /\ HolderClear'
<1>1. Keeps
  BY DEF Keeps, Owns
<1>2. HolderClear'
  BY DEF HolderClear, LockInv
<1> QED BY <1>1, <1>2 DEF Effect

(* sema_up of an event, or of a lock by a thread, as ownership sees it.    *)
LEMMA SemaUpValue ==
  ASSUME LockInv, NEW s \in Semas, sema' = [sema EXCEPT ![s] = Upped(s)]
  PROVE  /\ sema'[s].value = sema[s].value + 1
         /\ \A m \in Locks \ {s} : sema'[m].value = sema[m].value
<1>1. TypeOK
  BY DEF LockInv
<1>2. Upped(s).value = sema[s].value + 1
  BY <1>1, UppedType
<1> QED BY <1>1, <1>2 DEF TypeOK, Semas

(* Every step has one of the three effects, and keeps the labels' sense.   *)
LEMMA LockStep ==
  ASSUME LockInv, [Next]_vars
  PROVE  Effect /\ HolderClear' /\ AtLabels'
<1> USE DEF prioVars, lockVars, At, Goto
<1>0. /\ TypeOK /\ AtLabels /\ HolderClear
      /\ pc \in [Threads -> Labels] /\ arg \in [Threads -> Semas \cup {None}]
      /\ holder \in [Locks -> Threads \cup {None}]
      /\ walk \in [Threads -> Walks]
      /\ \A l \in Locks : l \in Semas
      /\ \A t \in Threads : t # None
  BY LocksAssumption DEF LockInv, TypeOK, Semas
<1>1. ASSUME NEW t \in Threads, LockCode(t) PROVE Effect /\ HolderClear' /\ AtLabels'
  <2>1. CASE AcquireRead(t)
    <3>1. Effect /\ HolderClear'
      BY <1>0, <2>1, MoveEffect DEF AcquireRead, HasUnit
    <3>2. holder[arg[t]] \in Threads => [NoWalk EXCEPT !.at = holder[arg[t]]] # NoWalk
      BY WalkFrom
    <3>3. AtLabels'
      BY <1>0, <2>1, <3>2 DEF AcquireRead, AtLabels, InLock, InWalk, InRound, HasUnit
    <3> QED BY <3>1, <3>3
  <2>2. CASE AcquireInsert(t)
    <3>1. Effect /\ HolderClear'
      BY <1>0, <2>2, MoveEffect DEF AcquireInsert, HasUnit
    <3>2. [NoWalk EXCEPT !.at = t] # NoWalk
      BY WalkFrom
    <3>3. AtLabels'
      BY <1>0, <2>2, <3>2 DEF AcquireInsert, AtLabels, InLock, InWalk, InRound, HasUnit
    <3> QED BY <3>1, <3>3
  <2>3. CASE DonateTest(t)
    <3>1. Effect /\ HolderClear'
      BY <1>0, <2>3, MoveEffect DEF DonateTest, HasUnit
    <3>2. \/ pc' = [pc EXCEPT ![t] = "acq_down"]
          \/ /\ pc' = [pc EXCEPT ![t] = "acq_holder"] /\ walk[t].depth # MaxDepth
             /\ walk' = walk
      BY <2>3 DEF DonateTest
    <3>3. walk[t] # NoWalk /\ walk[t] \in Walks /\ arg[t] \in Locks /\ arg' = arg
      BY <1>0, <2>3 DEF DonateTest, AtLabels, InLock, InWalk
    <3>4. walk[t].depth \in 0..MaxDepth /\ MaxDepth \in Nat
      BY <3>3 DEF Walks, MaxDepth
    <3>5. walk[t].depth # MaxDepth => walk[t].depth < MaxDepth
      BY <3>4
    <3>6. \A u \in Threads \ {t} : walk'[u] = walk[u]
      BY <1>0, <2>3 DEF DonateTest
    <3>7. AtLabels'
      BY <1>0, <3>2, <3>3, <3>5, <3>6 DEF AtLabels, InLock, InWalk, InRound, HasUnit
    <3> QED BY <3>1, <3>7
  <2>10. CASE DonateHolder(t)
    <3>1. Effect /\ HolderClear'
      BY <1>0, <2>10, MoveEffect DEF DonateHolder, HasUnit
    <3>2. /\ walk[t] # NoWalk /\ walk[t] \in Walks /\ walk[t].depth < MaxDepth
          /\ arg[t] \in Locks /\ arg' = arg
      BY <1>0, <2>10 DEF DonateHolder, AtLabels, InLock, InWalk, InRound
    <3>3. CASE waitLock[walk[t].at] = None
      <4>1. UNCHANGED <<pc, arg, walk>>
        BY <2>10, <3>3 DEF DonateHolder
      <4>2. AtLabels'
        BY <1>0, <4>1 DEF AtLabels
      <4> QED BY <3>1, <4>2
    <3>4. CASE waitLock[walk[t].at] # None
      <4>1. walk[t].at \in Threads
        BY <3>2 DEF Walks
      <4>2. PICK h \in Threads \cup {None} :
              walk' = [walk EXCEPT ![t].to = h] /\ pc' = [pc EXCEPT ![t] = "acq_give"]
        BY <1>0, <2>10, <3>4, <4>1 DEF DonateHolder, TypeOK
      <4>3. [walk[t] EXCEPT !.to = h].at \in Threads /\ [walk[t] EXCEPT !.to = h].depth < MaxDepth
        BY <3>2, WalkTo
      <4>4. walk'[t] = [walk[t] EXCEPT !.to = h] /\ \A u \in Threads \ {t} : walk'[u] = walk[u]
        BY <1>0, <4>2
      <4>5. walk'[t] # NoWalk
        BY <1>0, <4>3, <4>4 DEF NoWalk
      <4>6. AtLabels'
        BY <1>0, <3>2, <4>2, <4>3, <4>4, <4>5 DEF AtLabels, InLock, InWalk, InRound, HasUnit
      <4> QED BY <3>1, <4>6
    <3> QED BY <3>1, <3>3, <3>4
  <2>11. CASE DonateGive(t)
    <3>1. Effect /\ HolderClear'
      BY <1>0, <2>11, MoveEffect DEF DonateGive, HasUnit
    <3>2. arg[t] \in Locks /\ arg' = arg
      BY <1>0, <2>11 DEF DonateGive, AtLabels, InLock, InWalk, InRound
    <3>3. CASE walk[t].to = None
      <4>1. UNCHANGED <<pc, arg, walk>>
        BY <2>11, <3>3 DEF DonateGive
      <4>2. AtLabels'
        BY <1>0, <4>1 DEF AtLabels
      <4> QED BY <3>1, <4>2
    <3>4. CASE walk[t].to # None
      <4>1. PICK w : /\ w = [at |-> walk[t].to, depth |-> walk[t].depth + 1, to |-> None]
                     /\ walk' = [walk EXCEPT ![t] = w] /\ pc' = [pc EXCEPT ![t] = "acq_donate"]
        BY <1>0, <2>11, <3>4 DEF DonateGive
      <4>2. w # NoWalk
        BY <3>4, <4>1 DEF NoWalk
      <4>3. AtLabels'
        BY <1>0, <3>2, <4>1, <4>2 DEF AtLabels, InLock, InWalk, InRound, HasUnit
      <4> QED BY <3>1, <4>3
    <3> QED BY <3>1, <3>3, <3>4
  <2>4. CASE AcquireDown(t)
    <3>1. arg[t] \in Semas /\ SemaDown(t, arg[t]) /\ pc[t] \notin HasUnit
      BY <1>0, <2>4 DEF AcquireDown, AtLabels, InLock, InWalk, InRound, HasUnit
    <3> QED BY <2>4, <3>1, SemaDownEffect DEF AcquireDown
  <2>5. CASE Retry(t)
    <3>1. arg[t] \in Semas /\ SemaDown(t, arg[t]) /\ pc[t] \notin HasUnit
      BY <1>0, <2>5 DEF Retry, AtLabels, HasUnit
    <3> QED BY <2>5, <3>1, SemaDownEffect DEF Retry
  <2>6. ASSUME AcquireOwn(t) \/ TryOwn(t)
        PROVE  Effect /\ HolderClear' /\ AtLabels'
    <3>1. PICK l \in Locks : l = arg[t]
      BY <1>0, <2>6 DEF AcquireOwn, TryOwn, AtLabels, InLock, InWalk, InRound, HasUnit
    <3>2. /\ holder' = [holder EXCEPT ![l] = t] /\ sema' = sema /\ walk' = walk
          /\ arg' = [arg EXCEPT ![t] = None] /\ pc' = [pc EXCEPT ![t] = "run"]
          /\ pc[t] \in HasUnit
      BY <2>6, <3>1 DEF AcquireOwn, TryOwn, HasUnit
    <3>3. holder[l] = None /\ Owns(t, l)
      BY <1>0, <3>1, <3>2 DEF HolderClear, Owns
    <3>4. \A u \in Threads \ {t} : ~Owns(u, l)
      BY <3>3, OneOwner
    <3>5. /\ pc'[t] = "run" /\ arg'[t] = None /\ holder'[l] = t
          /\ \A u \in Threads \ {t} : pc'[u] = pc[u] /\ arg'[u] = arg[u]
          /\ \A m \in Locks \ {l} : holder'[m] = holder[m]
      BY <1>0, <3>2
    <3>6. Keeps
      <4>1. \A u \in Threads : Owns(u, l)' <=> u = t
        BY <3>4, <3>5 DEF Owns, HasUnit
      <4>2. \A m \in Locks \ {l} : \A u \in Threads : Owns(u, m)' <=> Owns(u, m)
        BY <3>1, <3>5 DEF Owns, HasUnit
      <4> QED BY <3>2, <3>3, <3>4, <4>1, <4>2 DEF Keeps
    <3>7. HolderClear'
      <4> SUFFICES ASSUME NEW u \in Threads, pc'[u] \in HasUnit
                   PROVE  holder'[arg'[u]] = None
        BY DEF HolderClear
      <4>1. u # t /\ pc[u] \in HasUnit /\ arg'[u] = arg[u]
        BY <3>5 DEF HasUnit
      <4>2. arg[u] \in Locks /\ holder[arg[u]] = None
        BY <1>0, <4>1 DEF AtLabels, HolderClear, InLock
      <4>3. arg[u] # l
        BY <3>4, <4>1 DEF Owns
      <4> QED BY <3>5, <4>1, <4>2, <4>3
    <3>8. AtLabels'
      BY <1>0, <3>2, <3>5 DEF AtLabels, InLock, InWalk, InRound, HasUnit
    <3> QED BY <3>6, <3>7, <3>8 DEF Effect
  <2>7. CASE RemoveWithLock(t)
    <3>1. Effect /\ HolderClear'
      BY <1>0, <2>7, MoveEffect DEF RemoveWithLock, HasUnit
    <3>2. AtLabels'
      BY <1>0, <2>7 DEF RemoveWithLock, AtLabels, InLock, InWalk, InRound, HasUnit
    <3> QED BY <3>1, <3>2
  <2>8. CASE RefreshReset(t) \/ RefreshRaise(t) \/ SetRaise(t)
    <3>1. Effect /\ HolderClear'
      BY <1>0, <2>8, MoveEffect DEF RefreshReset, RefreshRaise, SetRaise, HasUnit
    <3>2. AtLabels'
      BY <1>0, <2>8 DEF RefreshReset, RefreshRaise, SetRaise,
                        AtLabels, InLock, InWalk, InRound, HasUnit
    <3> QED BY <3>1, <3>2
  <2>9. CASE ReleaseUp(t)
    <3>1. PICK l \in Locks : l = arg[t]
      BY <1>0, <2>9 DEF ReleaseUp, AtLabels, InLock, InWalk, InRound, HasUnit
    <3>2. /\ sema' = [sema EXCEPT ![l] = Upped(l)] /\ holder' = holder
          /\ arg' = [arg EXCEPT ![t] = None] /\ pc' = [pc EXCEPT ![t] = "run"]
          /\ pc[t] \in HasUnit /\ walk' = walk
      BY <2>9, <3>1 DEF ReleaseUp, SemaUp, HasUnit
    <3>3. holder[l] = None /\ Owns(t, l)
      BY <1>0, <3>1, <3>2 DEF HolderClear, Owns
    <3>4. /\ pc'[t] = "run" /\ arg'[t] = None
          /\ \A u \in Threads \ {t} : pc'[u] = pc[u] /\ arg'[u] = arg[u]
      BY <1>0, <3>2
    <3>5. /\ sema'[l].value = sema[l].value + 1
          /\ \A m \in Locks \ {l} : sema'[m].value = sema[m].value
      BY <1>0, <3>2, SemaUpValue
    <3>6. Gives(t, l)
      <4>1. ~Owns(t, l)'
        BY <1>0, <3>2, <3>3, <3>4 DEF Owns, HasUnit
      <4>2. OthersKeep(t, l)
        BY <3>1, <3>2, <3>4, <3>5 DEF OthersKeep, Owns, HasUnit
      <4> QED BY <3>3, <3>5, <4>1, <4>2 DEF Gives
    <3>7. HolderClear'
      BY <1>0, <3>2, <3>4 DEF HolderClear, HasUnit
    <3>8. AtLabels'
      BY <1>0, <3>2, <3>4 DEF AtLabels, InLock, InWalk, InRound, HasUnit
    <3> QED BY <3>6, <3>7, <3>8 DEF Effect
  <2> QED BY <1>1, <2>1, <2>2, <2>3, <2>4, <2>5, <2>6, <2>7, <2>8, <2>9, <2>10, <2>11
          DEF LockCode
<1>2. ASSUME NEW t \in Threads, Client(t) PROVE Effect /\ HolderClear' /\ AtLabels'
  <2>1. ASSUME NEW l \in Locks, AcquireTest(t, l)
        PROVE  Effect /\ HolderClear' /\ AtLabels'
    <3>1. Effect /\ HolderClear'
      BY <1>0, <2>1, MoveEffect DEF AcquireTest, HasUnit
    <3>2. AtLabels'
      BY <1>0, <2>1 DEF AcquireTest, AtLabels, InLock, InWalk, InRound, HasUnit
    <3> QED BY <3>1, <3>2
  <2>2. ASSUME NEW l \in TryLocks, TryAcquire(t, l)
        PROVE  Effect /\ HolderClear' /\ AtLabels'
    <3>1. l \in Locks /\ sema[l].value > 0
      BY <2>2, LocksAssumption DEF TryAcquire
    <3>2. /\ sema' = [sema EXCEPT ![l].value = sema[l].value - 1] /\ holder' = holder
          /\ arg' = [arg EXCEPT ![t] = l] /\ pc' = [pc EXCEPT ![t] = "try_own"]
          /\ walk' = walk /\ pc[t] \notin HasUnit
      BY <2>2 DEF TryAcquire, HasUnit
    <3>3. holder[l] = None /\ \A u \in Threads : ~Owns(u, l)
      BY <3>1, FreeLock
    <3>4. /\ pc'[t] = "try_own" /\ arg'[t] = l
          /\ \A u \in Threads \ {t} : pc'[u] = pc[u] /\ arg'[u] = arg[u]
      BY <1>0, <3>2
    <3>5. /\ sema'[l].value = sema[l].value - 1
          /\ \A m \in Locks \ {l} : sema'[m].value = sema[m].value
      BY <1>0, <3>1, <3>2 DEF TypeOK
    <3>6. Takes(t, l)
      <4>1. Owns(t, l)'
        BY <3>4 DEF Owns, HasUnit
      <4>2. OthersKeep(t, l)
        BY <3>2, <3>4, <3>5 DEF OthersKeep, Owns, HasUnit
      <4> QED BY <3>1, <3>5, <4>1, <4>2 DEF Takes
    <3>7. HolderClear'
      BY <1>0, <3>2, <3>3, <3>4 DEF HolderClear, HasUnit
    <3>8. AtLabels'
      BY <1>0, <3>1, <3>2, <3>4 DEF AtLabels, InLock, InWalk, InRound, HasUnit
    <3> QED BY <3>1, <3>6, <3>7, <3>8 DEF Effect
  <2>3. ASSUME NEW l \in Locks, ReleaseStart(t, l)
        PROVE  Effect /\ HolderClear' /\ AtLabels'
    <3>1. /\ holder' = [holder EXCEPT ![l] = None] /\ sema' = sema /\ walk' = walk
          /\ arg' = [arg EXCEPT ![t] = l] /\ pc' = [pc EXCEPT ![t] = "rel_remove"]
          /\ pc[t] \notin HasUnit /\ holder[l] = t
      BY <2>3 DEF ReleaseStart, HasUnit
    <3>2. /\ pc'[t] = "rel_remove" /\ arg'[t] = l /\ holder'[l] = None
          /\ \A u \in Threads \ {t} : pc'[u] = pc[u] /\ arg'[u] = arg[u]
          /\ \A m \in Locks \ {l} : holder'[m] = holder[m]
      BY <1>0, <3>1
    <3>3. Keeps
      <4>1. \A u \in Threads : Owns(u, l)' <=> Owns(u, l)
        BY <1>0, <3>1, <3>2 DEF Owns, HasUnit
      <4>2. \A m \in Locks \ {l} : \A u \in Threads : Owns(u, m)' <=> Owns(u, m)
        BY <3>1, <3>2 DEF Owns, HasUnit
      <4> QED BY <3>1, <4>1, <4>2 DEF Keeps
    <3>4. HolderClear'
      <4> SUFFICES ASSUME NEW u \in Threads, pc'[u] \in HasUnit
                   PROVE  holder'[arg'[u]] = None
        BY DEF HolderClear
      <4>1. CASE u = t
        BY <3>2, <4>1
      <4>2. CASE u # t
        <5>1. pc[u] \in HasUnit /\ arg'[u] = arg[u]
          BY <3>2, <4>2
        <5>2. arg[u] \in Locks /\ holder[arg[u]] = None
          BY <1>0, <5>1 DEF AtLabels, HolderClear, InLock
        <5> QED BY <3>2, <5>1, <5>2
      <4> QED BY <4>1, <4>2
    <3>5. AtLabels'
      BY <1>0, <3>1, <3>2 DEF AtLabels, InLock, InWalk, InRound, HasUnit
    <3> QED BY <3>3, <3>4, <3>5 DEF Effect
  <2>4. ASSUME NEW e \in Events, EventDown(t, e)
        PROVE  Effect /\ HolderClear' /\ AtLabels'
    <3>1. e \in Semas /\ SemaDown(t, e) /\ pc[t] \notin HasUnit
      BY <2>4 DEF EventDown, Semas, HasUnit
    <3> QED BY <2>4, <3>1, SemaDownEffect DEF EventDown
  <2>5. ASSUME NEW e \in Events, EventUp(t, e)
        PROVE  Effect /\ HolderClear' /\ AtLabels'
    <3>1. e \in Semas /\ e \notin Locks
      BY LocksAssumption DEF Semas
    <3>2. \A m \in Locks : sema'[m].value = sema[m].value
      BY <2>5, <3>1, SemaUpValue DEF EventUp, SemaUp
    <3>3. UNCHANGED <<holder, pc, arg, walk>>
      BY <2>5 DEF EventUp
    <3> QED BY <1>0, <3>2, <3>3 DEF Effect, Keeps, Owns, HolderClear, AtLabels
  <2>6. ASSUME NEW p \in NewPrios, SetPriority(t, p)
        PROVE  Effect /\ HolderClear' /\ AtLabels'
    <3>1. Effect /\ HolderClear'
      BY <1>0, <2>6, MoveEffect DEF SetPriority, HasUnit
    <3>2. AtLabels'
      BY <1>0, <2>6 DEF SetPriority, AtLabels, InLock, InWalk, InRound, HasUnit
    <3> QED BY <3>1, <3>2
  <2> QED BY <1>2, <2>1, <2>2, <2>3, <2>4, <2>5, <2>6 DEF Client
<1>3. ASSUME NEW t \in Sliced, Preempt(t) PROVE Effect /\ HolderClear' /\ AtLabels'
  BY <1>0, <1>3 DEF Preempt, Effect, Keeps, Owns, HolderClear, AtLabels
<1>4. ASSUME NEW e \in Events, InterruptUp(e) PROVE Effect /\ HolderClear' /\ AtLabels'
  <2>1. e \in Semas /\ e \notin Locks
    BY LocksAssumption DEF Semas
  <2>2. \A m \in Locks : sema'[m].value = sema[m].value
    BY <1>4, <2>1, SemaUpValue DEF InterruptUp
  <2>3. UNCHANGED <<holder, pc, arg, walk>>
    BY <1>4 DEF InterruptUp
  <2> QED BY <1>0, <2>2, <2>3 DEF Effect, Keeps, Owns, HolderClear, AtLabels
<1>5. CASE IdleLoop
  BY <1>0, <1>5 DEF IdleLoop, Effect, Keeps, Owns, HolderClear, AtLabels
<1>6. CASE UNCHANGED vars
  BY <1>0, <1>6 DEF vars, Effect, Keeps, Owns, HolderClear, AtLabels
<1> QED BY <1>1, <1>2, <1>3, <1>4, <1>5, <1>6 DEF Next, Halted

-----------------------------------------------------------------------------
(* The invariant holds initially.                                          *)
LEMMA InitInv ==
  ASSUME Init
  PROVE  LockInv
<1>1. BasePrio \in [Threads -> Prios] /\ Locks \cap Events = {}
  BY LocksAssumption
<1>2. TypeOK
  <2>1. PICK q \in [1..Cardinality(Threads) -> Threads] : k = AllReady(q)
    BY DEF Init
  <2>2. q \in Seq(Threads)
    BY ThreadsAssumption, FS_CardinalityType, SeqDef
  <2>3. SchedTypeOK(k)
    BY <2>1, <2>2 DEF AllReady, SchedTypeOK, Status, Ready
  <2>4. sema \in [Semas -> [value : Nat, waiters : Seq(Threads)]]
    <3>1. <<>> \in Seq(Threads)
      BY EmptySeq
    <3> QED BY <3>1 DEF Init
  <2>5. dona \in [Threads -> Seq(Threads)]
    BY EmptySeq DEF Init
  <2>6. walk \in [Threads -> Walks]
    BY DEF Init, Walks
  <2> QED BY <1>1, <2>3, <2>4, <2>5, <2>6 DEF Init, TypeOK, Labels
<1>3. AtLabels
  BY DEF Init, AtLabels, InLock, InWalk, InRound, HasUnit
<1>4. HolderClear
  BY DEF Init, HolderClear, HasUnit
<1>5. LockExclusive
  <2>1. \A t \in Threads : t # None
    BY LocksAssumption
  <2>2. \A t \in Threads, l \in Locks : ~Owns(t, l)
    BY <2>1 DEF Init, Owns, HasUnit
  <2>3. \A l \in Locks : sema[l].value = 1
    BY DEF Init, Semas
  <2> QED BY <2>2, <2>3 DEF LockExclusive
<1> QED BY <1>2, <1>3, <1>4, <1>5 DEF LockInv

(* Every step keeps the invariant.                                         *)
LEMMA InvStep ==
  ASSUME LockInv, [Next]_vars
  PROVE  LockInv'
<1>1. TypeOK'
  BY TypeStep DEF LockInv
<1>2. Effect /\ HolderClear' /\ AtLabels'
  BY LockStep
<1>3. LockExclusive'
  BY <1>2, EffectExclusive
<1> QED BY <1>1, <1>2, <1>3 DEF LockInv

(* What every step of the code keeps holds throughout.                     *)
THEOREM LockInvariant == Spec => []LockInv
<1>1. Init => LockInv
  BY InitInv
<1>2. LockInv /\ [Next]_vars => LockInv'
  BY InvStep
<1> QED BY <1>1, <1>2, PTL DEF Spec

(* The variables stay in their types; in particular no walk of             *)
(* dona_priority and no list operation leaves the threads.                 *)
THEOREM TypeCorrect == Spec => []TypeOK
<1>1. LockInv => TypeOK
  BY DEF LockInv
<1> QED BY <1>1, LockInvariant, PTL

(* Whatever sema_up and refresh_priority sort, the merge sort of list.c    *)
(* puts in the order that the other theorems rely on.                      *)
THEOREM SortingAgrees == Spec => []MergeSortAgrees
<1>1. TypeOK => MergeSortAgrees
  <2> SUFFICES ASSUME TypeOK PROVE MergeSortAgrees
    OBVIOUS
  <2>1. ASSUME NEW s \in Semas PROVE SortsStably(sema[s].waiters, prio)
    <3>1. sema[s].waiters \in Seq(Threads)
      BY DEF TypeOK
    <3>2. Keyed(Threads, prio)
      BY PrioKey DEF Keyed
    <3> QED BY <3>1, <3>2, MergeSortCorrect
  <2>2. ASSUME NEW t \in Threads PROVE SortsStably(dona[t], DonaKey)
    <3>1. dona[t] \in Seq(Threads)
      BY DEF TypeOK
    <3>2. Keyed(Threads, DonaKey)
      BY DonaKeyType DEF Keyed
    <3> QED BY <3>1, <3>2, MergeSortCorrect
  <2> QED BY <2>1, <2>2, ShortLists DEF MergeSortAgrees
<1> QED BY <1>1, TypeCorrect, PTL

(* synch.c's locks exclude, in the windows where lock->holder is NULL too. *)
THEOREM Exclusion == Spec => []LockExclusive
<1>1. LockInv => LockExclusive
  BY DEF LockInv
<1> QED BY <1>1, LockInvariant, PTL

-----------------------------------------------------------------------------
(* Under the invariant OwnerOf is the thread that owns the lock.           *)
LEMMA OwnerOfLock ==
  ASSUME LockInv, NEW l \in Locks
  PROVE  /\ \A t \in Threads : Owns(t, l) => OwnerOf[l] = t
         /\ (\A t \in Threads : ~Owns(t, l)) => OwnerOf[l] = None
<1>1. ASSUME NEW t \in Threads, Owns(t, l) PROVE OwnerOf[l] = t
  <2>1. \A u \in Threads : Owns(u, l) => u = t
    BY <1>1, OneOwner
  <2> QED BY <1>1, <2>1 DEF OwnerOf
<1> QED BY <1>1 DEF OwnerOf

(* An effect on ownership is a step of Mutex, or a stutter.                *)
LEMMA EffectImplements ==
  ASSUME LockInv, LockInv', Effect
  PROVE  [Abstract!Next]_OwnerOf
<1>0. DOMAIN OwnerOf = Locks /\ DOMAIN OwnerOf' = Locks
  BY DEF OwnerOf
<1>1. ASSUME NEW l \in Locks
      PROVE  /\ \A t \in Threads : Owns(t, l)' => OwnerOf'[l] = t
             /\ (\A t \in Threads : ~Owns(t, l)') => OwnerOf'[l] = None
  <2>1. ASSUME NEW t \in Threads, Owns(t, l)' PROVE OwnerOf'[l] = t
    <3>1. \A u \in Threads : Owns(u, l)' => u = t
      BY <2>1 DEF LockInv, LockExclusive
    <3> QED BY <2>1, <3>1 DEF OwnerOf
  <2> QED BY <2>1 DEF OwnerOf
<1>2. ASSUME NEW l \in Locks, \A t \in Threads : Owns(t, l)' <=> Owns(t, l)
      PROVE  OwnerOf'[l] = OwnerOf[l]
  BY <1>1, <1>2, OwnerOfLock
<1>3. CASE Keeps
  <2>1. \A l \in Locks : OwnerOf'[l] = OwnerOf[l]
    BY <1>2, <1>3 DEF Keeps
  <2>2. OwnerOf' = OwnerOf
    BY <2>1 DEF OwnerOf
  <2> QED BY <2>2
<1>4. CASE \E t \in Threads, l \in Locks : Takes(t, l)
  <2>1. PICK t \in Threads, l \in Locks : Takes(t, l)
    BY <1>4
  <2>2. OwnerOf[l] = None
    BY <2>1, FreeLock, OwnerOfLock DEF Takes
  <2>3. OwnerOf'[l] = t
    BY <1>1, <2>1 DEF Takes
  <2>4. \A m \in Locks \ {l} : OwnerOf'[m] = OwnerOf[m]
    BY <1>2, <2>1 DEF Takes, OthersKeep
  <2>5. OwnerOf' = [OwnerOf EXCEPT ![l] = t]
    BY <1>0, <2>3, <2>4 DEF OwnerOf
  <2> QED BY <2>2, <2>5 DEF Abstract!Next, Abstract!Acquire
<1>5. CASE \E t \in Threads, l \in Locks : Gives(t, l)
  <2>1. PICK t \in Threads, l \in Locks : Gives(t, l)
    BY <1>5
  <2>2. OwnerOf[l] = t
    BY <2>1, OwnerOfLock DEF Gives
  <2>3. \A u \in Threads : ~Owns(u, l)'
    <3>1. \A u \in Threads \ {t} : ~Owns(u, l)
      BY <2>1, OneOwner DEF Gives
    <3> QED BY <2>1, <3>1 DEF Gives, OthersKeep
  <2>4. OwnerOf'[l] = None
    BY <1>1, <2>3
  <2>5. \A m \in Locks \ {l} : OwnerOf'[m] = OwnerOf[m]
    BY <1>2, <2>1 DEF Gives, OthersKeep
  <2>6. OwnerOf' = [OwnerOf EXCEPT ![l] = None]
    BY <1>0, <2>4, <2>5 DEF OwnerOf
  <2> QED BY <2>2, <2>6 DEF Abstract!Next, Abstract!Release
<1> QED BY <1>3, <1>4, <1>5 DEF Effect

(* The locks of synch.c implement the mutexes of Mutex.                    *)
THEOREM Refinement == Spec => ImplementsMutex
<1>1. Init => Abstract!Init
  <2> SUFFICES ASSUME Init PROVE Abstract!Init
    OBVIOUS
  <2>1. \A t \in Threads, l \in Locks : ~Owns(t, l)
    BY LocksAssumption DEF Init, Owns, HasUnit
  <2>2. OwnerOf = [l \in Locks |-> None]
    BY <2>1 DEF OwnerOf
  <2> QED BY <2>2 DEF Abstract!Init
<1>2. LockInv /\ LockInv' /\ [Next]_vars => [Abstract!Next]_OwnerOf
  BY LockStep, EffectImplements
<1> QED BY <1>1, <1>2, LockInvariant, PTL
        DEF Spec, ImplementsMutex, Abstract!Spec

-----------------------------------------------------------------------------
(* No wakeup is lost and thread.elem is in one list at a time.             *)

(* What the semaphores' waiters are and what they are owed.                *)
WaitInv == LockInv /\ ElemInOneList /\ NoLostWakeup

(* The sets that Woken counts are finite.                                  *)
LEMMA WokenFinite ==
  ASSUME NEW s
  PROVE  /\ IsFiniteSet(Woken(s)) /\ Cardinality(Woken(s)) \in Nat
         /\ IsFiniteSet(Woken(s)') /\ Cardinality(Woken(s)') \in Nat
<1>1. Woken(s) \subseteq Threads /\ Woken(s)' \subseteq Threads
  BY DEF Woken
<1>2. IsFiniteSet(Woken(s)) /\ IsFiniteSet(Woken(s)')
  BY <1>1, ThreadsAssumption, FS_Subset
<1> QED BY <1>2, FS_CardinalityType

(* A new scheduler state that agrees with the new lists of waiters.        *)
WaitersAgree(j, q, p, a) ==
  /\ Placed(j)
  /\ \A s \in Semas : /\ NoDuplicates(q[s].waiters)
                       /\ \A t \in Elems(q[s].waiters) : p[t] = "retry" /\ a[t] = s
  /\ \A t \in Threads : j.status[t] = Blocked <=> \E s \in Semas : t \in Elems(q[s].waiters)

(* ElemInOneList is the agreement of scheduler, lists and labels ...       *)
LEMMA AgreeNow == ElemInOneList <=> WaitersAgree(k, sema, pc, arg)
BY DEF ElemInOneList, WaitersAgree, Placed

(* ... and so it is in the next state.                                     *)
LEMMA AgreeThen ==
  ASSUME WaitersAgree(k', sema', pc', arg')
  PROVE  ElemInOneList'
BY DEF ElemInOneList, WaitersAgree, Placed

(* The lists of waiters hold threads, none of which runs.                  *)
LEMMA WaitersThreads ==
  ASSUME WaitInv, NEW s \in Semas
  PROVE  /\ sema[s].waiters \in Seq(Threads) /\ sema[s].value \in Nat
         /\ Elems(sema[s].waiters) \subseteq Threads
         /\ \A t \in Elems(sema[s].waiters) :
              t # k.cur /\ k.status[t] = Blocked /\ pc[t] = "retry" /\ arg[t] = s
<1>1. sema[s].waiters \in Seq(Threads) /\ sema[s].value \in Nat
  BY DEF WaitInv, LockInv, TypeOK
<1>2. Elems(sema[s].waiters) \subseteq Threads
  BY <1>1, LenProperties DEF Elems
<1> QED BY <1>1, <1>2 DEF WaitInv, ElemInOneList, Running, Blocked

(* Nothing moves but the processor.                                        *)
LEMMA SameWaiters ==
  ASSUME WaitInv, UNCHANGED <<sema, pc, arg>>, Placed(k'), SameBlocked(k', k)
  PROVE  ElemInOneList' /\ NoLostWakeup'
<1>1. WaitersAgree(k', sema', pc', arg')
  BY AgreeNow DEF WaitInv, WaitersAgree, SameBlocked
<1>2. \A s \in Semas : Woken(s)' = Woken(s)
  BY DEF Woken
<1>3. ASSUME NEW s \in Semas, sema'[s].waiters # <<>>
      PROVE  sema'[s].value <= Cardinality(Woken(s)')
  BY <1>2, <1>3 DEF WaitInv, NoLostWakeup
<1> QED BY <1>1, <1>3, AgreeThen DEF NoLostWakeup

(* A step that puts nobody to sleep, wakes nobody and adds no unit.        *)
LEMMA NoWaiterMoves ==
  ASSUME WaitInv, NEW t \in Threads, pc[t] # "retry", pc'[t] # "retry",
         \A u \in Threads \ {t} : pc'[u] = pc[u] /\ arg'[u] = arg[u],
         \A s \in Semas : sema'[s].waiters = sema[s].waiters /\ sema'[s].value <= sema[s].value
                          /\ sema'[s].value \in Nat,
         Placed(k'), SameBlocked(k', k)
  PROVE  ElemInOneList' /\ NoLostWakeup'
<1>1. \A s \in Semas : \A u \in Elems(sema[s].waiters) :
        u \in Threads /\ u # t /\ pc[u] = "retry" /\ arg[u] = s
  BY WaitersThreads
<1>2. WaitersAgree(k', sema', pc', arg')
  BY <1>1, AgreeNow DEF WaitInv, WaitersAgree, SameBlocked
<1>3. ASSUME NEW s \in Semas, sema'[s].waiters # <<>>
      PROVE  sema'[s].value <= Cardinality(Woken(s)')
  <2>1. Woken(s)' = Woken(s)
    BY DEF Woken
  <2>2. sema[s].value <= Cardinality(Woken(s))
    BY <1>3 DEF WaitInv, NoLostWakeup
  <2> QED BY <2>1, <2>2, WokenFinite, WaitersThreads
<1> QED BY <1>2, <1>3, AgreeThen DEF NoLostWakeup

(* sema_down takes a unit; a woken thread uses up the one it was owed.     *)
LEMMA UnitTaken ==
  ASSUME WaitInv, NEW t \in Threads, NEW s \in Semas, k.cur = t,
         pc[t] = "retry" => arg[t] = s, sema[s].value > 0,
         SemaDown(t, s)
  PROVE  ElemInOneList' /\ NoLostWakeup'
<1>0. /\ TypeOK /\ sema[s].value \in Nat /\ sema \in [Semas -> [value : Nat, waiters : Seq(Threads)]]
      /\ pc \in [Threads -> Labels] /\ arg \in [Threads -> Semas \cup {None}]
  BY DEF WaitInv, LockInv, TypeOK
<1>1. /\ sema' = [sema EXCEPT ![s].value = @ - 1] /\ k' = k
      /\ pc' = [pc EXCEPT ![t] = IF s \in Locks THEN "acq_own" ELSE "run"]
      /\ arg' = [arg EXCEPT ![t] = IF s \in Locks THEN s ELSE None]
  BY <1>0 DEF SemaDown
<1>2. /\ sema'[s].value = sema[s].value - 1
      /\ \A r \in Semas : sema'[r].waiters = sema[r].waiters /\ (r # s => sema'[r].value = sema[r].value)
      /\ pc'[t] # "retry" /\ \A u \in Threads \ {t} : pc'[u] = pc[u] /\ arg'[u] = arg[u]
  BY <1>0, <1>1
<1>3. \A r \in Semas : \A u \in Elems(sema[r].waiters) :
        u \in Threads /\ u # t /\ pc[u] = "retry" /\ arg[u] = r
  BY WaitersThreads
<1>4. WaitersAgree(k', sema', pc', arg')
  BY <1>1, <1>2, <1>3, AgreeNow DEF WaitInv, WaitersAgree
<1>5. ASSUME NEW r \in Semas, sema'[r].waiters # <<>>
      PROVE  sema'[r].value <= Cardinality(Woken(r)')
  <2>1. Woken(r)' = Woken(r) \ {t}
    BY <1>2 DEF Woken
  <2>2. sema[r].value <= Cardinality(Woken(r)) /\ sema[r].value \in Nat
    BY <1>2, <1>5, WaitersThreads DEF WaitInv, NoLostWakeup
  <2>3. CASE t \in Woken(r)
    <3>1. r = s
      BY <2>3 DEF Woken
    <3>2. Cardinality(Woken(r) \ {t}) = Cardinality(Woken(r)) - 1
      <4>1. IsFiniteSet(Woken(r))
        BY WokenFinite
      <4> QED BY <2>3, <4>1, FS_RemoveElement
    <3>3. Cardinality(Woken(r)') = Cardinality(Woken(r)) - 1
      BY <2>1, <3>2
    <3> QED BY <1>2, <2>2, <3>1, <3>3, WokenFinite
  <2>4. CASE t \notin Woken(r)
    <3>1. Woken(r)' = Woken(r)
      BY <2>1, <2>4
    <3> QED BY <1>2, <2>2, <3>1, WokenFinite
  <2> QED BY <2>3, <2>4
<1> QED BY <1>4, <1>5, AgreeThen DEF NoLostWakeup

(* sema_down waits: there is no unit to lose.                              *)
LEMMA Sleeps ==
  ASSUME WaitInv, NEW t \in Threads, NEW s \in Semas, k.cur = t,
         pc[t] = "retry" => arg[t] = s, sema[s].value = 0,
         SemaDown(t, s)
  PROVE  ElemInOneList' /\ NoLostWakeup'
<1>0. /\ TypeOK /\ SchedTypeOK(k) /\ sema \in [Semas -> [value : Nat, waiters : Seq(Threads)]]
      /\ pc \in [Threads -> Labels] /\ arg \in [Threads -> Semas \cup {None}]
      /\ Placed(k) /\ NoDuplicates(sema[s].waiters) /\ sema[s].waiters \in Seq(Threads)
  BY DEF WaitInv, LockInv, TypeOK, ElemInOneList, Placed
<1> DEFINE w == InsertOrdered(sema[s].waiters, t, prio)
<1>1. /\ sema' = [sema EXCEPT ![s].waiters = w] /\ k' = Block(k)
      /\ pc' = [pc EXCEPT ![t] = "retry"] /\ arg' = [arg EXCEPT ![t] = s]
  BY <1>0 DEF SemaDown
<1>2. \A r \in Semas : \A u \in Elems(sema[r].waiters) :
        u \in Threads /\ u # t /\ pc[u] = "retry" /\ arg[u] = r
  BY WaitersThreads
<1>3. Elems(w) = Elems(sema[s].waiters) \cup {t} /\ NoDuplicates(w)
  BY <1>0, <1>2, InsertOrderedProperties
<1> HIDE DEF w
<1>4. /\ sema'[s].value = 0 /\ sema'[s].waiters = w
      /\ \A r \in Semas \ {s} : sema'[r] = sema[r]
      /\ pc'[t] = "retry" /\ arg'[t] = s
      /\ \A u \in Threads \ {t} : pc'[u] = pc[u] /\ arg'[u] = arg[u]
  BY <1>0, <1>1
<1>5. /\ Placed(k')
      /\ \A u \in Threads : k'.status[u] = Blocked <=> k.status[u] = Blocked \/ u = t
  BY <1>0, <1>1, BlockPlaced
<1>6. \A r \in Semas : Elems(sema'[r].waiters) = IF r = s THEN Elems(sema[s].waiters) \cup {t}
                                                ELSE Elems(sema[r].waiters)
  BY <1>3, <1>4
<1>7. WaitersAgree(k', sema', pc', arg')
  <2>1. \A r \in Semas : NoDuplicates(sema'[r].waiters)
    BY <1>3, <1>4 DEF WaitInv, ElemInOneList
  <2>2. \A r \in Semas : \A u \in Elems(sema'[r].waiters) : pc'[u] = "retry" /\ arg'[u] = r
    BY <1>2, <1>4, <1>6
  <2>3. \A u \in Threads : k'.status[u] = Blocked <=> \E r \in Semas : u \in Elems(sema'[r].waiters)
    BY <1>5, <1>6 DEF WaitInv, ElemInOneList
  <2> QED BY <1>5, <2>1, <2>2, <2>3 DEF WaitersAgree
<1>8. ASSUME NEW r \in Semas, sema'[r].waiters # <<>>
      PROVE  sema'[r].value <= Cardinality(Woken(r)')
  <2>1. CASE r = s
    BY <1>4, <2>1, WokenFinite
  <2>2. CASE r # s
    <3>1. Woken(r)' = Woken(r)
      BY <1>4, <2>2 DEF Woken
    <3>2. sema[r].value <= Cardinality(Woken(r)) /\ sema'[r] = sema[r]
      BY <1>4, <1>8, <2>2 DEF WaitInv, NoLostWakeup
    <3> QED BY <3>1, <3>2
  <2> QED BY <2>1, <2>2
<1> QED BY <1>7, <1>8, AgreeThen DEF NoLostWakeup

(* sema_down, whichever way it goes.                                       *)
LEMMA SemaDownWaits ==
  ASSUME WaitInv, NEW t \in Threads, NEW s \in Semas, k.cur = t,
         pc[t] = "retry" => arg[t] = s, SemaDown(t, s)
  PROVE  ElemInOneList' /\ NoLostWakeup'
<1>1. sema[s].value \in Nat
  BY WaitersThreads
<1> QED BY <1>1, UnitTaken, Sleeps

(* sema_up: a waiter leaves the list with the unit, and is owed it.        *)
LEMMA SemaUpWaits ==
  ASSUME WaitInv, NEW s \in Semas,
         sema' = [sema EXCEPT ![s] = Upped(s)],
         Placed(WokenBy(s)) => Placed(k') /\ SameBlocked(k', WokenBy(s)),
         \A u \in Threads : \/ pc'[u] = pc[u] /\ arg'[u] = arg[u]
                            \/ pc[u] # "retry" /\ pc'[u] # "retry"
  PROVE  ElemInOneList' /\ NoLostWakeup'
<1> DEFINE o == WakeOrder(s)
<1>0. /\ TypeOK /\ SchedTypeOK(k) /\ sema \in [Semas -> [value : Nat, waiters : Seq(Threads)]]
      /\ Placed(k) /\ NoDuplicates(sema[s].waiters)
      /\ sema[s].waiters \in Seq(Threads) /\ sema[s].value \in Nat
  BY DEF WaitInv, LockInv, TypeOK, ElemInOneList, Placed
<1>1. o \in Seq(Threads) /\ Elems(o) = Elems(sema[s].waiters) /\ NoDuplicates(o)
  BY <1>0, PrioKey, SortedProperties DEF WakeOrder
<1>2. \A r \in Semas : \A u \in Elems(sema[r].waiters) :
        u \in Threads /\ u # k.cur /\ k.status[u] = Blocked /\ pc[u] = "retry" /\ arg[u] = r
  BY WaitersThreads
<1>3. /\ sema'[s].value = sema[s].value + 1
      /\ sema'[s].waiters = IF o = <<>> THEN <<>> ELSE Tail(o)
      /\ \A r \in Semas \ {s} : sema'[r] = sema[r]
  BY <1>0 DEF Upped
<1>4. \A u \in Threads : /\ pc'[u] = "retry" <=> pc[u] = "retry"
                         /\ pc[u] = "retry" => arg'[u] = arg[u]
  OBVIOUS
<1> HIDE DEF o
<1>5. CASE o = <<>>
  <2>1. sema'[s].waiters = <<>> /\ Elems(sema[s].waiters) = {} /\ Elems(<<>>) = {}
    BY <1>1, <1>3, <1>5 DEF Elems
  <2>2. WokenBy(s) = k
    BY <1>5 DEF WokenBy, o
  <2>3. sema[s].waiters = <<>>
    BY <1>0, <2>1, ElemsEmpty
  <2>4. \A r \in Semas : sema'[r].waiters = sema[r].waiters
    BY <1>3, <2>1, <2>3
  <2>5. WaitersAgree(k', sema', pc', arg')
    <3>1. Placed(k') /\ SameBlocked(k', k)
      BY <1>0, <2>2
    <3>2. \A r \in Semas : NoDuplicates(sema'[r].waiters)
      BY <2>4 DEF WaitInv, ElemInOneList
    <3>3. \A r \in Semas : \A u \in Elems(sema'[r].waiters) : pc'[u] = "retry" /\ arg'[u] = r
      BY <1>2, <1>4, <2>4
    <3>4. \A u \in Threads : k'.status[u] = Blocked <=> \E r \in Semas : u \in Elems(sema'[r].waiters)
      BY <2>4, <3>1 DEF WaitInv, ElemInOneList, SameBlocked
    <3> QED BY <3>1, <3>2, <3>3, <3>4 DEF WaitersAgree
  <2>6. ASSUME NEW r \in Semas, sema'[r].waiters # <<>>
        PROVE  sema'[r].value <= Cardinality(Woken(r)')
    <3>1. Woken(r)' = Woken(r)
      BY <1>4, <2>4 DEF Woken
    <3>2. r # s /\ sema'[r] = sema[r]
      BY <1>3, <2>1, <2>6
    <3> QED BY <2>6, <3>1, <3>2 DEF WaitInv, NoLostWakeup
  <2> QED BY <2>5, <2>6, AgreeThen DEF NoLostWakeup
<1>6. CASE o # <<>>
  <2> DEFINE h == Head(o)
  <2>1. /\ h \in Threads /\ h \in Elems(sema[s].waiters)
        /\ NoDuplicates(Tail(o)) /\ Elems(Tail(o)) = Elems(sema[s].waiters) \ {h}
    <3>1. o[1] = h /\ 1 \in DOMAIN o
      BY <1>1, <1>6, LenProperties, EmptySeq, HeadTailProperties
    <3>2. h \in Elems(o)
      BY <3>1 DEF Elems
    <3> QED BY <1>1, <1>6, <3>2, HeadTailType, TailElems
  <2>2. WokenBy(s) = Unblock(k, prio, h)
    BY <1>6 DEF WokenBy, o
  <2> HIDE DEF h
  <2>3. k.status[h] = Blocked /\ pc[h] = "retry" /\ arg[h] = s
    BY <1>2, <2>1
  <2>4. /\ Placed(WokenBy(s))
        /\ \A u \in Threads : WokenBy(s).status[u] = Blocked <=> k.status[u] = Blocked /\ u # h
    BY <1>0, <2>1, <2>2, <2>3, UnblockPlaced
  <2>5. sema'[s].waiters = Tail(o) /\ \A r \in Semas \ {s} : h \notin Elems(sema[r].waiters)
    BY <1>2, <1>3, <1>6, <2>3
  <2>6. \A r \in Semas : Elems(sema'[r].waiters) = Elems(sema[r].waiters) \ {h}
    BY <1>3, <2>1, <2>5
  <2>7. WaitersAgree(k', sema', pc', arg')
    <3>1. \A r \in Semas : NoDuplicates(sema'[r].waiters)
      BY <1>3, <2>1, <2>5 DEF WaitInv, ElemInOneList
    <3>2. \A r \in Semas : \A u \in Elems(sema'[r].waiters) : pc'[u] = "retry" /\ arg'[u] = r
      BY <1>2, <1>4, <2>6
    <3>3. \A u \in Threads : k'.status[u] = Blocked <=> \E r \in Semas : u \in Elems(sema'[r].waiters)
      BY <2>4, <2>6 DEF WaitInv, ElemInOneList, SameBlocked
    <3> QED BY <2>4, <3>1, <3>2, <3>3 DEF WaitersAgree
  <2>8. ASSUME NEW r \in Semas, sema'[r].waiters # <<>>
        PROVE  sema'[r].value <= Cardinality(Woken(r)')
    <3>1. CASE r = s
      <4>1. Woken(s)' = Woken(s) \cup {h}
        BY <1>4, <2>1, <2>3, <2>6 DEF Woken
      <4>2. h \notin Woken(s)
        BY <2>1 DEF Woken
      <4>3. Cardinality(Woken(s) \cup {h}) = Cardinality(Woken(s)) + 1
        <5>1. IsFiniteSet(Woken(s))
          BY WokenFinite
        <5> QED BY <4>2, <5>1, FS_AddElement
      <4>4. sema[s].value <= Cardinality(Woken(s))
        <5>1. sema[s].waiters # <<>>
          BY <2>1 DEF Elems
        <5> QED BY <5>1 DEF WaitInv, NoLostWakeup
      <4>5. Cardinality(Woken(s)') = Cardinality(Woken(s)) + 1
        BY <4>1, <4>3
      <4> QED BY <1>0, <1>3, <3>1, <4>4, <4>5, WokenFinite
    <3>2. CASE r # s
      <4>1. Woken(r)' = Woken(r)
        BY <1>3, <1>4, <3>2 DEF Woken
      <4> QED BY <1>3, <2>8, <3>2, <4>1 DEF WaitInv, NoLostWakeup
    <3> QED BY <3>1, <3>2
  <2> QED BY <2>7, <2>8, AgreeThen DEF NoLostWakeup
<1> QED BY <1>5, <1>6

-----------------------------------------------------------------------------
(* Both hold at boot.                                                      *)
LEMMA WaitInit ==
  ASSUME Init
  PROVE  ElemInOneList /\ NoLostWakeup
<1>1. PICK q \in [1..Cardinality(Threads) -> Threads] : NoDuplicates(q) /\ k = AllReady(q)
  BY DEF Init
<1>2. Placed(k) /\ \A t \in Threads : k.status[t] # Blocked
  BY <1>1, AllReadyPlaced
<1>3. \A s \in Semas : sema[s].waiters = <<>>
  BY DEF Init
<1>4. NoDuplicates(<<>>) /\ Elems(<<>>) = {}
  BY DEF NoDuplicates, Elems
<1> QED BY <1>2, <1>3, <1>4, AgreeNow DEF WaitersAgree, NoLostWakeup

(* Every step keeps both.                                                  *)
LEMMA WaitStep ==
  ASSUME WaitInv, [Next]_vars
  PROVE  ElemInOneList' /\ NoLostWakeup'
<1> USE DEF prioVars, lockVars, At, Goto
<1>0. /\ TypeOK /\ AtLabels /\ SchedTypeOK(k) /\ Placed(k) /\ SameBlocked(k, k)
      /\ sema \in [Semas -> [value : Nat, waiters : Seq(Threads)]]
      /\ pc \in [Threads -> Labels] /\ arg \in [Threads -> Semas \cup {None}]
      /\ \A s \in Semas : sema[s].value <= sema[s].value /\ sema[s].value \in Nat
  BY DEF WaitInv, LockInv, TypeOK, ElemInOneList, Placed, SameBlocked
<1>1. ASSUME NEW t \in Threads, LockCode(t) PROVE ElemInOneList' /\ NoLostWakeup'
  <2>1. CASE AcquireRead(t) \/ AcquireInsert(t) \/ AcquireOwn(t) \/ TryOwn(t)
             \/ DonateTest(t) \/ DonateHolder(t) \/ DonateGive(t)
             \/ RemoveWithLock(t) \/ RefreshReset(t) \/ RefreshRaise(t)
    <3>1. UNCHANGED <<k, sema>> /\ pc[t] # "retry"
      BY <2>1 DEF AcquireRead, AcquireInsert, AcquireOwn, TryOwn, DonateTest, DonateHolder,
                  DonateGive, RemoveWithLock, RefreshReset, RefreshRaise
    <3>2. pc'[t] # "retry" /\ \A u \in Threads \ {t} : pc'[u] = pc[u] /\ arg'[u] = arg[u]
      <4>1. CASE AcquireRead(t)
        BY <1>0, <4>1 DEF AcquireRead
      <4>2. CASE AcquireInsert(t)
        BY <1>0, <4>2 DEF AcquireInsert
      <4>3. CASE DonateTest(t) \/ DonateHolder(t) \/ DonateGive(t)
        BY <1>0, <4>3 DEF DonateTest, DonateHolder, DonateGive
      <4>4. CASE AcquireOwn(t) \/ TryOwn(t)
        BY <1>0, <4>4 DEF AcquireOwn, TryOwn
      <4>5. CASE RemoveWithLock(t) \/ RefreshReset(t) \/ RefreshRaise(t)
        BY <1>0, <4>5 DEF RemoveWithLock, RefreshReset, RefreshRaise
      <4> QED BY <2>1, <4>1, <4>2, <4>3, <4>4, <4>5
    <3> QED BY <1>0, <3>1, <3>2, NoWaiterMoves
  <2>2. CASE AcquireDown(t)
    <3>1. arg[t] \in Semas /\ SemaDown(t, arg[t]) /\ k.cur = t
      BY <1>0, <2>2 DEF AcquireDown, AtLabels, InLock, Semas
    <3> QED BY <3>1, SemaDownWaits
  <2>3. CASE Retry(t)
    <3>1. arg[t] \in Semas /\ SemaDown(t, arg[t]) /\ k.cur = t
      BY <1>0, <2>3 DEF Retry, AtLabels
    <3> QED BY <3>1, SemaDownWaits
  <2>4. CASE ReleaseUp(t)
    <3>1. arg[t] \in Semas /\ SemaUp(arg[t])
      BY <1>0, <2>4 DEF ReleaseUp, AtLabels, InLock, InWalk, InRound, HasUnit, Semas
    <3>2. SchedTypeOK(WokenBy(arg[t]))
      BY <1>0, <3>1, UppedType
    <3>3. Placed(WokenBy(arg[t])) => Placed(k') /\ SameBlocked(k', WokenBy(arg[t]))
      BY <3>1, <3>2, CompReadyPlaced DEF SemaUp
    <3>4. \A u \in Threads : \/ pc'[u] = pc[u] /\ arg'[u] = arg[u]
                             \/ pc[u] # "retry" /\ pc'[u] # "retry"
      BY <1>0, <2>4 DEF ReleaseUp
    <3> QED BY <3>1, <3>3, <3>4, SemaUpWaits DEF SemaUp
  <2>5. CASE SetRaise(t)
    <3>1. UNCHANGED <<sema, arg>> /\ pc[t] # "retry" /\ k' = CompReady(k, prio')
      BY <2>5 DEF SetRaise
    <3>2. pc'[t] # "retry" /\ \A u \in Threads \ {t} : pc'[u] = pc[u] /\ arg'[u] = arg[u]
      BY <1>0, <2>5 DEF SetRaise
    <3>3. Placed(k') /\ SameBlocked(k', k)
      BY <1>0, <3>1, CompReadyPlaced
    <3> QED BY <1>0, <3>1, <3>2, <3>3, NoWaiterMoves
  <2> QED BY <1>1, <2>1, <2>2, <2>3, <2>4, <2>5 DEF LockCode
<1>2. ASSUME NEW t \in Threads, Client(t) PROVE ElemInOneList' /\ NoLostWakeup'
  <2>1. ASSUME NEW l \in Locks, AcquireTest(t, l) \/ ReleaseStart(t, l)
        PROVE  ElemInOneList' /\ NoLostWakeup'
    <3>1. UNCHANGED <<k, sema>> /\ pc[t] # "retry"
      BY <2>1 DEF AcquireTest, ReleaseStart
    <3>2. pc'[t] # "retry" /\ \A u \in Threads \ {t} : pc'[u] = pc[u] /\ arg'[u] = arg[u]
      BY <1>0, <2>1 DEF AcquireTest, ReleaseStart
    <3> QED BY <1>0, <3>1, <3>2, NoWaiterMoves
  <2>2. ASSUME NEW l \in TryLocks, TryAcquire(t, l) PROVE ElemInOneList' /\ NoLostWakeup'
    <3>1. l \in Semas /\ sema[l].value > 0 /\ sema' = [sema EXCEPT ![l].value = @ - 1] /\ k' = k
      BY <2>2, LocksAssumption DEF TryAcquire, Semas
    <3>2. pc'[t] # "retry" /\ pc[t] # "retry" /\ \A u \in Threads \ {t} : pc'[u] = pc[u] /\ arg'[u] = arg[u]
      BY <1>0, <2>2 DEF TryAcquire
    <3>3. \A s \in Semas : sema'[s].waiters = sema[s].waiters /\ sema'[s].value <= sema[s].value
                           /\ sema'[s].value \in Nat
      BY <1>0, <3>1
    <3> QED BY <1>0, <3>1, <3>2, <3>3, NoWaiterMoves
  <2>3. ASSUME NEW e \in Events, EventDown(t, e) PROVE ElemInOneList' /\ NoLostWakeup'
    <3>1. e \in Semas /\ SemaDown(t, e) /\ k.cur = t /\ pc[t] # "retry"
      BY <2>3 DEF EventDown, Semas
    <3> QED BY <3>1, SemaDownWaits
  <2>4. ASSUME NEW e \in Events, EventUp(t, e) PROVE ElemInOneList' /\ NoLostWakeup'
    <3>1. e \in Semas /\ SemaUp(e) /\ UNCHANGED <<pc, arg>>
      BY <2>4 DEF EventUp, Semas
    <3>2. SchedTypeOK(WokenBy(e))
      BY <1>0, <3>1, UppedType
    <3>3. Placed(WokenBy(e)) => Placed(k') /\ SameBlocked(k', WokenBy(e))
      BY <3>1, <3>2, CompReadyPlaced DEF SemaUp
    <3> QED BY <3>1, <3>3, SemaUpWaits DEF SemaUp
  <2>5. ASSUME NEW p \in NewPrios, SetPriority(t, p) PROVE ElemInOneList' /\ NoLostWakeup'
    <3>1. UNCHANGED <<k, sema>> /\ pc[t] # "retry"
      BY <2>5 DEF SetPriority
    <3>2. pc'[t] # "retry" /\ \A u \in Threads \ {t} : pc'[u] = pc[u] /\ arg'[u] = arg[u]
      BY <1>0, <2>5 DEF SetPriority
    <3> QED BY <1>0, <3>1, <3>2, NoWaiterMoves
  <2> QED BY <1>2, <2>1, <2>2, <2>3, <2>4, <2>5 DEF Client
<1>3. ASSUME NEW t \in Sliced, Preempt(t) PROVE ElemInOneList' /\ NoLostWakeup'
  <2>1. UNCHANGED <<sema, pc, arg>> /\ pc[t] # "retry" /\ k' = Yield(k, prio) /\ t \in Threads
    BY <1>3, LocksAssumption DEF Preempt
  <2>2. Placed(k') /\ SameBlocked(k', k)
    BY <1>0, <2>1, YieldPlaced
  <2> QED BY <1>0, <2>1, <2>2, NoWaiterMoves
<1>4. ASSUME NEW e \in Events, InterruptUp(e) PROVE ElemInOneList' /\ NoLostWakeup'
  <2>1. e \in Semas /\ sema' = [sema EXCEPT ![e] = Upped(e)] /\ k' = WokenBy(e) /\ UNCHANGED <<pc, arg>>
    BY <1>4 DEF InterruptUp, Semas
  <2>2. SameBlocked(k', WokenBy(e))
    BY <2>1 DEF SameBlocked
  <2> QED BY <2>1, <2>2, SemaUpWaits
<1>5. CASE IdleLoop
  <2>1. UNCHANGED <<sema, pc, arg>> /\ k' = Block(k) /\ k.cur = Idle
    BY <1>5 DEF IdleLoop
  <2>2. Placed(k') /\ SameBlocked(k', k)
    BY <1>0, <2>1, BlockPlaced, ThreadsAssumption DEF SameBlocked
  <2> QED BY <2>1, <2>2, SameWaiters
<1>6. CASE UNCHANGED vars
  <2>1. UNCHANGED <<k, sema, pc, arg>>
    BY <1>6 DEF vars
  <2> QED BY <1>0, <2>1, SameWaiters
<1> QED BY <1>1, <1>2, <1>3, <1>4, <1>5, <1>6 DEF Next, Halted

(* Every semaphore's waiters and units agree, whatever the interleaving.   *)
THEOREM WaitInvariant == Spec => []WaitInv
<1>1. Init => WaitInv
  BY InitInv, WaitInit DEF WaitInv
<1>2. WaitInv /\ [Next]_vars => WaitInv'
  BY InvStep, WaitStep DEF WaitInv
<1> QED BY <1>1, <1>2, PTL DEF Spec

(* No thread sleeps on a semaphore beside a unit that nobody was woken for.*)
THEOREM NoneLost == Spec => []NoLostWakeup
<1>1. WaitInv => NoLostWakeup
  BY DEF WaitInv
<1> QED BY <1>1, WaitInvariant, PTL

(* thread.elem is in at most one list at a time, the one status names.     *)
THEOREM OneList == Spec => []ElemInOneList
<1>1. WaitInv => ElemInOneList
  BY DEF WaitInv
<1> QED BY <1>1, WaitInvariant, PTL

-----------------------------------------------------------------------------
(* Whom sema_up wakes.                                                     *)

(* Only sema_up takes a thread off a list of waiters, and it takes the     *)
(* front of the list that it has just sorted.                              *)
LEMMA UppedWakes ==
  ASSUME WaitInv, NEW s \in Semas, sema' = [sema EXCEPT ![s] = Upped(s)],
         NEW r \in Semas, NEW t \in Elems(sema[r].waiters) \ Elems(sema'[r].waiters)
  PROVE  WokenFirst(r, t)
<1> DEFINE q == sema[s].waiters
           o == WakeOrder(s)
<1>1. /\ TypeOK /\ sema \in [Semas -> [value : Nat, waiters : Seq(Threads)]]
      /\ q \in Seq(Threads) /\ NoDuplicates(q)
  BY DEF WaitInv, LockInv, TypeOK, ElemInOneList
<1>2. r = s
  BY <1>1
<1>3. o = Sorted(q, prio) /\ o \in Seq(Threads) /\ Elems(o) = Elems(q) /\ NoDuplicates(o)
  BY <1>1, PrioKey, SortedProperties DEF WakeOrder
<1>4. sema'[s].waiters = IF o = <<>> THEN <<>> ELSE Tail(o)
  BY <1>1 DEF Upped
<1>5. o # <<>>
  <2>1. Elems(q) # {}
    BY <1>2
  <2>2. o = <<>> <=> Elems(o) = {}
    BY <1>3, ElemsEmpty
  <2> QED BY <1>3, <2>1, <2>2
<1> HIDE DEF o, q
<1>6. t = Head(o)
  <2>1. Elems(Tail(o)) = Elems(o) \ {Head(o)}
    BY <1>3, <1>5, TailElems
  <2> QED BY <1>2, <1>3, <1>4, <1>5, <2>1 DEF q
<1>7. PICK j \in DOMAIN q : t = q[j] /\ \A i \in DOMAIN q : i # j => Before(q, prio, j, i)
  <2>1. \A u \in Threads : prio[u] \in Int
    BY <1>1, PrioKey
  <2>2. Sorted(q, prio) # <<>>
    BY <1>3, <1>5
  <2> QED BY <1>1, <1>3, <1>6, <2>1, <2>2, SortedFront
<1>8. ASSUME NEW i \in DOMAIN q, NEW h \in DOMAIN q, q[i] = t
      PROVE  prio[t] > prio[q[h]] \/ (prio[t] = prio[q[h]] /\ i <= h)
  <2>1. i = j
    BY <1>1, <1>7, <1>8 DEF NoDuplicates
  <2>2. Len(q) \in Nat /\ DOMAIN q = 1..Len(q)
    BY <1>1, LenProperties DEF q
  <2>3. CASE h = j
    BY <1>7, <2>1, <2>2, <2>3
  <2>4. CASE h # j
    <3>1. Before(q, prio, j, h)
      BY <1>7, <2>4
    <3>2. prio[q[j]] > prio[q[h]] \/ (prio[q[j]] = prio[q[h]] /\ j < h)
      BY <3>1 DEF Before
    <3>3. i \in Nat /\ j \in Nat /\ h \in Nat
      BY <2>2
    <3> QED BY <1>7, <2>1, <3>2, <3>3
  <2> QED BY <2>3, <2>4
<1> QED BY <1>2, <1>8 DEF WokenFirst, q

(* A step that keeps every waiter wakes nobody.                            *)
LEMMA NobodyWoken ==
  ASSUME \A s \in Semas : Elems(sema[s].waiters) \subseteq Elems(sema'[s].waiters)
  PROVE  \A s \in Semas : \A t \in Elems(sema[s].waiters) \ Elems(sema'[s].waiters) : WokenFirst(s, t)
OBVIOUS

(* sema_down takes nobody off a list.                                      *)
LEMMA DownKeepsWaiters ==
  ASSUME TypeOK, NEW t \in Threads, NEW s \in Semas, SemaDown(t, s)
  PROVE  \A r \in Semas : Elems(sema[r].waiters) \subseteq Elems(sema'[r].waiters)
<1>1. sema \in [Semas -> [value : Nat, waiters : Seq(Threads)]] /\ sema[s].waiters \in Seq(Threads)
  BY DEF TypeOK
<1>2. CASE sema' = [sema EXCEPT ![s].value = @ - 1]
  BY <1>1, <1>2
<1>3. CASE sema' = [sema EXCEPT ![s].waiters = InsertOrdered(@, t, prio)]
  <2>1. Elems(InsertOrdered(sema[s].waiters, t, prio)) = Elems(sema[s].waiters) \cup {t}
    BY <1>1, InsertOrderedProperties
  <2>2. sema'[s].waiters = InsertOrdered(sema[s].waiters, t, prio)
    BY <1>1, <1>3
  <2>3. \A r \in Semas \ {s} : sema'[r] = sema[r]
    BY <1>1, <1>3
  <2> QED BY <2>1, <2>2, <2>3
<1> QED BY <1>2, <1>3 DEF SemaDown

(* Every step of the code that wakes a thread wakes the first one.         *)
LEMMA WakeStep ==
  ASSUME WaitInv, [Next]_vars
  PROVE  \A s \in Semas : \A t \in Elems(sema[s].waiters) \ Elems(sema'[s].waiters) : WokenFirst(s, t)
<1> USE DEF prioVars, lockVars, At, Goto
<1> DEFINE Goal == \A s \in Semas : \A t \in Elems(sema[s].waiters) \ Elems(sema'[s].waiters) :
                     WokenFirst(s, t)
<1>0. /\ TypeOK /\ AtLabels /\ sema \in [Semas -> [value : Nat, waiters : Seq(Threads)]]
  BY DEF WaitInv, LockInv, TypeOK
<1>1. ASSUME UNCHANGED sema PROVE Goal
  BY <1>1
<1>2. ASSUME NEW s \in Semas, NEW t \in Threads, SemaDown(t, s) PROVE Goal
  BY <1>0, <1>2, DownKeepsWaiters, NobodyWoken
<1>3. ASSUME NEW s \in Semas, sema' = [sema EXCEPT ![s] = Upped(s)] PROVE Goal
  BY <1>3, UppedWakes
<1> HIDE DEF Goal
<1>4. ASSUME NEW t \in Threads, LockCode(t) PROVE Goal
  <2>1. CASE AcquireRead(t) \/ AcquireInsert(t) \/ AcquireOwn(t) \/ TryOwn(t)
             \/ DonateTest(t) \/ DonateHolder(t) \/ DonateGive(t)
             \/ RemoveWithLock(t) \/ RefreshReset(t) \/ RefreshRaise(t)
    <3>1. UNCHANGED sema
      BY <2>1 DEF AcquireRead, AcquireInsert, AcquireOwn, TryOwn, DonateTest, DonateHolder,
                  DonateGive, RemoveWithLock, RefreshReset, RefreshRaise
    <3> QED BY <3>1, <1>1
  <2>2. CASE AcquireDown(t) \/ Retry(t)
    <3>1. arg[t] \in Semas /\ SemaDown(t, arg[t])
      BY <1>0, <2>2 DEF AcquireDown, Retry, AtLabels, InLock, Semas
    <3> QED BY <3>1, <1>2
  <2>3. CASE ReleaseUp(t)
    <3>1. arg[t] \in Semas /\ sema' = [sema EXCEPT ![arg[t]] = Upped(arg[t])]
      BY <1>0, <2>3 DEF ReleaseUp, SemaUp, AtLabels, InLock, InWalk, InRound, HasUnit, Semas
    <3> QED BY <3>1, <1>3
  <2>4. CASE SetRaise(t)
    BY <2>4, <1>1 DEF SetRaise
  <2> QED BY <1>4, <2>1, <2>2, <2>3, <2>4 DEF LockCode
<1>5. ASSUME NEW t \in Threads, Client(t) PROVE Goal
  <2>1. ASSUME NEW l \in Locks, AcquireTest(t, l) \/ ReleaseStart(t, l) PROVE Goal
    BY <2>1, <1>1 DEF AcquireTest, ReleaseStart
  <2>2. ASSUME NEW l \in TryLocks, TryAcquire(t, l) PROVE Goal
    <3>1. sema' = [sema EXCEPT ![l].value = @ - 1]
      BY <2>2 DEF TryAcquire
    <3>2. \A s \in Semas : Elems(sema[s].waiters) \subseteq Elems(sema'[s].waiters)
      BY <1>0, <3>1
    <3> QED BY <3>2 DEF Goal
  <2>3. ASSUME NEW e \in Events, EventDown(t, e) PROVE Goal
    <3>1. e \in Semas /\ SemaDown(t, e)
      BY <2>3 DEF EventDown, Semas
    <3> QED BY <3>1, <1>2
  <2>4. ASSUME NEW e \in Events, EventUp(t, e) PROVE Goal
    <3>1. e \in Semas /\ sema' = [sema EXCEPT ![e] = Upped(e)]
      BY <2>4 DEF EventUp, SemaUp, Semas
    <3> QED BY <3>1, <1>3
  <2>5. ASSUME NEW p \in NewPrios, SetPriority(t, p) PROVE Goal
    BY <2>5, <1>1 DEF SetPriority
  <2> QED BY <1>5, <2>1, <2>2, <2>3, <2>4, <2>5 DEF Client
<1>6. ASSUME NEW t \in Sliced, Preempt(t) PROVE Goal
  BY <1>6, <1>1 DEF Preempt
<1>7. ASSUME NEW e \in Events, InterruptUp(e) PROVE Goal
  <2>1. e \in Semas /\ sema' = [sema EXCEPT ![e] = Upped(e)]
    BY <1>7 DEF InterruptUp, Semas
  <2> QED BY <2>1, <1>3
<1>8. ASSUME IdleLoop \/ UNCHANGED vars PROVE Goal
  BY <1>8, <1>1 DEF IdleLoop, vars
<1>9. Goal
  BY <1>4, <1>5, <1>6, <1>7, <1>8 DEF Next, Halted
<1> QED BY <1>9 DEF Goal

(* Whoever is woken has the highest priority of the waiters at that time,  *)
(* donations received while waiting included, and is the one that has      *)
(* waited longest among equals (the sort before every list_pop_front).     *)
THEOREM WokenInOrder == Spec => WakesHighest
<1>1. WaitInv /\ [Next]_vars =>
        [\A s \in Semas : \A t \in Elems(sema[s].waiters) \ Elems(sema'[s].waiters) :
           WokenFirst(s, t)]_vars
  BY WakeStep
<1> QED BY <1>1, WaitInvariant, PTL DEF Spec, WakesHighest

-----------------------------------------------------------------------------
(* Who runs.                                                               *)

(* Priorities change only by thread_set_priority: no donation raises one.  *)
Undonated == [][prio' = prio \/ \E t \in Threads, p \in NewPrios : SetPriority(t, p)]_vars

(* thread_set_priority has set the priority and not yet looked at the list.*)
Rescheduling == k.cur # Idle /\ pc[k.cur] = "set_raise"

(* While nothing is donated the ready list is in order, and no ready       *)
(* thread is above the running one, wherever that is in the code but in    *)
(* thread_set_priority.                                                    *)
HighInv ==
  /\ WaitInv
  /\ Descending(k.ready, prio)
  /\ fault = NoFault => HighestFirst(k, prio) \/ Rescheduling

(* Waking a thread keeps the ready list in order.                          *)
LEMMA WokenByOrder ==
  ASSUME WaitInv, Descending(k.ready, prio), NEW s \in Semas
  PROVE  SchedTypeOK(WokenBy(s)) /\ Descending(WokenBy(s).ready, prio)
<1>1. TypeOK /\ SchedTypeOK(k) /\ sema[s].waiters \in Seq(Threads)
  BY DEF WaitInv, LockInv, TypeOK
<1>2. SchedTypeOK(WokenBy(s))
  BY <1>1, UppedType
<1>3. CASE WakeOrder(s) = <<>>
  BY <1>2, <1>3 DEF WokenBy
<1>4. CASE WakeOrder(s) # <<>>
  <2>1. WakeOrder(s) \in Seq(Threads)
    BY <1>1, PrioKey, SortedProperties DEF WakeOrder
  <2>2. Head(WakeOrder(s)) \in Threads
    BY <1>4, <2>1, HeadTailType
  <2>3. \A t \in Threads : prio[t] \in Int
    BY <1>1, PrioKey
  <2>4. Descending(Unblock(k, prio, Head(WakeOrder(s))).ready, prio)
    BY <1>1, <2>2, <2>3, UnblockOrder
  <2> QED BY <1>2, <1>4, <2>4 DEF WokenBy
<1> QED BY <1>2, <1>3, <1>4

(* thread_set_priority changes the place of nobody in the list.            *)
LEMMA SetPriorityHigh ==
  ASSUME HighInv, NEW t \in Threads, NEW p \in NewPrios, SetPriority(t, p)
  PROVE  Descending(k'.ready, prio') /\ Rescheduling'
<1>1. /\ Placed(k) /\ prio \in [Threads -> Prios] /\ k.ready \in Seq(Threads)
      /\ pc \in [Threads -> Labels]
  BY DEF HighInv, WaitInv, LockInv, TypeOK, ElemInOneList, Placed, SchedTypeOK
<1>2. k.cur = t /\ k' = k /\ \A u \in Threads \ {t} : prio'[u] = prio[u]
  BY <1>1 DEF SetPriority, At
<1>3. t \notin Elems(k.ready)
  BY <1>1, <1>2 DEF Placed, Running, Ready
<1>4. \A i \in DOMAIN k.ready : k.ready[i] \in Threads \ {t}
  BY <1>1, <1>3, LenProperties DEF Elems
<1>5. Descending(k.ready, prio')
  BY <1>2, <1>4 DEF HighInv, Descending
<1>6. Rescheduling'
  BY <1>1, <1>2, ThreadsAssumption DEF SetPriority, Goto, Rescheduling
<1> QED BY <1>2, <1>5, <1>6

(* Every step that donates nothing keeps a highest thread running.         *)
LEMMA HighStep ==
  ASSUME HighInv, [Next]_vars,
         [prio' = prio \/ \E t \in Threads, p \in NewPrios : SetPriority(t, p)]_vars
  PROVE  HighInv'
<1> USE DEF prioVars, lockVars, At, Goto
<1>0. /\ WaitInv /\ TypeOK /\ AtLabels /\ SchedTypeOK(k) /\ Descending(k.ready, prio)
      /\ \A t \in Threads : prio[t] \in Int
  BY PrioKey DEF HighInv, WaitInv, LockInv, TypeOK
<1>1. WaitInv'
  BY InvStep, WaitStep DEF HighInv, WaitInv
<1> DEFINE Goal == /\ Descending(k'.ready, prio')
                   /\ fault' = NoFault => HighestFirst(k', prio') \/ Rescheduling'
<1>2. ASSUME HighestFirst(k', prio') PROVE Goal
  BY <1>2 DEF HighestFirst
<1>3. ASSUME UNCHANGED <<k, prio>>, fault' = NoFault => fault = NoFault,
             ~Rescheduling \/ UNCHANGED pc
      PROVE  Goal
  BY <1>3 DEF HighInv, Rescheduling
<1>4. ASSUME NEW t \in Threads, NEW p \in NewPrios, SetPriority(t, p) PROVE Goal
  BY <1>4, SetPriorityHigh
<1> HIDE DEF Goal
<1>5. ASSUME prio' = prio PROVE Goal
  <2>1. ASSUME NEW s \in Semas, NEW t \in Threads, SemaDown(t, s), fault' = fault, ~Rescheduling
        PROVE  Goal
    <3>1. CASE k' = k
      BY <1>3, <1>5, <2>1, <3>1
    <3>2. CASE k' = Block(k)
      BY <1>0, <1>2, <1>5, <3>2, BlockHighest
    <3> QED BY <2>1, <3>1, <3>2 DEF SemaDown
  <2>2. ASSUME NEW s \in Semas, SemaUp(s) PROVE Goal
    BY <1>0, <1>2, <1>5, <2>2, WokenByOrder, CompReadyHighest DEF SemaUp
  <2>3. ASSUME NEW t \in Threads, LockCode(t) PROVE Goal
    <3>1. CASE AcquireRead(t) \/ AcquireInsert(t) \/ AcquireOwn(t) \/ TryOwn(t)
               \/ DonateTest(t) \/ DonateHolder(t) \/ DonateGive(t)
               \/ RemoveWithLock(t) \/ RefreshReset(t) \/ RefreshRaise(t)
      <4>1. UNCHANGED k /\ fault = NoFault /\ ~Rescheduling
        BY <3>1 DEF Rescheduling, AcquireRead, AcquireInsert, AcquireOwn, TryOwn, DonateTest, DonateHolder,
                    DonateGive, RemoveWithLock, RefreshReset, RefreshRaise
      <4> QED BY <4>1, <1>3, <1>5
    <3>2. CASE AcquireDown(t) \/ Retry(t)
      <4>1. arg[t] \in Semas /\ SemaDown(t, arg[t]) /\ fault' = fault /\ ~Rescheduling
        BY <1>0, <3>2 DEF AcquireDown, Retry, Rescheduling, AtLabels, InLock, Semas
      <4> QED BY <4>1, <2>1
    <3>3. CASE ReleaseUp(t)
      <4>1. arg[t] \in Semas /\ SemaUp(arg[t])
        BY <1>0, <3>3 DEF ReleaseUp, AtLabels, InLock, InWalk, InRound, HasUnit, Semas
      <4> QED BY <4>1, <2>2
    <3>4. CASE SetRaise(t)
      <4>1. k' = CompReady(k, prio')
        BY <3>4 DEF SetRaise
      <4> QED BY <1>0, <1>2, <1>5, <4>1, CompReadyHighest
    <3> QED BY <2>3, <3>1, <3>2, <3>3, <3>4 DEF LockCode
  <2>4. ASSUME NEW t \in Threads, Client(t) PROVE Goal
    <3>1. ASSUME NEW l \in Locks, AcquireTest(t, l) \/ ReleaseStart(t, l) PROVE Goal
      BY <1>5, <3>1, <1>3 DEF AcquireTest, ReleaseStart, Rescheduling
    <3>2. ASSUME NEW l \in TryLocks, TryAcquire(t, l) PROVE Goal
      BY <1>5, <3>2, <1>3 DEF TryAcquire, Rescheduling
    <3>3. ASSUME NEW e \in Events, EventDown(t, e) PROVE Goal
      BY <3>3, <2>1 DEF EventDown, Semas, Rescheduling
    <3>4. ASSUME NEW e \in Events, EventUp(t, e) PROVE Goal
      BY <3>4, <2>2 DEF EventUp, Semas
    <3>5. ASSUME NEW p \in NewPrios, SetPriority(t, p) PROVE Goal
      BY <3>5, <1>4
    <3> QED BY <2>4, <3>1, <3>2, <3>3, <3>4, <3>5 DEF Client
  <2>5. ASSUME NEW t \in Sliced, Preempt(t) PROVE Goal
    BY <1>0, <1>2, <1>5, <2>5, YieldHighest DEF Preempt
  <2>6. ASSUME NEW e \in Events, InterruptUp(e) PROVE Goal
    <3>1. /\ e \in Semas /\ k' = WokenBy(e)
          /\ fault' = IF CompReady(k', prio) = k' THEN NoFault ELSE YieldInIntr
      BY <2>6 DEF InterruptUp, Semas
    <3>2. Descending(k'.ready, prio') /\ HighestFirst(CompReady(k', prio), prio)
      BY <1>0, <1>5, <3>1, WokenByOrder, CompReadyHighest
    <3> QED BY <1>5, <3>1, <3>2 DEF Goal, NoFault, YieldInIntr
  <2>7. ASSUME IdleLoop PROVE Goal
    BY <1>0, <1>2, <1>5, <2>7, BlockHighest DEF IdleLoop
  <2>8. ASSUME UNCHANGED vars PROVE Goal
    BY <2>8, <1>3 DEF vars
  <2> QED BY <2>3, <2>4, <2>5, <2>6, <2>7, <2>8 DEF Next, Halted
<1>6. ASSUME UNCHANGED vars PROVE Goal
  BY <1>6, <1>3 DEF vars
<1>7. Goal
  BY <1>4, <1>5, <1>6
<1> QED BY <1>1, <1>7 DEF Goal, HighInv

(* A high-priority thread really preempts (priority-preempt.c), as long as *)
(* nothing is donated: client code does not run while a thread of higher   *)
(* priority is ready.  A donation leaves the ready list in the old order,  *)
(* and then this does not hold.                                            *)
THEOREM HighestRun == Spec /\ Undonated => []HighestRuns
<1>1. Init => HighInv
  <2> SUFFICES ASSUME Init PROVE HighInv
    OBVIOUS
  <2>1. PICK q \in [1..Cardinality(Threads) -> Threads] :
          /\ \A i, j \in DOMAIN q : i < j => BasePrio[q[i]] >= BasePrio[q[j]]
          /\ k = AllReady(q)
    BY DEF Init
  <2>2. Descending(q, prio)
    BY <2>1 DEF Init, Descending
  <2>3. HighestFirst(k, prio)
    BY <2>1, <2>2, AllReadyHighest
  <2> QED BY <2>3, InitInv, WaitInit DEF HighInv, WaitInv, HighestFirst
<1>2. HighInv /\ [Next]_vars
        /\ [prio' = prio \/ \E t \in Threads, p \in NewPrios : SetPriority(t, p)]_vars => HighInv'
  BY HighStep
<1>3. HighInv => HighestRuns
  <2> SUFFICES ASSUME HighInv, NEW t \in Threads, At(t, "run"), NEW u \in Elems(k.ready)
               PROVE  prio[u] <= prio[t]
    BY DEF HighestRuns
  <2> QED BY ThreadsAssumption DEF HighInv, HighestFirst, Rescheduling, At
<1> QED BY <1>1, <1>2, <1>3, PTL DEF Spec, Undonated

-----------------------------------------------------------------------------
(* Where a thread with the stage st of cond_wait or cond_broadcast is, at  *)
(* label p with the argument a, when its own semaphore counts v, it is on  *)
(* the condition's list or not, and it holds the lock or not.              *)
Asleep(st, p) == st = "release" \/ (st = "sleep" /\ p = "retry")

(* The labels of lock_acquire.                                             *)
Acquiring == {"acq_read", "acq_insert", "acq_donate", "acq_holder", "acq_give", "acq_down",
              "retry", "acq_own"}

(* Where a thread can be at each stage of its condition variable call.     *)
InPlace(t, st, p, a, v, listed, holds) ==
  /\ v = IF Asleep(st, p) /\ ~listed THEN 1 ELSE 0
  /\ listed => Asleep(st, p)
  /\ st = "broadcast" => p = "run" /\ holds
  /\ st = "release" => p \in {"run", "rel_remove", "rel_refresh", "rel_raise", "rel_up"} /\ ~holds
  /\ st = "sleep" => (p = "run" \/ (p = "retry" /\ a = Waiter[t])) /\ ~holds
  /\ st = "reacquire" => (p = "run" /\ holds) \/ (p \in Acquiring /\ a = Lock)
  /\ p = "retry" /\ a \in Events => st = "sleep"

(* Every thread is, and the waiters of the condition are distinct.         *)
AllInPlace ==
  /\ cond \in Seq(Threads) /\ NoDuplicates(cond)
  /\ stage \in [Threads -> Stages]
  /\ \A t \in Threads :
       InPlace(t, stage[t], pc[t], arg[t], sema[Waiter[t]].value, t \in Elems(cond),
               holder[Lock] = t)

(* What every step keeps.                                                  *)
MonitorKept == WaitInv /\ AllInPlace

(* What the other lemmas use of the constants and of the lock code.        *)
LEMMA MonitorFacts ==
  ASSUME MonitorKept
  PROVE  /\ Lock \in Locks /\ Lock \in Semas /\ Lock \notin Events
         /\ \A t \in Threads : Waiter[t] \in Events /\ Waiter[t] \in Semas /\ Waiter[t] \notin Locks
         /\ \A t, u \in Threads : Waiter[t] = Waiter[u] => t = u
         /\ \A t \in Threads : t # None
         /\ None \notin Events /\ None \notin Locks /\ None # Lock
         /\ TypeOK /\ AtLabels /\ HolderClear
         /\ sema \in [Semas -> [value : Nat, waiters : Seq(Threads)]]
         /\ pc \in [Threads -> Labels] /\ arg \in [Threads -> Semas \cup {None}]
         /\ holder \in [Locks -> Threads \cup {None}] /\ stage \in [Threads -> Stages]
         /\ Elems(cond) \subseteq Threads
<1>1. Elems(cond) \subseteq Threads
  BY LenProperties DEF MonitorKept, AllInPlace, Elems
<1>2. TypeOK /\ AtLabels /\ HolderClear /\ stage \in [Threads -> Stages]
  BY DEF MonitorKept, WaitInv, LockInv, AllInPlace
<1>3. /\ Lock \in Locks /\ Lock \notin Events /\ Locks \cap Events = {}
      /\ \A t \in Threads : t # None
      /\ None \notin Events /\ None \notin Locks
      /\ Waiter \in [Threads -> Events]
      /\ \A t, u \in Threads : Waiter[t] = Waiter[u] => t = u
  BY LocksAssumption, MonitorAssumption
<1> QED BY <1>1, <1>2, <1>3 DEF TypeOK, Semas

(* What the list of a condition is sorted by is a number for every thread. *)
LEMMA SemaKeyType ==
  ASSUME MonitorKept
  PROVE  \A u \in Threads : SemaKey[u] \in Int
<1> TAKE u \in Threads
<1>1. sema[Waiter[u]].waiters \in Seq(Threads)
  BY MonitorFacts
<1>2. CASE sema[Waiter[u]].waiters = <<>>
  BY <1>2 DEF SemaKey
<1>3. CASE sema[Waiter[u]].waiters # <<>>
  <2>1. Head(sema[Waiter[u]].waiters) \in Threads
    BY <1>1, <1>3, HeadTailType
  <2> QED BY <1>3, <2>1, PrioKey, MonitorFacts DEF SemaKey
<1> QED BY <1>2, <1>3

(* What every step keeps is at least the invariant that is checked.        *)
LEMMA KeptSuffices ==
  ASSUME MonitorKept
  PROVE  MonitorInv
<1>1. Elems(cond) \subseteq Threads
  BY LenProperties DEF MonitorKept, AllInPlace, Elems
<1>2. MonitorTypeOK
  BY DEF MonitorKept, AllInPlace, WaitInv, LockInv, MonitorTypeOK
<1>3. WaiterState
  BY <1>1 DEF MonitorKept, AllInPlace, InPlace, Asleep, WaiterState, Waiting
<1>4. LockOnReturn
  BY DEF MonitorKept, AllInPlace, InPlace, Acquiring, LockOnReturn
<1>5. SignalSorts
  <2>1. cond \in Seq(Threads)
    BY DEF MonitorKept, AllInPlace
  <2>2. Keyed(Threads, SemaKey)
    BY SemaKeyType DEF Keyed
  <2> QED BY <2>1, <2>2, MergeSortCorrect DEF SignalSorts
<1> QED BY <1>2, <1>3, <1>4, <1>5 DEF MonitorInv

(* A step of one thread that touches the list for this thread alone, and   *)
(* neither another thread's semaphore nor another's hold of the lock.      *)
LEMMA OneMoves ==
  ASSUME MonitorKept, NEW t \in Threads,
         cond' \in Seq(Threads), NoDuplicates(cond'), stage' \in [Threads -> Stages],
         \A u \in Threads \ {t} :
           /\ stage'[u] = stage[u] /\ pc'[u] = pc[u] /\ arg'[u] = arg[u]
           /\ sema'[Waiter[u]].value = sema[Waiter[u]].value
           /\ u \in Elems(cond') <=> u \in Elems(cond)
           /\ holder'[Lock] = u <=> holder[Lock] = u,
         InPlace(t, stage'[t], pc'[t], arg'[t], sema'[Waiter[t]].value, t \in Elems(cond'),
                 holder'[Lock] = t)
  PROVE  AllInPlace'
<1>1. ASSUME NEW u \in Threads
      PROVE  InPlace(u, stage'[u], pc'[u], arg'[u], sema'[Waiter[u]].value, u \in Elems(cond'),
                     holder'[Lock] = u)
  <2>1. CASE u = t
    BY <2>1
  <2>2. CASE u # t
    <3>1. InPlace(u, stage[u], pc[u], arg[u], sema[Waiter[u]].value, u \in Elems(cond),
                  holder[Lock] = u)
      BY DEF MonitorKept, AllInPlace
    <3> QED BY <2>2, <3>1 DEF InPlace
  <2> QED BY <2>1, <2>2
<1> QED BY <1>1 DEF AllInPlace

(* Inside synch.c, away from the semaphores of the condition.              *)
LEMMA SameList ==
  ASSUME MonitorKept, NEW t \in Threads, UNCHANGED <<cond, stage>>,
         \A u \in Threads \ {t} : pc'[u] = pc[u] /\ arg'[u] = arg[u]
                                  /\ (holder'[Lock] = u <=> holder[Lock] = u),
         \A u \in Threads : sema'[Waiter[u]].value = sema[Waiter[u]].value,
         InPlace(t, stage[t], pc'[t], arg'[t], sema[Waiter[t]].value, t \in Elems(cond),
                 holder'[Lock] = t)
  PROVE  AllInPlace'
<1>1. cond' \in Seq(Threads) /\ NoDuplicates(cond') /\ stage' \in [Threads -> Stages]
  BY DEF MonitorKept, AllInPlace
<1> QED BY <1>1, OneMoves

(* What sema_down does, seen from the semaphores' values.                  *)
LEMMA DownValues ==
  ASSUME MonitorKept, NEW t \in Threads, NEW s \in Semas, SemaDown(t, s)
  PROVE  /\ \A u \in Threads \ {t} : pc'[u] = pc[u] /\ arg'[u] = arg[u]
         /\ \A r \in Semas \ {s} : sema'[r].value = sema[r].value
         /\ \/ /\ sema[s].value > 0 /\ sema'[s].value = sema[s].value - 1
               /\ pc'[t] = IF s \in Locks THEN "acq_own" ELSE "run"
               /\ arg'[t] = IF s \in Locks THEN s ELSE None
            \/ /\ sema[s].value = 0 /\ sema'[s].value = 0
               /\ pc'[t] = "retry" /\ arg'[t] = s
<1>1. /\ sema \in [Semas -> [value : Nat, waiters : Seq(Threads)]]
      /\ pc \in [Threads -> Labels] /\ arg \in [Threads -> Semas \cup {None}]
  BY MonitorFacts
<1> QED BY <1>1 DEF SemaDown

(* sema_down of the thread's own semaphore, the first time or again.       *)
LEMMA OwnDown ==
  ASSUME MonitorKept, NEW t \in Threads, SemaDown(t, Waiter[t]), UNCHANGED <<cond, holder>>,
         stage' = [stage EXCEPT ![t] = "sleep"],
         Asleep(stage[t], pc[t]), holder[Lock] # t
  PROVE  AllInPlace'
<1> DEFINE v == sema[Waiter[t]].value
           listed == t \in Elems(cond)
<1>1. /\ stage \in [Threads -> Stages] /\ Waiter[t] \in Semas /\ Waiter[t] \notin Locks
      /\ None \notin Events
      /\ \A u \in Threads \ {t} : Waiter[u] \in Semas /\ Waiter[u] # Waiter[t]
  BY MonitorFacts
<1>2. /\ cond' \in Seq(Threads) /\ NoDuplicates(cond') /\ stage'[t] = "sleep"
      /\ stage' \in [Threads -> Stages] /\ \A u \in Threads \ {t} : stage'[u] = stage[u]
  BY <1>1 DEF MonitorKept, AllInPlace, Stages
<1>3. v = IF listed THEN 0 ELSE 1
  BY DEF MonitorKept, AllInPlace, InPlace
<1>4. /\ \A u \in Threads \ {t} : pc'[u] = pc[u] /\ arg'[u] = arg[u]
      /\ \A r \in Semas \ {Waiter[t]} : sema'[r].value = sema[r].value
      /\ \/ v = 1 /\ sema'[Waiter[t]].value = 0 /\ pc'[t] = "run" /\ arg'[t] = None
         \/ v = 0 /\ sema'[Waiter[t]].value = 0 /\ pc'[t] = "retry" /\ arg'[t] = Waiter[t]
  BY <1>1, <1>3, DownValues
<1>5. InPlace(t, "sleep", pc'[t], arg'[t], sema'[Waiter[t]].value, listed, FALSE)
  BY <1>1, <1>3, <1>4 DEF InPlace, Asleep
<1> QED BY <1>1, <1>2, <1>4, <1>5, OneMoves

(* sema_down of a lock's semaphore.                                        *)
LEMMA LockDown ==
  ASSUME MonitorKept, NEW t \in Threads, NEW l \in Locks, SemaDown(t, l), UNCHANGED <<cond, stage, holder>>,
         arg[t] = l, pc[t] \in {"acq_down", "retry"}
  PROVE  AllInPlace'
<1>1. /\ l \in Semas /\ l \notin Events /\ \A u \in Threads : Waiter[u] \in Semas /\ Waiter[u] # l /\ Waiter[u] \in Events
  BY MonitorFacts, LocksAssumption DEF Semas
<1>2. /\ \A u \in Threads \ {t} : pc'[u] = pc[u] /\ arg'[u] = arg[u]
      /\ \A u \in Threads : sema'[Waiter[u]].value = sema[Waiter[u]].value
      /\ pc'[t] \in {"acq_own", "retry"} /\ arg'[t] = l
  BY <1>1, DownValues
<1>3. InPlace(t, stage[t], pc[t], arg[t], sema[Waiter[t]].value, t \in Elems(cond), holder[Lock] = t)
  BY DEF MonitorKept, AllInPlace
<1>4. InPlace(t, stage[t], pc'[t], arg'[t], sema[Waiter[t]].value, t \in Elems(cond), holder'[Lock] = t)
  BY <1>1, <1>2, <1>3 DEF InPlace, Asleep, Acquiring
<1> QED BY <1>2, <1>4, SameList

(* A step inside the lock code leaves every thread in place.               *)
LEMMA LockCodeKeeps ==
  ASSUME MonitorKept, NEW t \in Threads, LockCode(t), UNCHANGED <<cond, stage>>
  PROVE  AllInPlace'
<1> USE DEF prioVars, lockVars, At, Goto
<1>0. /\ AtLabels /\ HolderClear /\ None # Lock /\ Lock \in Locks /\ Lock \notin Events
      /\ pc \in [Threads -> Labels] /\ arg \in [Threads -> Semas \cup {None}]
      /\ holder \in [Locks -> Threads \cup {None}] /\ None \notin Events
      /\ sema \in [Semas -> [value : Nat, waiters : Seq(Threads)]]
      /\ \A u \in Threads : u # None /\ Waiter[u] \in Semas /\ Waiter[u] \notin Locks
  BY MonitorFacts
<1>1. InPlace(t, stage[t], pc[t], arg[t], sema[Waiter[t]].value, t \in Elems(cond), holder[Lock] = t)
  BY DEF MonitorKept, AllInPlace
<1>2. ASSUME UNCHANGED <<sema, holder, arg>>, \A u \in Threads \ {t} : pc'[u] = pc[u],
             \/ pc[t] = "acq_read" /\ pc'[t] \in {"acq_read", "acq_insert"}
             \/ pc[t] = "acq_insert" /\ pc'[t] \in {"acq_insert", "acq_donate"}
             \/ pc[t] = "acq_donate" /\ pc'[t] \in {"acq_holder", "acq_down"}
             \/ pc[t] = "acq_holder" /\ pc'[t] \in {"acq_holder", "acq_give"}
             \/ pc[t] = "acq_give" /\ pc'[t] \in {"acq_give", "acq_donate"}
             \/ pc[t] = "rel_remove" /\ pc'[t] = "rel_refresh"
             \/ pc[t] = "rel_refresh" /\ pc'[t] = "rel_raise"
             \/ pc[t] = "rel_raise" /\ pc'[t] = "rel_up"
             \/ pc[t] = "set_raise" /\ pc'[t] = "run"
      PROVE  AllInPlace'
  <2>1. InPlace(t, stage[t], pc'[t], arg[t], sema[Waiter[t]].value, t \in Elems(cond), holder[Lock] = t)
    BY <1>1, <1>2 DEF InPlace, Asleep, Acquiring
  <2> QED BY <1>2, <2>1, SameList
<1>3. CASE AcquireRead(t)
  BY <1>0, <1>2, <1>3 DEF AcquireRead
<1>4. CASE AcquireInsert(t)
  BY <1>0, <1>2, <1>4 DEF AcquireInsert
<1>5. CASE DonateTest(t) \/ DonateHolder(t) \/ DonateGive(t)
  BY <1>0, <1>2, <1>5 DEF DonateTest, DonateHolder, DonateGive
<1>6. CASE RemoveWithLock(t)
  BY <1>0, <1>2, <1>6 DEF RemoveWithLock
<1>7. CASE RefreshReset(t) \/ RefreshRaise(t) \/ SetRaise(t)
  BY <1>0, <1>2, <1>7 DEF RefreshReset, RefreshRaise, SetRaise
<1>8. CASE AcquireDown(t)
  <2>1. arg[t] \in Locks
    BY <1>0, <1>8 DEF AcquireDown, AtLabels, InLock
  <2> QED BY <1>8, <2>1, LockDown DEF AcquireDown
<1>9. CASE Retry(t)
  <2>1. arg[t] \in Semas /\ SemaDown(t, arg[t]) /\ UNCHANGED holder /\ pc[t] = "retry"
    BY <1>0, <1>9 DEF Retry, AtLabels
  <2>2. CASE arg[t] \in Locks
    BY <2>1, <2>2, LockDown
  <2>3. CASE arg[t] \in Events
    <3>1. stage[t] = "sleep" /\ arg[t] = Waiter[t] /\ holder[Lock] # t
      BY <1>1, <2>1, <2>3 DEF InPlace
    <3>2. stage' = [stage EXCEPT ![t] = "sleep"]
      BY <3>1, MonitorFacts
    <3> QED BY <2>1, <3>1, <3>2, OwnDown DEF Asleep
  <2> QED BY <2>1, <2>2, <2>3 DEF Semas
<1>10. CASE AcquireOwn(t) \/ TryOwn(t)
  <2>1. /\ pc[t] \in {"acq_own", "try_own"} /\ holder' = [holder EXCEPT ![arg[t]] = t]
        /\ arg' = [arg EXCEPT ![t] = None] /\ pc' = [pc EXCEPT ![t] = "run"] /\ sema' = sema
    BY <1>10 DEF AcquireOwn, TryOwn
  <2>2. arg[t] \in Locks /\ holder[arg[t]] = None
    BY <1>0, <2>1 DEF AtLabels, HolderClear, InLock, InWalk, InRound, HasUnit
  <2>3. /\ pc'[t] = "run" /\ arg'[t] = None
        /\ holder'[Lock] = IF arg[t] = Lock THEN t ELSE holder[Lock]
        /\ \A u \in Threads \ {t} : pc'[u] = pc[u] /\ arg'[u] = arg[u]
    BY <1>0, <2>1, <2>2
  <2>4. \A u \in Threads \ {t} : holder'[Lock] = u <=> holder[Lock] = u
    BY <1>0, <2>2, <2>3
  <2>5. InPlace(t, stage[t], pc'[t], arg'[t], sema[Waiter[t]].value, t \in Elems(cond), holder'[Lock] = t)
    BY <1>0, <1>1, <2>1, <2>3 DEF InPlace, Asleep, Acquiring
  <2> QED BY <2>1, <2>3, <2>4, <2>5, SameList
<1>11. CASE ReleaseUp(t)
  <2>1. /\ arg[t] \in Locks /\ arg[t] \in Semas /\ sema' = [sema EXCEPT ![arg[t]] = Upped(arg[t])]
        /\ pc[t] = "rel_up" /\ pc' = [pc EXCEPT ![t] = "run"] /\ arg' = [arg EXCEPT ![t] = None]
        /\ UNCHANGED holder
    BY <1>0, <1>11 DEF ReleaseUp, SemaUp, AtLabels, InLock, InWalk, InRound, HasUnit, Semas
  <2>2. \A u \in Threads : sema'[Waiter[u]].value = sema[Waiter[u]].value
    BY <1>0, <2>1
  <2>3. /\ pc'[t] = "run" /\ arg'[t] = None
        /\ \A u \in Threads \ {t} : pc'[u] = pc[u] /\ arg'[u] = arg[u]
    BY <1>0, <2>1
  <2>4. InPlace(t, stage[t], pc'[t], arg'[t], sema[Waiter[t]].value, t \in Elems(cond), holder'[Lock] = t)
    BY <1>1, <2>1, <2>3 DEF InPlace, Asleep, Acquiring
  <2> QED BY <2>1, <2>2, <2>3, <2>4, SameList
<1> QED BY <1>3, <1>4, <1>5, <1>6, <1>7, <1>8, <1>9, <1>10, <1>11 DEF LockCode

-----------------------------------------------------------------------------
(* cond_signal takes the first waiter from the list: its semaphore was 0.  *)
LEMMA Signalled ==
  ASSUME MonitorKept, NEW t \in Threads, SignalFirst(t)
  PROVE  \E h \in Elems(cond) :
           /\ cond' \in Seq(Threads) /\ NoDuplicates(cond') /\ Elems(cond') = Elems(cond) \ {h}
           /\ sema[Waiter[h]].value = 0 /\ SemaUp(Waiter[h]) /\ EventUp(t, Waiter[h])
<1> DEFINE o == SignalOrder
           h == Head(o)
<1>1. cond \in Seq(Threads) /\ NoDuplicates(cond) /\ cond # <<>>
  BY DEF MonitorKept, AllInPlace, SignalFirst
<1>2. \A u \in Threads : SemaKey[u] \in Int
  BY SemaKeyType
<1>3. o \in Seq(Threads) /\ Elems(o) = Elems(cond) /\ NoDuplicates(o) /\ o # <<>>
  <2>1. o \in Seq(Threads) /\ Elems(o) = Elems(cond) /\ NoDuplicates(o)
    BY <1>1, <1>2, SortedProperties DEF SignalOrder
  <2> QED BY <1>1, <2>1, ElemsEmpty
<1>4. h \in Elems(cond) /\ Elems(Tail(o)) = Elems(cond) \ {h} /\ NoDuplicates(Tail(o)) /\ Tail(o) \in Seq(Threads)
  <2>1. o[1] = h /\ 1 \in DOMAIN o
    BY <1>3, LenProperties, EmptySeq, HeadTailProperties
  <2>2. h \in Elems(o)
    BY <2>1 DEF Elems
  <2> QED BY <1>3, <2>2, HeadTailType, TailElems
<1>5. h \in Threads
  BY <1>4, MonitorFacts
<1>6. sema[Waiter[h]].value = 0
  BY <1>4, <1>5 DEF MonitorKept, AllInPlace, InPlace
<1>7. cond' = Tail(o) /\ SemaUp(Waiter[h])
  BY DEF SignalFirst
<1>8. EventUp(t, Waiter[h])
  <2>1. 0 < MaxUnits
    BY LocksAssumption
  <2> QED BY <1>6, <1>7, <2>1 DEF SignalFirst, EventUp
<1> QED BY <1>4, <1>6, <1>7, <1>8

(* So does cond_signal: it wakes a waiter whose semaphore is down.         *)
LEMMA SignalKeeps ==
  ASSUME MonitorKept, NEW t \in Threads, SignalFirst(t), stage[t] \in {"none", "broadcast"},
         stage' \in [Threads -> Stages], \A u \in Threads \ {t} : stage'[u] = stage[u],
         stage'[t] \in {"none", "broadcast"}
  PROVE  AllInPlace'
<1>1. PICK h \in Elems(cond) :
           /\ cond' \in Seq(Threads) /\ NoDuplicates(cond') /\ Elems(cond') = Elems(cond) \ {h}
           /\ sema[Waiter[h]].value = 0 /\ SemaUp(Waiter[h])
  BY Signalled
<1>2. /\ h \in Threads /\ Waiter[h] \in Semas
      /\ \A u \in Threads \ {h} : Waiter[u] \in Semas /\ Waiter[u] # Waiter[h]
      /\ sema \in [Semas -> [value : Nat, waiters : Seq(Threads)]]
  BY MonitorFacts
<1>3. /\ sema'[Waiter[h]].value = 1
      /\ \A u \in Threads \ {h} : sema'[Waiter[u]].value = sema[Waiter[u]].value
  BY <1>1, <1>2 DEF SemaUp, Upped
<1>4. UNCHANGED <<pc, arg, holder>> /\ pc[t] = "run" /\ holder[Lock] = t
  BY DEF SignalFirst, At
<1>5. ASSUME NEW u \in Threads
      PROVE  InPlace(u, stage'[u], pc'[u], arg'[u], sema'[Waiter[u]].value, u \in Elems(cond'),
                     holder'[Lock] = u)
  <2>0. InPlace(u, stage[u], pc[u], arg[u], sema[Waiter[u]].value, u \in Elems(cond),
                holder[Lock] = u)
    BY DEF MonitorKept, AllInPlace
  <2>1. stage'[u] = stage[u] \/ u = t
    OBVIOUS
  <2>2. CASE u = h
    <3>1. sema'[Waiter[u]].value = 1 /\ u \notin Elems(cond') /\ u \in Elems(cond)
      BY <1>1, <1>3, <2>2
    <3>2. u # t
      BY <2>0, <3>1 DEF InPlace, Asleep
    <3> QED BY <1>4, <2>0, <2>1, <3>1, <3>2 DEF InPlace, Asleep
  <2>3. CASE u # h
    <3>1. sema'[Waiter[u]].value = sema[Waiter[u]].value /\ (u \in Elems(cond') <=> u \in Elems(cond))
      BY <1>1, <1>3, <2>3
    <3>2. CASE u = t
      BY <1>4, <2>0, <3>1, <3>2 DEF InPlace, Asleep
    <3>3. CASE u # t
      BY <1>4, <2>0, <2>1, <3>1, <3>3 DEF InPlace
    <3> QED BY <3>2, <3>3
  <2> QED BY <2>2, <2>3
<1> QED BY <1>1, <1>5 DEF AllInPlace

(* A call of lock_acquire or lock_release begins.                          *)
LEMMA CallsKeep ==
  ASSUME MonitorKept, NEW t \in Threads, NEW l \in Locks,
         \/ /\ AcquireTest(t, l) /\ cond' = cond
            /\ stage[t] = "sleep" /\ l = Lock /\ stage' = [stage EXCEPT ![t] = "reacquire"]
         \/ AcquireTest(t, l) /\ UNCHANGED <<cond, stage>> /\ stage[t] = "none"
         \/ ReleaseStart(t, l) /\ UNCHANGED <<cond, stage>> /\ stage[t] = "none"
         \/ CondWait(t) /\ l = Lock
  PROVE  AllInPlace'
<1> USE DEF prioVars, lockVars, At, Goto
<1>0. /\ stage \in [Threads -> Stages] /\ pc \in [Threads -> Labels] /\ cond \in Seq(Threads)
      /\ NoDuplicates(cond) /\ holder \in [Locks -> Threads \cup {None}] /\ Lock \in Locks
      /\ arg \in [Threads -> Semas \cup {None}] /\ Lock \notin Events /\ l \notin Events
      /\ \A u \in Threads : u # None
  BY MonitorFacts, LocksAssumption DEF MonitorKept, AllInPlace
<1>1. InPlace(t, stage[t], pc[t], arg[t], sema[Waiter[t]].value, t \in Elems(cond), holder[Lock] = t)
  BY DEF MonitorKept, AllInPlace
<1>2. sema' = sema /\ pc[t] = "run" /\ arg' = [arg EXCEPT ![t] = l]
  BY DEF AcquireTest, ReleaseStart, CondWait
<1>3. ASSUME AcquireTest(t, l), cond' = cond,
             \/ stage[t] = "sleep" /\ l = Lock /\ stage' = [stage EXCEPT ![t] = "reacquire"]
             \/ stage' = stage /\ stage[t] = "none"
      PROVE  AllInPlace'
  <2>1. /\ holder' = holder /\ pc'[t] \in {"acq_down", "acq_read"}
        /\ arg'[t] = l /\ \A u \in Threads \ {t} : pc'[u] = pc[u] /\ arg'[u] = arg[u]
    BY <1>0, <1>2, <1>3 DEF AcquireTest
  <2>2. /\ stage' \in [Threads -> Stages] /\ \A u \in Threads \ {t} : stage'[u] = stage[u]
        /\ \/ stage[t] = "sleep" /\ l = Lock /\ stage'[t] = "reacquire"
           \/ stage[t] = "none" /\ stage'[t] = "none"
    BY <1>0, <1>3 DEF Stages
  <2>3. InPlace(t, stage'[t], pc'[t], arg'[t], sema'[Waiter[t]].value, t \in Elems(cond'), holder'[Lock] = t)
    BY <1>0, <1>1, <1>2, <1>3, <2>1, <2>2 DEF InPlace, Asleep, Acquiring
  <2> QED BY <1>0, <1>2, <1>3, <2>1, <2>2, <2>3, OneMoves
<1>4. CASE ReleaseStart(t, l) /\ UNCHANGED <<cond, stage>> /\ stage[t] = "none"
  <2>1. /\ holder[l] = t /\ holder' = [holder EXCEPT ![l] = None] /\ pc' = [pc EXCEPT ![t] = "rel_remove"]
    BY <1>4 DEF ReleaseStart
  <2>2. /\ pc'[t] = "rel_remove" /\ arg'[t] = l
        /\ \A u \in Threads \ {t} : pc'[u] = pc[u] /\ arg'[u] = arg[u]
                                    /\ (holder'[Lock] = u <=> holder[Lock] = u)
    BY <1>0, <1>2, <2>1
  <2>3. InPlace(t, stage[t], pc'[t], arg'[t], sema[Waiter[t]].value, t \in Elems(cond), holder'[Lock] = t)
    BY <1>0, <1>1, <1>2, <1>4, <2>2 DEF InPlace, Asleep, Acquiring
  <2> QED BY <1>2, <1>4, <2>2, <2>3, SameList
<1>5. CASE CondWait(t)
  <2>1. /\ holder[Lock] = t /\ holder' = [holder EXCEPT ![Lock] = None]
        /\ pc' = [pc EXCEPT ![t] = "rel_remove"] /\ arg' = [arg EXCEPT ![t] = Lock]
        /\ stage[t] = "none" /\ stage' = [stage EXCEPT ![t] = "release"]
        /\ cond' = InsertOrdered(cond, t, SemaKey)
    BY <1>5 DEF CondWait, ReleaseStart, Enter
  <2>2. t \notin Elems(cond) /\ sema[Waiter[t]].value = 0
    BY <1>1, <2>1 DEF InPlace, Asleep
  <2>3. cond' \in Seq(Threads) /\ NoDuplicates(cond') /\ Elems(cond') = Elems(cond) \cup {t}
    BY <1>0, <2>1, <2>2, InsertOrderedProperties
  <2>4. /\ pc'[t] = "rel_remove" /\ arg'[t] = Lock /\ stage'[t] = "release" /\ holder'[Lock] = None
        /\ stage' \in [Threads -> Stages]
        /\ \A u \in Threads \ {t} : /\ pc'[u] = pc[u] /\ arg'[u] = arg[u] /\ stage'[u] = stage[u]
                                    /\ holder'[Lock] = u <=> holder[Lock] = u
    BY <1>0, <2>1 DEF Stages
  <2>5. InPlace(t, stage'[t], pc'[t], arg'[t], sema'[Waiter[t]].value, t \in Elems(cond'), holder'[Lock] = t)
    BY <1>0, <1>1, <1>2, <2>2, <2>3, <2>4 DEF InPlace, Asleep
  <2> QED BY <1>2, <2>3, <2>4, <2>5, OneMoves
<1> QED BY <1>3, <1>4, <1>5

-----------------------------------------------------------------------------
(* Every step of the condition variable is a step of the locks below it.   *)
LEMMA StepBelow ==
  ASSUME MonitorKept, [MonitorNext]_monitorVars
  PROVE  [Next]_vars
<1>0. /\ Lock \in Locks /\ \A t \in Threads : Waiter[t] \in Events
  BY MonitorFacts
<1>1. ASSUME NEW t \in Threads, CondWait(t) \/ CondSleep(t) \/ CondReacquire(t)
      PROVE  Next
  BY <1>0, <1>1 DEF CondWait, CondSleep, CondReacquire, Next, Client
<1>2. ASSUME NEW t \in Threads, CondReturn(t) PROVE UNCHANGED vars
  BY <1>2 DEF CondReturn
<1>3. ASSUME NEW t \in Threads, CondSignal(t) \/ CondBroadcast(t) PROVE [Next]_vars
  <2>1. CASE SignalFirst(t)
    <3>1. \E h \in Threads : EventUp(t, Waiter[h])
      BY <2>1, Signalled, MonitorFacts
    <3> QED BY <1>0, <3>1 DEF Next, Client
  <2>2. CASE ~SignalFirst(t)
    BY <1>3, <2>2 DEF CondSignal, CondBroadcast
  <2> QED BY <2>1, <2>2
<1>4. ASSUME NEW t \in Threads, Other(t) PROVE Next
  BY <1>4 DEF Other, Next, Client
<1>5. CASE UNCHANGED monitorVars
  BY <1>5 DEF monitorVars
<1> QED BY <1>1, <1>2, <1>3, <1>4, <1>5 DEF MonitorNext, Next

(* And so does every step of the monitor.                                  *)
LEMMA StepInPlace ==
  ASSUME MonitorKept, [MonitorNext]_monitorVars
  PROVE  AllInPlace'
<1>0. /\ Lock \in Locks /\ stage \in [Threads -> Stages]
      /\ \A t \in Threads : Waiter[t] \in Events
  BY MonitorFacts
<1>1. ASSUME NEW t \in Threads, CondWait(t) \/ CondReacquire(t) PROVE AllInPlace'
  BY <1>0, <1>1, CallsKeep DEF CondReacquire, Enter
<1>2. ASSUME NEW t \in Threads, CondSleep(t) PROVE AllInPlace'
  <2>1. /\ SemaDown(t, Waiter[t]) /\ UNCHANGED <<cond, holder>> /\ stage[t] = "release"
        /\ stage' = [stage EXCEPT ![t] = "sleep"]
    BY <1>2 DEF CondSleep, EventDown, Enter
  <2>2. holder[Lock] # t
    BY <2>1 DEF MonitorKept, AllInPlace, InPlace
  <2> QED BY <2>1, <2>2, OwnDown DEF Asleep
<1>3. ASSUME NEW t \in Threads, UNCHANGED <<vars, cond>>, pc[t] = "run",
             stage[t] \in {"reacquire", "broadcast"}, stage' = [stage EXCEPT ![t] = "none"]
      PROVE  AllInPlace'
  <2>1. /\ stage'[t] = "none" /\ \A u \in Threads \ {t} : stage'[u] = stage[u]
        /\ stage' \in [Threads -> Stages]
    BY <1>0, <1>3 DEF Stages
  <2>2. UNCHANGED <<pc, arg, sema, holder, cond>>
    BY <1>3 DEF vars, lockVars
  <2>3. InPlace(t, stage'[t], pc'[t], arg'[t], sema'[Waiter[t]].value, t \in Elems(cond'),
                 holder'[Lock] = t)
    <3>1. InPlace(t, stage[t], pc[t], arg[t], sema[Waiter[t]].value, t \in Elems(cond), holder[Lock] = t)
      BY DEF MonitorKept, AllInPlace
    <3> QED BY <1>3, <2>1, <2>2, <3>1 DEF InPlace, Asleep
  <2>4. cond' \in Seq(Threads) /\ NoDuplicates(cond')
    BY <2>2 DEF MonitorKept, AllInPlace
  <2> QED BY <2>1, <2>2, <2>3, <2>4, OneMoves
<1>4. ASSUME NEW t \in Threads, CondReturn(t) PROVE AllInPlace'
  BY <1>3, <1>4 DEF CondReturn, At, Enter
<1>5. ASSUME NEW t \in Threads, CondSignal(t) PROVE AllInPlace'
  BY <1>0, <1>5, SignalKeeps DEF CondSignal
<1>6. ASSUME NEW t \in Threads, CondBroadcast(t) PROVE AllInPlace'
  <2>1. CASE SignalFirst(t) /\ Enter(t, "broadcast")
    <3>1. /\ stage[t] \in {"none", "broadcast"} /\ stage'[t] = "broadcast"
          /\ stage' \in [Threads -> Stages] /\ \A u \in Threads \ {t} : stage'[u] = stage[u]
      BY <1>0, <1>6, <2>1 DEF CondBroadcast, Enter, Stages
    <3> QED BY <2>1, <3>1, SignalKeeps
  <2>2. CASE At(t, "run") /\ stage[t] = "broadcast" /\ Enter(t, "none") /\ UNCHANGED <<vars, cond>>
    BY <1>3, <2>2 DEF At, Enter
  <2> QED BY <1>6, <2>1, <2>2 DEF CondBroadcast
<1>7. ASSUME UNCHANGED <<sema, holder, pc, arg, cond, stage>> PROVE AllInPlace'
  BY <1>7 DEF MonitorKept, AllInPlace
<1>8. ASSUME NEW t \in Threads, Other(t) PROVE AllInPlace'
  <2>1. CASE LockCode(t)
    BY <1>8, <2>1, LockCodeKeeps DEF Other
  <2>2. CASE stage[t] = "none" /\ \E l \in Locks : AcquireTest(t, l) \/ ReleaseStart(t, l)
    BY <1>8, <2>2, CallsKeep DEF Other
  <2>3. CASE Preempt(t)
    BY <1>7, <1>8, <2>3 DEF Other, Preempt, lockVars
  <2> QED BY <1>8, <2>1, <2>2, <2>3 DEF Other
<1>9. CASE IdleLoop /\ UNCHANGED <<cond, stage>>
  BY <1>7, <1>9 DEF IdleLoop, lockVars
<1>10. CASE UNCHANGED monitorVars
  BY <1>7, <1>10 DEF monitorVars, vars, lockVars
<1>11. CASE Halted /\ UNCHANGED <<cond, stage>>
  BY <1>7, <1>11 DEF Halted, vars, lockVars
<1> QED BY <1>1, <1>2, <1>4, <1>5, <1>6, <1>8, <1>9, <1>10, <1>11 DEF MonitorNext

(* The strengthened invariant holds at boot.                               *)
LEMMA InitKept ==
  ASSUME MonitorInit
  PROVE  MonitorKept
<1>1. WaitInv
  BY InitInv, WaitInit DEF MonitorInit, WaitInv
<1>2. /\ cond = <<>> /\ cond \in Seq(Threads) /\ NoDuplicates(cond) /\ Elems(cond) = {}
      /\ stage \in [Threads -> Stages]
  BY EmptySeq DEF MonitorInit, Stages, NoDuplicates, Elems
<1>3. ASSUME NEW t \in Threads
      PROVE  /\ sema[Waiter[t]].value = 0 /\ pc[t] = "run" /\ stage[t] = "none"
             /\ holder[Lock] # t
  <2>1. Waiter[t] \in Events /\ Events \subseteq Semas /\ Waiter[t] \notin Locks /\ Lock \in Locks /\ t # None
    BY LocksAssumption, MonitorAssumption DEF Semas
  <2> QED BY <2>1 DEF MonitorInit, Init
<1> QED BY <1>1, <1>2, <1>3 DEF MonitorKept, AllInPlace, InPlace, Asleep

(* Every step keeps the strengthened invariant.                            *)
LEMMA StepKept ==
  ASSUME MonitorKept, [MonitorNext]_monitorVars
  PROVE  MonitorKept'
<1>1. WaitInv /\ [Next]_vars
  BY StepBelow DEF MonitorKept
<1>2. WaitInv'
  BY <1>1, InvStep, WaitStep DEF WaitInv
<1> QED BY <1>2, StepInPlace DEF MonitorKept

(* Every signal reaches one waiter, once, in the window before it sleeps   *)
(* too, and cond_wait returns with the lock.                               *)
THEOREM MonitorInvariant == MonitorSpec => []MonitorInv
<1>1. MonitorInit => MonitorKept
  BY InitKept
<1>2. MonitorKept /\ [MonitorNext]_monitorVars => MonitorKept'
  BY StepKept
<1>3. MonitorKept => MonitorInv
  BY KeptSuffices
<1> QED BY <1>1, <1>2, <1>3, PTL DEF MonitorSpec

(* The condition variable uses its lock and its semaphores as any client   *)
(* does: all that holds of those holds below it.                           *)
THEOREM UsesLocks == MonitorSpec => Spec
<1>1. MonitorInit => MonitorKept /\ Init
  BY InitKept DEF MonitorInit
<1>2. MonitorKept /\ [MonitorNext]_monitorVars => MonitorKept'
  BY StepKept
<1>3. MonitorKept /\ [MonitorNext]_monitorVars => [Next]_vars
  BY StepBelow
<1> QED BY <1>1, <1>2, <1>3, PTL DEF MonitorSpec, Spec

(* cond_broadcast leaves nobody asleep who was waiting when it began.      *)
THEOREM BroadcastComplete == MonitorSpec => BroadcastWakesAll
<1>1. MonitorInit => MonitorKept
  BY InitKept
<1>2. MonitorKept /\ [MonitorNext]_monitorVars => MonitorKept'
  BY StepKept
<1>3. ASSUME MonitorKept, [MonitorNext]_monitorVars
      PROVE  [\A t \in Threads : stage[t] = "broadcast" /\ stage'[t] = "none"
                => \A u \in Threads : Waiting(u) => sema[Waiter[u]].value = 1]_monitorVars
  <2> SUFFICES ASSUME NEW t \in Threads, stage[t] = "broadcast", stage'[t] = "none",
                      NEW u \in Threads, Waiting(u)
               PROVE  sema[Waiter[u]].value = 1
    OBVIOUS
  <2>1. cond = <<>>
    BY <1>3, MonitorFacts DEF MonitorNext, CondWait, CondSleep, CondReacquire, CondReturn, CondSignal,
       CondBroadcast, Other, Enter, monitorVars
  <2>2. u \notin Elems(cond)
    BY <2>1 DEF Elems
  <2> QED BY <1>3, <2>2 DEF MonitorKept, AllInPlace, InPlace, Asleep, Waiting
<1> QED BY <1>1, <1>2, <1>3, PTL DEF MonitorSpec, BroadcastWakesAll

=============================================================================
