------------------------- MODULE KernelMemoryProofs -------------------------
(***************************************************************************)
(* Theorems about KernelMemory: the hash table and the page tables.        *)
(*                                                                         *)
(* The hash table, for any elements, keys and hash function and any number *)
(* of buckets: TableInv is inductive.  It says that an element is in the   *)
(* bucket of its hash, once (Sound), that elem_cnt counts the elements,    *)
(* and that no two have the same key, so that what find_elem finds is the  *)
(* only equal element.                                                     *)
(*                                                                         *)
(* The page tables, for any processes and addresses on a pool of any size: *)
(* MemInv, which relates the bits of the pool, its lock and the trees, is  *)
(* kept by every step of a process (TableKeeps).  KernelHeapProofs has the *)
(* steps of the threads on the heap and the theorems that follow.          *)
(***************************************************************************)
EXTENDS KernelMemory, ThreadSchedProofs

(* Every set of naturals with a member has a least one, and one with a     *)
(* bound a greatest.                                                       *)
LEMMA LeastGreatest ==
  ASSUME NEW S \in SUBSET Nat, S # {}
  PROVE  /\ Min(S) \in S /\ \A x \in S : Min(S) <= x
         /\ \A n \in Nat : (\A x \in S : x <= n) =>
              Max(S) \in S /\ \A x \in S : x <= Max(S)
<1>1. \E x \in S : \A y \in S : x <= y
  <2> SUFFICES ASSUME \A x \in S : \E y \in S : y < x PROVE FALSE
    OBVIOUS
  <2> DEFINE P == {m \in Nat : \A x \in 0..m : x \notin S}
  <2>1. 0 \in P
    OBVIOUS
  <2>2. ASSUME NEW m \in Nat, m \in P PROVE m + 1 \in P
    <3>1. m + 1 \notin S
      <4>1. ASSUME m + 1 \in S PROVE FALSE
        <5>1. PICK y \in S : y < m + 1
          BY <4>1
        <5>2. y \in 0..m
          BY <5>1
        <5> QED BY <5>2, <2>2
      <4> QED BY <4>1
    <3>2. \A x \in 0..(m + 1) : x = m + 1 \/ x \in 0..m
      OBVIOUS
    <3> QED BY <2>2, <3>1, <3>2
  <2> HIDE DEF P
  <2>3. \A m \in Nat : m \in P
    BY <2>1, <2>2, SetInduction
  <2>4. PICK x \in S : TRUE
    OBVIOUS
  <2>5. x \in P /\ x \in 0..x
    BY <2>3
  <2> QED BY <2>5 DEF P
<1>2. ASSUME NEW n \in Nat, \A x \in S : x <= n
      PROVE  \E x \in S : \A y \in S : x >= y
  <2> SUFFICES ASSUME \A x \in S : \E y \in S : y > x PROVE FALSE
    OBVIOUS
  <2> DEFINE P == {m \in Nat : \E x \in S : x >= m}
  <2>1. 0 \in P
    <3>1. PICK x \in S : TRUE
      OBVIOUS
    <3> QED BY <3>1
  <2>2. ASSUME NEW m \in Nat, m \in P PROVE m + 1 \in P
    <3>1. PICK x \in S : x >= m
      BY <2>2
    <3>2. PICK y \in S : y > x
      BY <3>1
    <3>3. y >= m + 1
      BY <3>1, <3>2
    <3> QED BY <3>3
  <2> HIDE DEF P
  <2>3. \A m \in Nat : m \in P
    BY <2>1, <2>2, SetInduction
  <2>4. n + 1 \in P
    BY <2>3
  <2>5. PICK x \in S : x >= n + 1
    BY <2>4 DEF P
  <2> QED BY <1>2, <2>5
<1>3. Min(S) \in S /\ \A x \in S : Min(S) <= x
  BY <1>1 DEF Min
<1>4. ASSUME NEW n \in Nat, \A x \in S : x <= n
      PROVE  Max(S) \in S /\ \A x \in S : x <= Max(S)
  BY <1>2, <1>4 DEF Max
<1> QED BY <1>3, <1>4

-----------------------------------------------------------------------------
(* The hash table. *)

(* A table whose elements are where find_bucket looks for them.            *)
Sound(bs) ==
  /\ bs \in Seq(Seq(Elements)) /\ Len(bs) > 0
  /\ \A i \in DOMAIN bs :
       /\ NoDuplicates(bs[i])
       /\ \A e \in Elems(bs[i]) : BucketOf(e, Len(bs)) = i

(* The inductive invariant.                                                *)
TableInv ==
  /\ Sound(buckets)
  /\ IsFiniteSet(Members(buckets)) /\ elemCnt = Cardinality(Members(buckets))
  /\ \A e, f \in Members(buckets) : Key[e] = Key[f] => e = f

(* A bucket is one of the buckets.                                        *)
LEMMA BucketIs ==
  ASSUME NEW e \in Elements, NEW n \in Nat, n > 0
  PROVE  BucketOf(e, n) \in 1..n
<1>1. PICK h \in Nat : h = Hash[Key[e]]
  BY HashAssumption
<1>2. h % n \in 0..(n - 1)
  OBVIOUS
<1> QED BY <1>1, <1>2 DEF BucketOf

(* An element is in its bucket or nowhere.                                 *)
LEMMA InBucket ==
  ASSUME NEW bs, Sound(bs)
  PROVE  /\ Len(bs) \in Nat /\ Len(bs) > 0 /\ DOMAIN bs = 1..Len(bs)
         /\ \A i \in 1..Len(bs) : bs[i] \in Seq(Elements) /\ Elems(bs[i]) \in SUBSET Elements
         /\ Members(bs) \in SUBSET Elements
         /\ \A e \in Elements : e \in Members(bs) <=> e \in Elems(bs[BucketOf(e, Len(bs))])
<1>1. Len(bs) \in Nat /\ Len(bs) > 0 /\ DOMAIN bs = 1..Len(bs)
  BY DEF Sound
<1>2. \A i \in 1..Len(bs) : bs[i] \in Seq(Elements)
  BY <1>1, ElementOfSeq DEF Sound
<1>3. \A i \in 1..Len(bs) : Elems(bs[i]) \in SUBSET Elements
  <2> SUFFICES ASSUME NEW i \in 1..Len(bs), NEW k \in DOMAIN bs[i] PROVE bs[i][k] \in Elements
    BY DEF Elems
  <2>1. PICK q \in Seq(Elements) : q = bs[i]
    BY <1>2
  <2> QED BY <2>1, ElementOfSeq, LenProperties
<1>4. Members(bs) \in SUBSET Elements
  BY <1>1, <1>3 DEF Members
<1>5. ASSUME NEW e \in Elements
      PROVE  e \in Members(bs) <=> e \in Elems(bs[BucketOf(e, Len(bs))])
  <2>1. BucketOf(e, Len(bs)) \in 1..Len(bs)
    BY <1>1, BucketIs
  <2>2. ASSUME e \in Members(bs) PROVE e \in Elems(bs[BucketOf(e, Len(bs))])
    BY <2>2 DEF Members, Sound
  <2>3. ASSUME e \in Elems(bs[BucketOf(e, Len(bs))]) PROVE e \in Members(bs)
    BY <1>1, <2>1, <2>3 DEF Members
  <2> QED BY <2>2, <2>3
<1> QED BY <1>1, <1>2, <1>3, <1>4, <1>5

(* list_push_front.                                                        *)
LEMMA PushedFront ==
  ASSUME NEW S, NEW q \in Seq(S), NEW e \in S, e \notin Elems(q)
  PROVE  /\ <<e>> \o q \in Seq(S) /\ Elems(<<e>> \o q) = Elems(q) \cup {e}
         /\ NoDuplicates(q) => NoDuplicates(<<e>> \o q)
<1> DEFINE r == <<e>> \o q
<1>1. /\ <<e>> \in Seq(S) /\ Len(<<e>>) = 1 /\ <<e>>[1] = e
      /\ Len(q) \in Nat /\ DOMAIN q = 1..Len(q)
  BY LenProperties
<1>2. r \in Seq(S) /\ Len(r) = Len(q) + 1 /\ r[1] = e
      /\ \A k \in 2..(Len(q) + 1) : r[k] = q[k - 1]
  BY <1>1, ConcatProperties
<1>3. DOMAIN r = 1..(Len(q) + 1)
  BY <1>2, LenProperties
<1> HIDE DEF r
<1>4. Elems(r) = Elems(q) \cup {e}
  <2>1. \A k \in DOMAIN r : r[k] = e \/ r[k] \in Elems(q)
    <3> SUFFICES ASSUME NEW k \in DOMAIN r, k # 1 PROVE r[k] \in Elems(q)
      BY <1>2
    <3>1. k \in 2..(Len(q) + 1) /\ k - 1 \in DOMAIN q
      BY <1>1, <1>3
    <3> QED BY <1>2, <3>1 DEF Elems
  <2>2. \A k \in DOMAIN q : q[k] \in Elems(r)
    <3> SUFFICES ASSUME NEW k \in DOMAIN q PROVE q[k] \in Elems(r)
      OBVIOUS
    <3>1. k + 1 \in 2..(Len(q) + 1) /\ k + 1 \in DOMAIN r /\ (k + 1) - 1 = k
      BY <1>1, <1>3
    <3>2. r[k + 1] = q[k]
      BY <1>2, <3>1
    <3> QED BY <3>1, <3>2 DEF Elems
  <2>3. 1 \in DOMAIN r
    BY <1>1, <1>3
  <2>4. e \in Elems(r)
    BY <1>2, <2>3 DEF Elems
  <2> QED BY <2>1, <2>2, <2>4 DEF Elems
<1>5. ASSUME NoDuplicates(q) PROVE NoDuplicates(r)
  <2> SUFFICES ASSUME NEW i \in DOMAIN r, NEW j \in DOMAIN r, r[i] = r[j] PROVE i = j
    BY DEF NoDuplicates
  <2>1. \A k \in DOMAIN r : k # 1 => k - 1 \in DOMAIN q /\ r[k] = q[k - 1] /\ r[k] # e
    <3> SUFFICES ASSUME NEW k \in DOMAIN r, k # 1
                 PROVE  k - 1 \in DOMAIN q /\ r[k] = q[k - 1] /\ r[k] # e
      OBVIOUS
    <3>1. k \in 2..(Len(q) + 1) /\ k - 1 \in DOMAIN q
      BY <1>1, <1>3
    <3> QED BY <1>2, <3>1 DEF Elems
  <2>2. CASE i = 1 \/ j = 1
    BY <1>2, <2>1, <2>2
  <2>3. CASE i # 1 /\ j # 1
    <3>1. i - 1 = j - 1
      BY <1>5, <2>1, <2>3 DEF NoDuplicates
    <3> QED BY <1>1, <1>3, <3>1
  <2> QED BY <2>2, <2>3
<1> QED BY <1>2, <1>4, <1>5 DEF r

(* A new table.                                                            *)
LEMMA EmptySound ==
  ASSUME NEW n \in Nat, n > 0
  PROVE  Sound(EmptyBuckets(n)) /\ Len(EmptyBuckets(n)) = n /\ Members(EmptyBuckets(n)) = {}
<1>1. /\ EmptyBuckets(n) \in Seq(Seq(Elements)) /\ Len(EmptyBuckets(n)) = n
      /\ DOMAIN EmptyBuckets(n) = 1..n
  <2>1. EmptyBuckets(n) \in [1..n -> Seq(Elements)]
    BY EmptySeq DEF EmptyBuckets
  <2> QED BY <2>1, IsASeq DEF EmptyBuckets
<1>2. \A i \in 1..n : EmptyBuckets(n)[i] = <<>>
  BY DEF EmptyBuckets
<1>3. DOMAIN <<>> = {} /\ Elems(<<>>) = {}
  BY DEF Elems
<1> QED BY <1>1, <1>2, <1>3 DEF Sound, Members, NoDuplicates

(* Pushing an element that is new to the front of its bucket.              *)
LEMMA PushSound ==
  ASSUME NEW bs, Sound(bs), NEW e \in Elements, e \notin Members(bs)
  PROVE  LET c == PushedInto(bs, BucketOf(e, Len(bs)), e)
         IN  Sound(c) /\ Len(c) = Len(bs) /\ Members(c) = Members(bs) \cup {e}
<1> DEFINE b == BucketOf(e, Len(bs))
           c == PushedInto(bs, b, e)
<1>1. /\ Len(bs) \in Nat /\ Len(bs) > 0 /\ DOMAIN bs = 1..Len(bs)
      /\ \A i \in 1..Len(bs) : bs[i] \in Seq(Elements)
      /\ e \notin Elems(bs[b])
  BY InBucket
<1>2. b \in 1..Len(bs)
  BY <1>1, BucketIs
<1>3. PICK q \in Seq(Elements) : q = bs[b]
  BY <1>1, <1>2
<1>4. PICK r : r = <<e>> \o q
  OBVIOUS
<1>5. r \in Seq(Elements) /\ Elems(r) = Elems(q) \cup {e} /\ (NoDuplicates(q) => NoDuplicates(r))
  BY <1>1, <1>3, <1>4, PushedFront
<1>6. c = [bs EXCEPT ![b] = r]
  BY <1>3, <1>4 DEF PushedInto
<1>7. bs \in Seq(Seq(Elements))
  BY DEF Sound
<1> HIDE DEF c, b
<1>8. c \in Seq(Seq(Elements)) /\ Len(c) = Len(bs) /\ DOMAIN c = 1..Len(bs)
  BY <1>1, <1>2, <1>5, <1>6, <1>7, ExceptSeq, LenProperties
<1>9. c[b] = r /\ \A i \in 1..Len(bs) : i # b => c[i] = bs[i]
  BY <1>1, <1>2, <1>6
<1>10. Members(c) = Members(bs) \cup {e}
  <2>1. \A i \in 1..Len(bs) : Elems(c[i]) = IF i = b THEN Elems(bs[i]) \cup {e} ELSE Elems(bs[i])
    BY <1>3, <1>5, <1>9
  <2> QED BY <1>1, <1>2, <1>8, <2>1 DEF Members
<1>11. Sound(c)
  <2>1. ASSUME NEW i \in 1..Len(bs)
        PROVE  NoDuplicates(c[i]) /\ \A x \in Elems(c[i]) : BucketOf(x, Len(bs)) = i
    <3>1. NoDuplicates(bs[i]) /\ \A x \in Elems(bs[i]) : BucketOf(x, Len(bs)) = i
      BY <1>1 DEF Sound
    <3>2. CASE i = b
      BY <1>3, <1>5, <1>9, <3>1, <3>2 DEF b
    <3>3. CASE i # b
      BY <1>9, <3>1, <3>3
    <3> QED BY <3>2, <3>3
  <2> QED BY <1>1, <1>8, <2>1 DEF Sound
<1> QED BY <1>8, <1>10, <1>11 DEF c, b

(* list_remove.                                                            *)
LEMMA RemoveSound ==
  ASSUME NEW bs, Sound(bs), NEW e
  PROVE  LET c == RemoveElem(bs, e)
         IN  Sound(c) /\ Len(c) = Len(bs) /\ Members(c) = Members(bs) \ {e}
<1> DEFINE c == RemoveElem(bs, e)
<1>1. /\ Len(bs) \in Nat /\ Len(bs) > 0 /\ DOMAIN bs = 1..Len(bs)
      /\ \A i \in 1..Len(bs) : bs[i] \in Seq(Elements)
  BY InBucket
<1>2. ASSUME NEW i \in 1..Len(bs)
      PROVE  /\ c[i] \in Seq(Elements) /\ Elems(c[i]) = Elems(bs[i]) \ {e} /\ NoDuplicates(c[i])
  <2>1. PICK q \in Seq(Elements) : q = bs[i]
    BY <1>1
  <2>2. c[i] = Without(q, {e})
    BY <1>1, <2>1 DEF RemoveElem
  <2>3. NoDuplicates(q)
    BY <1>1, <2>1 DEF Sound
  <2> HIDE DEF c
  <2> QED BY <2>1, <2>2, <2>3, WithoutProperties
<1>3. DOMAIN c = 1..Len(bs) /\ c = [i \in 1..Len(bs) |-> c[i]]
  BY <1>1 DEF RemoveElem
<1> HIDE DEF c
<1>4. c \in [1..Len(bs) -> Seq(Elements)]
  BY <1>2, <1>3
<1>5. c \in Seq(Seq(Elements)) /\ Len(c) = Len(bs)
  BY <1>1, <1>4, IsASeq, LenProperties
<1>6. Sound(c)
  BY <1>1, <1>2, <1>3, <1>5 DEF Sound
<1>7. Members(c) = Members(bs) \ {e}
  BY <1>1, <1>2, <1>3 DEF Members
<1> QED BY <1>5, <1>6, <1>7 DEF c

(* What find_elem finds in a table without two equal elements.             *)
LEMMA FoundIs ==
  ASSUME NEW bs, Sound(bs), NEW e \in Elements,
         \A f, g \in Members(bs) : Key[f] = Key[g] => f = g
  PROVE  /\ Found(bs, e) = NoElement => \A f \in Members(bs) : Key[f] # Key[e]
         /\ Found(bs, e) # NoElement =>
              /\ Found(bs, e) \in Members(bs) /\ Key[Found(bs, e)] = Key[e]
              /\ \A f \in Members(bs) : Key[f] = Key[e] => f = Found(bs, e)
         /\ NoElement \notin Members(bs)
<1> DEFINE b == BucketOf(e, Len(bs))
           equal == {k \in DOMAIN bs[b] : Key[bs[b][k]] = Key[e]}
<1>1. /\ Len(bs) \in Nat /\ Len(bs) > 0
      /\ \A i \in 1..Len(bs) : bs[i] \in Seq(Elements)
      /\ Members(bs) \in SUBSET Elements
      /\ \A f \in Elements : f \in Members(bs) <=> f \in Elems(bs[BucketOf(f, Len(bs))])
  BY InBucket
<1>2. b \in 1..Len(bs)
  BY <1>1, BucketIs
<1>3. PICK q \in Seq(Elements) : q = bs[b]
  BY <1>1, <1>2
<1>4. \A f \in Members(bs) : Key[f] = Key[e] => f \in Elems(q)
  <2> SUFFICES ASSUME NEW f \in Members(bs), Key[f] = Key[e] PROVE f \in Elems(q)
    OBVIOUS
  <2>1. BucketOf(f, Len(bs)) = b
    BY DEF BucketOf
  <2> QED BY <1>1, <1>3, <2>1
<1>5. NoElement \notin Members(bs)
  BY <1>1, HashAssumption
<1>6. CASE equal = {}
  <2>1. Found(bs, e) = NoElement
    BY <1>6 DEF Found
  <2>2. \A f \in Elems(q) : Key[f] # Key[e]
    BY <1>3, <1>6 DEF Elems
  <2> QED BY <1>4, <1>5, <2>1, <2>2
<1>7. CASE equal # {}
  <2>1. Found(bs, e) = q[Min(equal)]
    BY <1>3, <1>7 DEF Found
  <2>2. equal \in SUBSET Nat
    <3>1. DOMAIN q = 1..Len(q) /\ Len(q) \in Nat
      BY LenProperties
    <3> QED BY <1>3, <3>1
  <2>3. Min(equal) \in equal
    BY <1>7, <2>2, LeastGreatest
  <2> HIDE DEF equal
  <2>4. PICK k \in equal : k = Min(equal)
    BY <2>3
  <2>5. k \in DOMAIN q /\ Key[q[k]] = Key[e]
    BY <1>3, <2>4 DEF equal
  <2> HIDE DEF b
  <2>6. q[k] \in Elements
    BY <2>5, ElementOfSeq, LenProperties
  <2>7. q[k] \in Members(bs)
    <3>1. q[k] \in Elems(bs[b])
      BY <1>3, <2>5 DEF Elems
    <3>2. BucketOf(q[k], Len(bs)) = b
      BY <2>5 DEF BucketOf, b
    <3> QED BY <1>1, <2>6, <3>1, <3>2
  <2> QED BY <1>5, <2>1, <2>4, <2>5, <2>7
<1> QED BY <1>6, <1>7

(* There is always a number of buckets to want.                           *)
LEMMA WantedIs ==
  ASSUME NEW cnt \in Nat
  PROVE  WantedBuckets(cnt) \in Nat /\ WantedBuckets(cnt) > 0
<1> DEFINE S == {cnt \div BestPerBucket, MinBuckets}
           n == Max(S)
           T == {m \in 1..n : PowerOfTwo(m)}
<1>1. BestPerBucket \in Nat \ {0} /\ MinBuckets \in Nat \ {0}
  BY HashAssumption
<1>2. PICK a \in Nat : a = cnt \div BestPerBucket
  BY <1>1
<1>3. n \in Nat /\ n > 0
  <2>1. S = {a, MinBuckets}
    BY <1>2
  <2>2. S \in SUBSET Nat /\ S # {} /\ a + MinBuckets \in Nat /\ \A x \in S : x <= a + MinBuckets
    BY <1>1, <2>1
  <2>3. n \in S /\ \A x \in S : x <= n
    BY <2>2, LeastGreatest
  <2> HIDE DEF n
  <2> QED BY <1>1, <2>1, <2>3
<1>4. WantedBuckets(cnt) = Max(T)
  BY DEF WantedBuckets
<1> HIDE DEF n, S
<1>5. T \in SUBSET Nat /\ (\A x \in T : x <= n) /\ 1 \in T
  BY <1>3 DEF PowerOfTwo
<1>6. Max(T) \in T
  <2> HIDE DEF T
  <2> QED BY <1>3, <1>5, LeastGreatest
<1> QED BY <1>3, <1>4, <1>6

-----------------------------------------------------------------------------
(* rehash.  The recursive functions of MovedFrom and MovedAll exist.       *)
FromIs(m, bucket, new, cnt, f) ==
  f = [k \in 0..m |->
         IF k = 0 THEN new ELSE PushedInto(f[k - 1], BucketOf(bucket[k], cnt), bucket[k])]

(* moved_from of the hash table as a function of how many elements remain. *)
LEMMA FromDef ==
  ASSUME NEW bucket, Len(bucket) \in Nat, NEW new, NEW cnt
  PROVE  \E f : FromIs(Len(bucket), bucket, new, cnt, f) /\ MovedFrom(bucket, new, cnt) = f[Len(bucket)]
<1> DEFINE P == {m \in Nat : \E f : FromIs(m, bucket, new, cnt, f)}
<1>1. 0 \in P
  <2>1. FromIs(0, bucket, new, cnt, [k \in 0..0 |-> new])
    BY DEF FromIs
  <2> QED BY <2>1
<1>2. ASSUME NEW m \in Nat, m \in P PROVE m + 1 \in P
  <2>1. PICK f : FromIs(m, bucket, new, cnt, f)
    BY <1>2
  <2> DEFINE g == [k \in 0..(m + 1) |->
                     IF k = m + 1
                     THEN PushedInto(f[m], BucketOf(bucket[m + 1], cnt), bucket[m + 1])
                     ELSE f[k]]
  <2>2. FromIs(m + 1, bucket, new, cnt, g)
    BY <2>1 DEF FromIs
  <2> QED BY <2>2
<1>3. Len(bucket) \in P
  <2> HIDE DEF P
  <2> QED BY <1>1, <1>2, SetInduction
<1>4. MovedFrom(bucket, new, cnt) =
        (CHOOSE f : FromIs(Len(bucket), bucket, new, cnt, f))[Len(bucket)]
  BY DEF MovedFrom, FromIs
<1> QED BY <1>3, <1>4

AllIs(m, bs, n, cnt, f) ==
  f = [i \in 0..m |-> IF i = 0 THEN EmptyBuckets(n) ELSE MovedFrom(bs[i], f[i - 1], cnt)]

(* The same of all buckets.                                                *)
LEMMA AllDef ==
  ASSUME NEW bs, Len(bs) \in Nat, NEW n, NEW cnt
  PROVE  \E f : AllIs(Len(bs), bs, n, cnt, f) /\ MovedAll(bs, n, cnt) = f[Len(bs)]
<1> DEFINE P == {m \in Nat : \E f : AllIs(m, bs, n, cnt, f)}
<1>1. 0 \in P
  <2>1. AllIs(0, bs, n, cnt, [k \in 0..0 |-> EmptyBuckets(n)])
    BY DEF AllIs
  <2> QED BY <2>1
<1>2. ASSUME NEW m \in Nat, m \in P PROVE m + 1 \in P
  <2>1. PICK f : AllIs(m, bs, n, cnt, f)
    BY <1>2
  <2> DEFINE g == [k \in 0..(m + 1) |->
                     IF k = m + 1 THEN MovedFrom(bs[m + 1], f[m], cnt) ELSE f[k]]
  <2>2. AllIs(m + 1, bs, n, cnt, g)
    BY <2>1 DEF AllIs
  <2> QED BY <2>2
<1>3. Len(bs) \in P
  <2> HIDE DEF P
  <2> QED BY <1>1, <1>2, SetInduction
<1>4. MovedAll(bs, n, cnt) = (CHOOSE f : AllIs(Len(bs), bs, n, cnt, f))[Len(bs)]
  BY DEF MovedAll, AllIs
<1> QED BY <1>3, <1>4

(* A bucket is moved element by element ...                                *)
LEMMA FromSound ==
  ASSUME NEW q \in Seq(Elements), NoDuplicates(q), NEW new, Sound(new),
         Elems(q) \cap Members(new) = {}
  PROVE  LET c == MovedFrom(q, new, Len(new))
         IN  Sound(c) /\ Len(c) = Len(new) /\ Members(c) = Members(new) \cup Elems(q)
<1> DEFINE n == Len(new)
           N == Len(q)
           c == MovedFrom(q, new, n)
           There(m, t) == /\ Sound(t) /\ Len(t) = n
                          /\ Members(t) = Members(new) \cup {q[j] : j \in 1..m}
<1>1. N \in Nat /\ DOMAIN q = 1..N /\ \A k \in 1..N : q[k] \in Elements
  BY LenProperties, ElementOfSeq
<1>2. PICK f : FromIs(N, q, new, n, f) /\ c = f[N]
  BY <1>1, FromDef
<1> DEFINE P == {m \in Nat : m <= N => There(m, f[m])}
<1> HIDE DEF c
<1>3. 0 \in P
  <2>1. f[0] = new
    BY <1>1, <1>2 DEF FromIs
  <2>2. {q[j] : j \in 1..0} = {}
    OBVIOUS
  <2> QED BY <2>1, <2>2
<1>4. ASSUME NEW m \in Nat, m \in P PROVE m + 1 \in P
  <2> SUFFICES ASSUME m + 1 <= N PROVE There(m + 1, f[m + 1])
    OBVIOUS
  <2>1. m + 1 \in 1..N /\ \A j \in 1..m : j \in 1..N /\ j # m + 1
    BY <1>1
  <2>2. There(m, f[m])
    BY <1>1, <1>4
  <2>3. PICK e : e = q[m + 1]
    OBVIOUS
  <2>4. e \in Elements
    BY <1>1, <2>1, <2>3
  <2>5. e \notin {q[j] : j \in 1..m}
    BY <1>1, <2>1, <2>3 DEF NoDuplicates
  <2>6. e \notin Members(new)
    BY <1>1, <2>1, <2>3 DEF Elems
  <2>7. f[m + 1] = PushedInto(f[m], BucketOf(e, n), e)
    BY <1>1, <1>2, <2>1, <2>3 DEF FromIs
  <2>8. PICK t : t = f[m]
    OBVIOUS
  <2>9. Sound(t) /\ Len(t) = n /\ Members(t) = Members(new) \cup {q[j] : j \in 1..m}
    BY <2>2, <2>8
  <2>10. e \notin Members(t)
    BY <2>5, <2>6, <2>9
  <2>11. PICK u : u = PushedInto(t, BucketOf(e, Len(t)), e)
    OBVIOUS
  <2>12. Sound(u) /\ Len(u) = Len(t) /\ Members(u) = Members(t) \cup {e}
    BY <2>4, <2>9, <2>10, <2>11, PushSound
  <2>13. {q[j] : j \in 1..(m + 1)} = {q[j] : j \in 1..m} \cup {e}
    <3>1. 1..(m + 1) = (1..m) \cup {m + 1}
      OBVIOUS
    <3> QED BY <2>3, <3>1
  <2>14. u = f[m + 1]
    BY <2>7, <2>8, <2>9, <2>11
  <2> HIDE DEF n, N
  <2>15. There(m + 1, u)
    BY <2>9, <2>12, <2>13
  <2> QED BY <2>14, <2>15
<1>5. N \in P
  <2> HIDE DEF P, N
  <2> QED BY <1>1, <1>3, <1>4, SetInduction
<1>6. There(N, f[N])
  BY <1>1, <1>5
<1>7. Elems(q) = {q[j] : j \in 1..N}
  BY <1>1 DEF Elems
<1> QED BY <1>2, <1>6, <1>7 DEF c

(* ... and the table bucket by bucket: the new one has the elements of the *)
(* old.                                                                    *)
LEMMA MovedSound ==
  ASSUME NEW bs, Sound(bs), NEW n \in Nat, n > 0
  PROVE  Sound(Moved(bs, n)) /\ Members(Moved(bs, n)) = Members(bs)
<1> DEFINE N == Len(bs)
           c == MovedAll(bs, n, n)
           Part(m) == UNION {Elems(bs[j]) : j \in 1..m}
           There(m, t) == Sound(t) /\ Len(t) = n /\ Members(t) = Part(m)
<1>1. /\ N \in Nat /\ N > 0 /\ DOMAIN bs = 1..N
      /\ \A i \in 1..N : bs[i] \in Seq(Elements) /\ Elems(bs[i]) \in SUBSET Elements
  BY InBucket
<1>2. PICK f : AllIs(N, bs, n, n, f) /\ c = f[N]
  BY <1>1, AllDef
<1> DEFINE P == {m \in Nat : m <= N => There(m, f[m])}
<1> HIDE DEF c
<1>3. 0 \in P
  <2>1. f[0] = EmptyBuckets(n)
    BY <1>1, <1>2 DEF AllIs
  <2>2. Part(0) = {}
    OBVIOUS
  <2> HIDE DEF Part
  <2> QED BY <2>1, <2>2, EmptySound
<1>4. ASSUME NEW m \in Nat, m \in P PROVE m + 1 \in P
  <2> SUFFICES ASSUME m + 1 <= N PROVE There(m + 1, f[m + 1])
    OBVIOUS
  <2>1. m + 1 \in 1..N /\ \A j \in 1..m : j \in 1..N /\ j # m + 1
    BY <1>1
  <2>2. There(m, f[m])
    BY <1>1, <1>4
  <2>3. PICK q \in Seq(Elements) : q = bs[m + 1]
    BY <1>1, <2>1
  <2>4. NoDuplicates(q) /\ \A e \in Elems(q) : BucketOf(e, N) = m + 1
    BY <1>1, <2>1, <2>3 DEF Sound
  <2>5. Elems(q) \cap Part(m) = {}
    <3> SUFFICES ASSUME NEW e \in Elems(q), NEW j \in 1..m, e \in Elems(bs[j]) PROVE FALSE
      OBVIOUS
    <3>1. BucketOf(e, N) = j
      BY <1>1, <2>1 DEF Sound
    <3> QED BY <2>1, <2>4, <3>1
  <2>6. PICK t : t = f[m]
    OBVIOUS
  <2>7. Sound(t) /\ Len(t) = n /\ Members(t) = Part(m)
    BY <2>2, <2>6
  <2>8. PICK u : u = MovedFrom(q, t, Len(t))
    OBVIOUS
  <2>9. Sound(u) /\ Len(u) = Len(t) /\ Members(u) = Members(t) \cup Elems(q)
    <3> HIDE DEF Part
    <3> QED BY <2>3, <2>4, <2>5, <2>7, <2>8, FromSound
  <2>10. Part(m + 1) = Part(m) \cup Elems(q)
    <3>1. 1..(m + 1) = (1..m) \cup {m + 1}
      OBVIOUS
    <3> QED BY <2>3, <3>1
  <2>11. u = f[m + 1]
    BY <1>1, <1>2, <2>1, <2>3, <2>6, <2>7, <2>8 DEF AllIs
  <2> HIDE DEF N, Part
  <2>12. There(m + 1, u)
    BY <2>7, <2>9, <2>10
  <2> QED BY <2>11, <2>12
<1>5. N \in P
  <2> HIDE DEF P, N
  <2> QED BY <1>1, <1>3, <1>4, SetInduction
<1>6. There(N, f[N])
  BY <1>1, <1>5
<1>7. Members(bs) = Part(N)
  BY <1>1 DEF Members
<1>8. Moved(bs, n) = c
  BY DEF Moved, c
<1> HIDE DEF Part, N
<1> QED BY <1>2, <1>6, <1>7, <1>8

(* rehash, whether or not it gets its memory.                              *)
LEMMA RehashSound ==
  ASSUME NEW bs, Sound(bs), NEW cnt \in Nat, NEW allocated \in BOOLEAN
  PROVE  LET c == Rehash(bs, cnt, allocated) IN Sound(c) /\ Members(c) = Members(bs)
BY MovedSound, WantedIs DEF Rehash

-----------------------------------------------------------------------------
(* hash_init.                                                              *)
LEMMA TableInvInit == TableInit => TableInv /\ Keyed!Init
<1> SUFFICES ASSUME TableInit PROVE TableInv /\ Keyed!Init
  OBVIOUS
<1>1. MinBuckets \in Nat /\ MinBuckets > 0
  BY HashAssumption
<1>2. Sound(buckets) /\ Members(buckets) = {}
  BY <1>1, EmptySound DEF TableInit
<1> QED BY <1>2, FS_EmptySet DEF TableInit, TableInv, Keyed!Init

(* find_elem finds what a set with keys has.                               *)
LEMMA FoundEqual ==
  ASSUME TableInv, NEW e \in Elements
  PROVE  /\ Found(buckets, e) = Keyed!Equal(e)
         /\ Found(buckets, e) = NoElement => \A f \in Members(buckets) : Key[f] # Key[e]
         /\ Found(buckets, e) # NoElement =>
              Found(buckets, e) \in Members(buckets) /\ Key[Found(buckets, e)] = Key[e]
         /\ NoElement \notin Members(buckets)
<1>1. PICK B, x : B = buckets /\ x = Found(B, e)
  OBVIOUS
<1>2. /\ x = NoElement => \A f \in Members(B) : Key[f] # Key[e]
      /\ x # NoElement =>
           /\ x \in Members(B) /\ Key[x] = Key[e]
           /\ \A f \in Members(B) : Key[f] = Key[e] => f = x
      /\ NoElement \notin Members(B)
  BY <1>1, FoundIs DEF TableInv
<1>3. x = Keyed!Equal(e)
  BY <1>1, <1>2 DEF Keyed!Equal
<1> QED BY <1>1, <1>2, <1>3

(* Each call of hash.c keeps the table sound and does what it promises.    *)
LEMMA HashStepKeeps ==
  ASSUME TableInv, HashStep
  PROVE  TableInv' /\ Keyed!Next
<1> DEFINE M == Members(buckets)
<1>1. PICK B, C, x : B = buckets /\ C = buckets' /\ x = result'
  OBVIOUS
<1>2. /\ Sound(B) /\ Members(B) \in SUBSET Elements /\ IsFiniteSet(Members(B))
      /\ elemCnt = Cardinality(Members(B)) /\ elemCnt \in Nat
      /\ \A e, f \in Members(B) : Key[e] = Key[f] => e = f
  BY <1>1, InBucket, FS_CardinalityType DEF TableInv
<1>3. ASSUME NEW e \in Elements, e \notin M, HashInsert(e)
      PROVE  TableInv' /\ Keyed!Insert(e)
  <2>1. PICK old : old = Found(B, e)
    OBVIOUS
  <2>2. /\ old = Keyed!Equal(e) /\ NoElement \notin Members(B)
        /\ old = NoElement => \A f \in Members(B) : Key[f] # Key[e]
    BY <1>1, <2>1, FoundEqual
  <2>3. CASE old = NoElement
    <3>1. PICK N : N = InsertElem(B, e)
      OBVIOUS
    <3>2. Sound(N) /\ Members(N) = Members(B) \cup {e}
      BY <1>1, <1>2, <1>3, <3>1, PushSound DEF InsertElem
    <3>3. PICK allocated \in BOOLEAN : C = Rehash(N, elemCnt + 1, allocated)
      BY <1>1, <1>3, <2>1, <2>3, <3>1 DEF HashInsert
    <3>4. Sound(C) /\ Members(C) = Members(B) \cup {e}
      BY <1>2, <3>2, <3>3, RehashSound
    <3>5. /\ IsFiniteSet(Members(C)) /\ elemCnt' = Cardinality(Members(C))
      <4>1. elemCnt' = elemCnt + 1
        BY <1>1, <1>3, <2>1, <2>3 DEF HashInsert
      <4> QED BY <1>1, <1>2, <1>3, <3>4, <4>1, FS_AddElement
    <3>6. \A f, g \in Members(C) : Key[f] = Key[g] => f = g
      BY <1>2, <2>2, <2>3, <3>4
    <3>7. result' = old
      BY <1>1, <1>3, <2>1 DEF HashInsert
    <3> QED BY <1>1, <2>2, <2>3, <3>4, <3>5, <3>6, <3>7 DEF TableInv, Keyed!Insert
  <2>4. CASE old # NoElement
    <3>1. /\ result' = old /\ elemCnt' = elemCnt
          /\ \E allocated \in BOOLEAN : C = Rehash(B, elemCnt, allocated)
      BY <1>1, <1>3, <2>1, <2>4 DEF HashInsert
    <3>2. Sound(C) /\ Members(C) = Members(B)
      BY <1>2, <3>1, RehashSound
    <3> QED BY <1>1, <1>2, <2>2, <2>4, <3>1, <3>2 DEF TableInv, Keyed!Insert
  <2> QED BY <2>3, <2>4
<1>4. ASSUME NEW e \in Elements, e \notin M, HashReplace(e)
      PROVE  TableInv' /\ Keyed!Replace(e)
  <2>1. PICK old : old = Found(B, e)
    OBVIOUS
  <2>2. /\ old = Keyed!Equal(e) /\ NoElement \notin Members(B)
        /\ old = NoElement => \A f \in Members(B) : Key[f] # Key[e]
        /\ old # NoElement => old \in Members(B) /\ Key[old] = Key[e]
    BY <1>1, <2>1, FoundEqual
  <2>3. PICK R, N : R = RemoveElem(B, old) /\ N = InsertElem(R, e)
    OBVIOUS
  <2>4. Sound(R) /\ Members(R) = Members(B) \ {old}
    BY <1>2, <2>3, RemoveSound
  <2>5. Sound(N) /\ Members(N) = (Members(B) \ {old}) \cup {e}
    BY <1>1, <1>4, <2>3, <2>4, PushSound DEF InsertElem
  <2>6. PICK cnt : cnt = ReplacedCnt(old)
    OBVIOUS
  <2>7. PICK allocated \in BOOLEAN : C = Rehash(N, cnt, allocated)
    BY <1>1, <1>4, <2>1, <2>3, <2>6 DEF HashReplace
  <2>8. cnt \in Nat /\ elemCnt' = cnt /\ result' = old
    BY <1>1, <1>2, <1>4, <2>1, <2>6 DEF HashReplace, ReplacedCnt
  <2>9. Sound(C) /\ Members(C) = (Members(B) \ {old}) \cup {e}
    BY <2>5, <2>7, <2>8, RehashSound
  <2>10. IsFiniteSet(Members(C)) /\ cnt = Cardinality(Members(C))
    <3>1. /\ IsFiniteSet(Members(B) \ {old})
          /\ Cardinality(Members(B) \ {old}) = IF old = NoElement THEN elemCnt ELSE elemCnt - 1
      BY <1>2, <2>2, FS_RemoveElement
    <3>2. /\ IsFiniteSet(Members(C))
          /\ Cardinality(Members(C)) = Cardinality(Members(B) \ {old}) + 1
      BY <1>1, <1>4, <2>9, <3>1, FS_AddElement
    <3> QED BY <1>2, <2>6, <3>1, <3>2 DEF ReplacedCnt
  <2>11. \A f, g \in Members(C) : Key[f] = Key[g] => f = g
    BY <1>2, <2>2, <2>9
  <2> QED BY <1>1, <2>2, <2>8, <2>9, <2>10, <2>11 DEF TableInv, Keyed!Replace
<1>5. ASSUME NEW e \in Elements, HashFind(e)
      PROVE  TableInv' /\ Keyed!Find(e)
  <2>1. result' = Keyed!Equal(e) /\ UNCHANGED <<buckets, elemCnt>>
    BY <1>5, FoundEqual DEF HashFind
  <2> QED BY <2>1 DEF TableInv, Keyed!Find
<1>6. ASSUME NEW e \in Elements, HashDelete(e)
      PROVE  TableInv' /\ Keyed!Delete(e)
  <2>1. PICK old : old = Found(B, e)
    OBVIOUS
  <2>2. /\ old = Keyed!Equal(e) /\ NoElement \notin Members(B)
        /\ old # NoElement => old \in Members(B)
    BY <1>1, <2>1, FoundEqual
  <2>3. result' = old
    BY <1>1, <1>6, <2>1 DEF HashDelete
  <2>4. CASE old = NoElement
    <3>1. UNCHANGED <<buckets, elemCnt>>
      BY <1>1, <1>6, <2>1, <2>4 DEF HashDelete
    <3>2. Members(B) = Members(B) \ {old}
      BY <2>2, <2>4
    <3> QED BY <1>1, <2>2, <2>3, <3>1, <3>2 DEF TableInv, Keyed!Delete
  <2>5. CASE old # NoElement
    <3>1. PICK R : R = RemoveElem(B, old)
      OBVIOUS
    <3>2. Sound(R) /\ Members(R) = Members(B) \ {old}
      BY <1>2, <3>1, RemoveSound
    <3>3. /\ elemCnt' = elemCnt - 1
          /\ \E allocated \in BOOLEAN : C = Rehash(R, elemCnt - 1, allocated)
      BY <1>1, <1>6, <2>1, <2>5, <3>1 DEF HashDelete
    <3>4. /\ IsFiniteSet(Members(R)) /\ Cardinality(Members(R)) = elemCnt - 1
          /\ elemCnt - 1 \in Nat
      <4>1. /\ IsFiniteSet(Members(R))
            /\ Cardinality(Members(R)) = Cardinality(Members(B)) - 1
        <5>1. old \in Members(B)
          BY <2>2, <2>5
        <5>2. PICK T : T = Members(B)
          OBVIOUS
        <5>3. IsFiniteSet(T \ {old}) /\ Cardinality(T \ {old}) = Cardinality(T) - 1
          BY <1>2, <5>1, <5>2, FS_RemoveElement
        <5> QED BY <3>2, <5>2, <5>3
      <4>2. Cardinality(Members(R)) \in Nat
        BY <4>1, FS_CardinalityType
      <4> QED BY <1>2, <4>1, <4>2
    <3>5. Sound(C) /\ Members(C) = Members(B) \ {old}
      BY <3>2, <3>3, <3>4, RehashSound
    <3> QED BY <1>1, <1>2, <2>2, <2>3, <3>2, <3>3, <3>4, <3>5 DEF TableInv, Keyed!Delete
  <2> QED BY <2>4, <2>5
<1>7. ASSUME HashClear PROVE TableInv' /\ Keyed!Clear
  <2>1. Len(B) \in Nat /\ Len(B) > 0
    BY <1>2, InBucket
  <2>2. Sound(C) /\ Members(C) = {}
    BY <1>1, <1>7, <2>1, EmptySound DEF HashClear
  <2> QED BY <1>1, <1>7, <2>2, FS_EmptySet DEF HashClear, TableInv, Keyed!Clear
<1> QED BY <1>3, <1>4, <1>5, <1>6, <1>7 DEF HashStep, Keyed!Next

(* The other components leave the table alone.                             *)
LEMMA TableStays ==
  ASSUME TableInv, [Next]_vars
  PROVE  TableInv' /\ [Keyed!Next]_<<Members(buckets), result>>
<1>1. CASE HashStep
  BY <1>1, HashStepKeeps
<1>2. CASE UNCHANGED hashVars
  BY <1>2 DEF hashVars, TableInv
<1> QED BY <1>1, <1>2 DEF Next, vars

(* The hash table is sound after any calls, whichever allocations fail ... *)
THEOREM Table == Spec => []TableSound
<1>1. Init => TableInv
  BY TableInvInit DEF Init
<1>2. TableInv /\ [Next]_vars => TableInv'
  BY TableStays
<1>3. TableInv => TableSound
  BY DEF TableInv, TableSound, Sound
<1> QED BY <1>1, <1>2, <1>3, PTL DEF Spec

(* ... and callers see a set of elements with different keys.              *)
THEOREM TableRefines == Spec => ImplementsKeyedSet
<1>1. Init => TableInv /\ Keyed!Init
  BY TableInvInit DEF Init
<1>2. TableInv /\ [Next]_vars => TableInv' /\ [Keyed!Next]_<<Members(buckets), result>>
  BY TableStays
<1> QED BY <1>1, <1>2, PTL DEF Spec, ImplementsKeyedSet, Keyed!Spec

-----------------------------------------------------------------------------
(* The slot above a slot, the index that leads from there, and what the    *)
(* entry of that index says.                                               *)
Lower == {s \in Slots : s[1] > 0}
(* A place in a page-table tree is <<level, i, j>>: <<0, 0, 0>> is the     *)
(* PML4, <<1, 0, 0>> the PDP under its entry 0, <<2, i, 0>> a page         *)
(* directory and <<3, i, j>> a page table.  Up(s) is the place whose entry *)
(* Idx(s) points to s.                                                     *)
Up(s) == <<s[1] - 1, IF s[1] = 3 THEN s[2] ELSE 0, 0>>
Idx(s) == IF s[1] = 3 THEN s[3] ELSE s[2]
(* What the entry for place s points to, if it is a live page of the tree. *)
Hang(p, s) == Down(NodeAt(p, Up(s)), Idx(s))
TopSlot == <<0, 0, 0>>

(* Places, the entries that lead to them, and that two entries never lead  *)
(* to the same place.                                                      *)
LEMMA SlotFacts ==
  /\ TopSlot \in Slots /\ TopSlot[1] = 0
  /\ \A s \in Slots : s[1] \in 0..3 /\ s[2] \in Index /\ s[3] \in Index /\ s = <<s[1], s[2], s[3]>>
                      /\ (s[1] = 0 => s = TopSlot)
  /\ \A s \in Lower : s \in Slots /\ Up(s) \in Slots /\ Idx(s) \in Index
                      /\ Up(s)[1] = s[1] - 1 /\ s # TopSlot /\ s[1] \in 1..3
  /\ \A s \in Slots : s # TopSlot => s \in Lower
  /\ \A s, u \in Lower : Up(s) = Up(u) /\ Idx(s) = Idx(u) => s = u
<1>1. 0 \in Index
  BY TablesAssumption
<1>2. \A s \in Slots : s[1] \in 0..3 /\ s[2] \in Index /\ s[3] \in Index /\ s = <<s[1], s[2], s[3]>>
                       /\ (s[1] < 2 => s[2] = 0) /\ (s[1] < 3 => s[3] = 0)
  BY DEF Slots
<1>8. \A s \in Slots : (s[1] \in {0, 1} => s[2] = 0) /\ (s[1] \in {0, 1, 2} => s[3] = 0)
  BY <1>2
<1>3. \A s \in Slots : s[1] = 0 => s = TopSlot
  BY <1>2 DEF Slots, TopSlot
<1>4. TopSlot \in Slots /\ TopSlot[1] = 0
  BY <1>1 DEF Slots, TopSlot
<1>5. ASSUME NEW s \in Lower
      PROVE  s \in Slots /\ Up(s) \in Slots /\ Idx(s) \in Index
             /\ Up(s)[1] = s[1] - 1 /\ s # TopSlot /\ s[1] \in 1..3
  BY <1>1, <1>2, <1>5, <1>4 DEF Lower, Slots, Up, Idx
<1>6. \A s \in Slots : s # TopSlot => s \in Lower
  BY <1>2, <1>3 DEF Lower
<1>7. ASSUME NEW s \in Lower, NEW u \in Lower, Up(s) = Up(u), Idx(s) = Idx(u) PROVE s = u
  <2>1. s[1] = u[1]
    BY <1>7, <1>5
  <2>2. s \in Slots /\ u \in Slots /\ s[1] \in 1..3
    BY <1>5
  <2>3. CASE s[1] = 1
    <3>1. s[2] = 0 /\ s[3] = 0 /\ u[2] = 0 /\ u[3] = 0
      BY <2>1, <2>2, <2>3, <1>8
    <3> QED BY <3>1, <2>1, <2>2, <1>2
  <2>4. CASE s[1] = 2
    <3>1. s[3] = 0 /\ u[3] = 0
      BY <2>1, <2>2, <2>4, <1>8
    <3>2. s[2] = u[2]
      BY <1>7, <2>1, <2>4 DEF Idx
    <3> QED BY <3>1, <3>2, <2>1, <2>2, <1>2
  <2>5. CASE s[1] = 3
    <3>1. s[2] = u[2] /\ s[3] = u[3]
      BY <1>7, <2>1, <2>5 DEF Idx, Up
    <3> QED BY <3>1, <2>1, <2>2, <1>2
  <2> QED BY <2>2, <2>3, <2>4, <2>5
<1> QED BY <1>2, <1>3, <1>4, <1>5, <1>6, <1>7

(* The types of the state of the page tables.                              *)
TreeTypes ==
  /\ root \in [Procs -> Pages \cup {NoPage}]
  /\ node \in [Pages -> [Index -> Pages \cup {NoPage}]]
  /\ pte \in [Pages -> [Index -> Ptes]]
  /\ frames \subseteq Frames
  /\ walk \in [Procs -> Walks]
  /\ gone \in [Procs -> SUBSET (Pages \cup Frames)]
  /\ running \in Procs
  /\ cr3 \in Pages \cup {BasePml4}
  /\ tlb \subseteq [va : Vas, frame : Frames, dirty : BOOLEAN]

(* Pages, frames and the page tables of the kernel are different things.   *)
LEMMA NoPageFacts == NoPage \notin Pages /\ NoPage \notin Frames /\ Pages \cap Frames = {}
                     /\ BasePml4 \notin Pages /\ BasePml4 # NoPage /\ Pages \subseteq Nat
BY PoolAssumption, TablesAssumption DEF NoPage, Pages, Frames, BasePml4

(* A slot other than the root's is what its entry says, if that is live.   *)
LEMMA NodeStep ==
  ASSUME NEW p \in Procs
  PROVE  /\ NodeAt(p, TopSlot) = Top(p)
         /\ \A s \in Lower : NodeAt(p, s) = Live(p, Hang(p, s))
<1>1. NodeAt(p, TopSlot) = Top(p)
  BY DEF NodeAt, TopSlot
<1>2. ASSUME NEW s \in Lower PROVE NodeAt(p, s) = Live(p, Hang(p, s))
  <2>0. s[1] \in 1..3 /\ s \in Slots
    BY SlotFacts
  <2>1. CASE s[1] = 1
    <3>1. s[2] = 0 /\ Up(s) = TopSlot /\ Idx(s) = 0
      BY <2>0, <2>1 DEF Slots, Up, Idx, TopSlot
    <3> QED BY <3>1, <2>1, <1>1 DEF NodeAt, LivePdp, Hang
  <2>2. CASE s[1] = 2
    <3>1. Up(s)[1] = 1 /\ Idx(s) = s[2]
      BY <2>2 DEF Up, Idx
    <3>2. NodeAt(p, Up(s)) = LivePdp(p)
      BY <3>1 DEF NodeAt
    <3> QED BY <3>1, <3>2, <2>2 DEF NodeAt, LivePd, Hang
  <2>3. CASE s[1] = 3
    <3>1. Up(s)[1] = 2 /\ Up(s)[2] = s[2] /\ Idx(s) = s[3]
      BY <2>3 DEF Up, Idx
    <3>2. NodeAt(p, Up(s)) = LivePd(p, s[2])
      BY <3>1 DEF NodeAt
    <3> QED BY <3>1, <3>2, <2>3 DEF NodeAt, LivePt, Hang
  <2> QED BY <2>0, <2>1, <2>2, <2>3
<1> QED BY <1>1, <1>2

(* The same of the state after a step.                                     *)
LEMMA NodeStepNext ==
  (\A p \in Procs : NodeAt(p, TopSlot) = Top(p)
                     /\ \A s \in Lower : NodeAt(p, s) = Live(p, Hang(p, s)))'
<1>1. \A p \in Procs : NodeAt(p, TopSlot) = Top(p)
                        /\ \A s \in Lower : NodeAt(p, s) = Live(p, Hang(p, s))
  BY NodeStep
<1> QED BY <1>1, PTL

(* A node is a page that is not gone, and hangs from the node above it.    *)
LEMMA NodeType ==
  ASSUME TreeTypes, NEW p \in Procs
  PROVE  /\ \A s \in Slots : NodeAt(p, s) \in Pages \cup {NoPage} /\ NodeAt(p, s) \notin gone[p]
         /\ \A s \in Lower : Hang(p, s) \in Pages \cup {NoPage}
         /\ \A s \in Lower : NodeAt(p, s) # NoPage =>
              /\ NodeAt(p, Up(s)) \in Pages
              /\ NodeAt(p, s) = node[NodeAt(p, Up(s))][Idx(s)]
<1>0. NoPage \notin gone[p] /\ gone[p] \subseteq Pages \cup Frames
  BY NoPageFacts DEF TreeTypes
<1>1. Top(p) \in Pages \cup {NoPage} /\ Top(p) \notin gone[p]
  BY <1>0 DEF Top, Live, TreeTypes, Walks
<1>2. ASSUME NEW s \in Lower, NodeAt(p, Up(s)) \in Pages \cup {NoPage}
      PROVE /\ Hang(p, s) \in Pages \cup {NoPage}
            /\ NodeAt(p, s) \in Pages \cup {NoPage} /\ NodeAt(p, s) \notin gone[p]
            /\ NodeAt(p, s) # NoPage =>
                 NodeAt(p, Up(s)) \in Pages /\ NodeAt(p, s) = node[NodeAt(p, Up(s))][Idx(s)]
  <2>1. Idx(s) \in Index /\ NodeAt(p, s) = Live(p, Hang(p, s))
    BY NodeStep, SlotFacts
  <2>2. Hang(p, s) = IF NodeAt(p, Up(s)) = NoPage THEN NoPage ELSE node[NodeAt(p, Up(s))][Idx(s)]
    BY DEF Hang, Down
  <2>3. Hang(p, s) \in Pages \cup {NoPage}
    BY <1>2, <2>1, <2>2 DEF TreeTypes
  <2> QED BY <1>0, <1>2, <2>1, <2>2, <2>3 DEF Live
<1> DEFINE Good(s) == NodeAt(p, s) \in Pages \cup {NoPage} /\ NodeAt(p, s) \notin gone[p]
<1>3. \A s \in Slots : s[1] = 0 => Good(s)
  BY <1>1, NodeStep, SlotFacts
<1>4. \A s \in Slots : s[1] = 1 => Good(s)
  BY <1>2, <1>3, SlotFacts DEF Lower
<1>5. \A s \in Slots : s[1] = 2 => Good(s)
  BY <1>2, <1>4, SlotFacts DEF Lower
<1>6. \A s \in Slots : s[1] = 3 => Good(s)
  BY <1>2, <1>5, SlotFacts DEF Lower
<1>7. \A s \in Slots : Good(s)
  <2>1. \A s \in Slots : s[1] \in 0..3
    BY SlotFacts
  <2> QED BY <2>1, <1>3, <1>4, <1>5, <1>6
<1> QED BY <1>2, <1>7, SlotFacts

(* An entry, without what is gone.                                         *)
Cut(dead, q) == IF q \in dead THEN NoPage ELSE q

(* A step that changes a tree at slot e only, where nothing hangs below    *)
(* before or after, leaves the other slots alone.                          *)
LEMMA TreeEdit ==
  ASSUME NEW p \in Procs, NEW e,
         TopSlot # e => Top(p)' = Top(p),
         \A u \in Lower : \A q : u # e /\ Up(u) # e /\ q # NoPage /\ NodeAt(p, Up(u)) = q =>
           Cut(gone'[p], node'[q][Idx(u)]) = Cut(gone[p], node[q][Idx(u)]),
         \A u \in Lower : Up(u) = e => NodeAt(p, u) = NoPage,
         \A u \in Lower : Up(u) = e => NodeAt(p, u)' = NoPage,
         NoPage \notin gone[p], NoPage \notin gone'[p]
  PROVE  \A s \in Slots : s # e => NodeAt(p, s)' = NodeAt(p, s)
<1> DEFINE Same(s) == s # e => NodeAt(p, s)' = NodeAt(p, s)
<1>1. ASSUME NEW s \in Lower, Same(Up(s)) PROVE Same(s)
  <2> SUFFICES ASSUME s # e PROVE NodeAt(p, s)' = NodeAt(p, s)
    OBVIOUS
  <2>1. CASE Up(s) = e
    BY <2>1
  <2>2. CASE Up(s) # e
    <3>1. PICK q : q = NodeAt(p, Up(s))
      OBVIOUS
    <3>2. NodeAt(p, Up(s))' = q
      BY <1>1, <2>2, <3>1
    <3>3. NodeAt(p, s) = Live(p, Down(q, Idx(s)))
      BY NodeStep, <3>1 DEF Hang
    <3>4. NodeAt(p, s)' = Live(p, Down(q, Idx(s)))'
      BY NodeStepNext, <3>2 DEF Hang
    <3>5. CASE q = NoPage
      BY <3>3, <3>4, <3>5 DEF Down, Live
    <3>6. CASE q # NoPage
      <4>1. Cut(gone'[p], node'[q][Idx(s)]) = Cut(gone[p], node[q][Idx(s)])
        BY <2>2, <3>1, <3>6
      <4> QED BY <3>3, <3>4, <3>6, <4>1 DEF Down, Live, Cut
    <3> QED BY <3>5, <3>6
  <2> QED BY <2>1, <2>2
<1>2. \A s \in Slots : s[1] = 0 => Same(s)
  BY NodeStep, NodeStepNext, SlotFacts
<1>3. \A s \in Slots : s[1] = 1 => Same(s)
  BY <1>1, <1>2, SlotFacts DEF Lower
<1>4. \A s \in Slots : s[1] = 2 => Same(s)
  BY <1>1, <1>3, SlotFacts DEF Lower
<1>5. \A s \in Slots : s[1] = 3 => Same(s)
  BY <1>1, <1>4, SlotFacts DEF Lower
<1>6. \A s \in Slots : s[1] \in 0..3
  BY SlotFacts
<1> QED BY <1>2, <1>3, <1>4, <1>5, <1>6

-----------------------------------------------------------------------------
(* What a process has done so far in the call it is in, call by call.      *)
Phase(p) ==
  LET w == walk[p] IN
  /\ w.op = "none" => w = NoWalk /\ at[p] = "idle"
  /\ w.op = "create" => w = [NoWalk EXCEPT !.op = "create"] /\ root[p] = NoPage
                        /\ at[p] \in {"get", "flip", "got"}
  /\ w.op = "set" => /\ w.va \in Vas /\ w.frame \in Frames /\ w.root = NoPage /\ root[p] \in Pages
                     /\ at[p] \in {"walk", "get", "flip", "got", "unwind", "fill", "clear", "unlink"}
                     /\ root[p] \notin gone[p]
  /\ w.op = "destroy" => /\ w.root \in Pages /\ w.frame = NoPage /\ root[p] = NoPage
                         /\ at[p] \in {"activate", "destroy", "fill", "clear"}
  /\ at[p] \notin {"flip", "got", "fill", "clear"} => hand[p] = {}
  /\ at[p] \in {"flip", "got"} => hand[p] = {} \/ \E q \in Pages : hand[p] = {q}
  /\ gone[p] # {} => (w.op = "set" /\ at[p] = "unlink") \/ (w.op = "destroy" /\ at[p] # "activate")

(* Nothing hangs below the node at place s.                                *)
Leaf(p, s) ==
  /\ \A u \in Lower : Up(u) = s => NodeAt(p, u) = NoPage
  /\ s[1] = 3 => \A i \in Index : FrameAt(p, <<s[2], s[3], i>>) = NoPage

(* A page that is being freed is a leaf of the tree it is still linked in. *)
Victim(p) ==
  at[p] \in {"fill", "clear"} =>
    \E s \in Slots : /\ NodeAt(p, s) # NoPage /\ hand[p] = {NodeAt(p, s)} /\ Leaf(p, s)
                     /\ at[p] = "clear" => /\ node[NodeAt(p, s)] = EmptyNode
                                           /\ pte[NodeAt(p, s)] = EmptyTable

(* The places of the nodes on the path of the walk that p is in.           *)
S1 == <<1, 0, 0>>
S2(p) == <<2, walk[p].va[1], 0>>
S3(p) == <<3, walk[p].va[1], walk[p].va[2]>>

(* A node no entry of which is set, and one that has entry i alone.        *)
Fresh(q) == q # NoPage /\ node[q] = EmptyNode /\ pte[q] = EmptyTable
Only(q, i) == q # NoPage /\ node[q] = [EmptyNode EXCEPT ![i] = node[q][i]] /\ pte[q] = EmptyTable

(* The nodes that a walk has added, before it gives one back: a chain with *)
(* nothing beside it.                                                      *)
Growing(p) ==
  LET c1 == NodeAt(p, S1)
      c2 == NodeAt(p, S2(p))
      made == walk[p].made IN
       \/ made = <<>>
       \/ made = <<c1>> /\ Fresh(c1)
       \/ made = <<c2>> /\ Fresh(c2)
       \/ made = <<c1, c2>> /\ Fresh(c2) /\ Only(c1, walk[p].va[1])

(* After the first of them has been freed its parent still points to it.   *)
Unlinking(p) ==
  LET c1 == NodeAt(p, S1)
      made == walk[p].made IN
       /\ gone[p] = {Last(made)}
       /\ \E u \in {S1, S2(p)} :
            /\ \A v \in Lower : Hang(p, v) = Last(made) <=> v = u
            /\ \/ Len(made) = 1
               \/ u = S2(p) /\ made = <<c1, Last(made)>> /\ Only(c1, walk[p].va[1])

(* A walk that fills in an entry of the table of a process.                *)
Chain(p) ==
  LET w == walk[p] IN
  w.op = "set" =>
  /\ FrameAt(p, w.va) = NoPage
  /\ at[p] # "walk" => NodeAt(p, S3(p)) = NoPage
  /\ at[p] \in {"unwind", "fill", "clear", "unlink"} => w.made # <<>>
  /\ at[p] \in {"fill", "clear"} => hand[p] = {Last(w.made)}
  /\ NodeAt(p, S3(p)) = NoPage /\ at[p] # "unlink" => Growing(p)
  /\ at[p] = "unlink" => Unlinking(p)

(* A page is a node of one tree, in one place.                             *)
Injective ==
  \A p, r \in Procs : \A s, u \in Slots :
    NodeAt(p, s) # NoPage /\ NodeAt(p, s) = NodeAt(r, u) => p = r /\ s = u

(* A page in no tree has no entry.                                         *)
Outside ==
  \A q \in Pages : (\A p \in Procs : \A s \in Slots : NodeAt(p, s) # q) =>
       node[q] = EmptyNode /\ pte[q] = EmptyTable

(* The part of the inductive invariant that is about the trees.            *)
Trees == 
  /\ TreeTypes
  /\ Injective
  /\ Outside
  /\ \A q \in Pages : \A i \in Index : pte[q][i].present => pte[q][i].frame \in Frames
  /\ \A p \in Procs : Phase(p) /\ Victim(p) /\ Chain(p)

(* The index triples an address can have, the page table such an address   *)
(* is looked up in, and the frame it maps.                                 *)
IndexPath == Index \X Index \X Index
SlotOf(va) == <<3, va[1], va[2]>>

(* The places on the path of an address.                                   *)
LEMMA PathFacts ==
  /\ Vas \subseteq IndexPath
  /\ \A va \in IndexPath : /\ SlotOf(va) \in Slots /\ SlotOf(va) \in Lower /\ va[1] \in Index
                           /\ va[2] \in Index /\ va[3] \in Index
                           /\ va = <<va[1], va[2], va[3]>>
                           /\ SlotOf(va)[1] = 3 /\ SlotOf(va)[2] = va[1] /\ SlotOf(va)[3] = va[2]
                           /\ <<2, va[1], 0>> \in Slots /\ <<2, va[1], 0>> \in Lower
  /\ S1 \in Slots /\ S1 \in Lower
  /\ \A va, wa \in IndexPath : SlotOf(va) = SlotOf(wa) /\ va[3] = wa[3] => va = wa
<1>0. 0 \in Index
  BY TablesAssumption
<1>1. Vas \subseteq IndexPath
  BY TablesAssumption DEF IndexPath
<1>2. ASSUME NEW va \in IndexPath
      PROVE /\ SlotOf(va) \in Slots /\ SlotOf(va) \in Lower /\ va[1] \in Index
            /\ va[2] \in Index /\ va[3] \in Index
            /\ va = <<va[1], va[2], va[3]>>
            /\ SlotOf(va)[1] = 3 /\ SlotOf(va)[2] = va[1] /\ SlotOf(va)[3] = va[2]
            /\ <<2, va[1], 0>> \in Slots /\ <<2, va[1], 0>> \in Lower
  <2>1. va[1] \in Index /\ va[2] \in Index /\ va[3] \in Index /\ va = <<va[1], va[2], va[3]>>
    BY <1>2 DEF IndexPath
  <2>2. SlotOf(va)[1] = 3 /\ SlotOf(va)[2] = va[1] /\ SlotOf(va)[3] = va[2]
    BY DEF SlotOf
  <2>3. SlotOf(va) \in Slots /\ SlotOf(va) \in Lower
    BY <2>1 DEF SlotOf, Slots, Lower
  <2>4. <<2, va[1], 0>> \in Slots /\ <<2, va[1], 0>> \in Lower
    BY <2>1, <1>0 DEF Slots, Lower
  <2> QED BY <2>1, <2>2, <2>3, <2>4
<1>3. S1 \in Slots /\ S1 \in Lower
  BY <1>0 DEF S1, Slots, Lower
<1>4. ASSUME NEW va \in IndexPath, NEW wa \in IndexPath, SlotOf(va) = SlotOf(wa), va[3] = wa[3]
      PROVE va = wa
  <2>0. SlotOf(va)[2] = va[1] /\ SlotOf(va)[3] = va[2] /\ SlotOf(wa)[2] = wa[1] /\ SlotOf(wa)[3] = wa[2]
    BY <1>2
  <2>1. va[1] = wa[1] /\ va[2] = wa[2]
    BY <1>4, <2>0
  <2> QED BY <2>1, <1>4, <1>2
<1> QED BY <1>1, <1>2, <1>3, <1>4

(* What the entry of the page table says, if that is there and live.       *)
LEMMA FrameIs ==
  ASSUME NEW p \in Procs, NEW va \in IndexPath
  PROVE  FrameAt(p, va) = IF NodeAt(p, SlotOf(va)) = NoPage
                             \/ ~pte[NodeAt(p, SlotOf(va))][va[3]].present
                          THEN NoPage ELSE Live(p, pte[NodeAt(p, SlotOf(va))][va[3]].frame)
<1>1. NodeAt(p, SlotOf(va)) = LivePt(p, va[1], va[2])
  BY DEF NodeAt, SlotOf
<1> QED BY <1>1 DEF FrameAt

(* What an address maps, in the next state.                                *)
LEMMA FrameIsNext ==
  (\A p \in Procs : \A va \in IndexPath :
     FrameAt(p, va) = IF NodeAt(p, SlotOf(va)) = NoPage
                         \/ ~pte[NodeAt(p, SlotOf(va))][va[3]].present
                      THEN NoPage ELSE Live(p, pte[NodeAt(p, SlotOf(va))][va[3]].frame))'
<1>1. \A p \in Procs : \A va \in IndexPath :
     FrameAt(p, va) = IF NodeAt(p, SlotOf(va)) = NoPage
                         \/ ~pte[NodeAt(p, SlotOf(va))][va[3]].present
                      THEN NoPage ELSE Live(p, pte[NodeAt(p, SlotOf(va))][va[3]].frame)
  BY FrameIs
<1> QED BY <1>1, PTL

(* A frame stays in its place of a tree if page table and entry do.        *)
LEMMA FrameStays ==
  ASSUME NEW p \in Procs, NEW va \in IndexPath, NodeAt(p, SlotOf(va))' = NodeAt(p, SlotOf(va)),
         \A t : t # NoPage /\ NodeAt(p, SlotOf(va)) = t =>
            /\ pte'[t][va[3]].present = pte[t][va[3]].present
            /\ pte[t][va[3]].present => Live(p, pte[t][va[3]].frame)' = Live(p, pte[t][va[3]].frame)
  PROVE  FrameAt(p, va)' = FrameAt(p, va)
<1>1. PICK t : t = NodeAt(p, SlotOf(va))
  OBVIOUS
<1>2. NodeAt(p, SlotOf(va))' = t
  BY <1>1
<1>3. FrameAt(p, va) = IF t = NoPage \/ ~pte[t][va[3]].present THEN NoPage ELSE Live(p, pte[t][va[3]].frame)
  BY <1>1, FrameIs
<1>4. FrameAt(p, va)' = IF t = NoPage \/
        ~pte'[t][va[3]].present THEN NoPage ELSE Live(p, pte[t][va[3]].frame)'
  BY <1>2, FrameIsNext
<1> QED BY <1>1, <1>3, <1>4

(* A tree whose nodes, root and dead nodes do not change is the same.      *)
LEMMA NodesStay ==
  ASSUME NEW p \in Procs, TreeTypes, gone'[p] = gone[p], Top(p)' = Top(p),
         \A s \in Slots : \A q : q # NoPage /\ NodeAt(p, s) = q => node'[q] = node[q]
  PROVE  /\ \A s \in Slots : NodeAt(p, s)' = NodeAt(p, s)
         /\ \A u \in Lower : Hang(p, u)' = Hang(p, u)
<1>0. NoPage \notin gone[p] /\ NoPage \notin gone'[p]
  BY NoPageFacts DEF TreeTypes
<1>1. \A s \in Slots : NodeAt(p, s)' = NodeAt(p, s)
  <2>1. PICK e : e \notin Slots
    <3>1. <<4, 0, 0>> \notin Slots
      BY DEF Slots
    <3> QED BY <3>1
  <2>2. \A u \in Lower : Up(u) # e
    BY <2>1, SlotFacts
  <2>3. ASSUME NEW u \in Lower, NEW q, q # NoPage, NodeAt(p, Up(u)) = q
        PROVE Cut(gone'[p], node'[q][Idx(u)]) = Cut(gone[p], node[q][Idx(u)])
    <3>1. node'[q] = node[q]
      BY <2>3, SlotFacts
    <3> QED BY <3>1
  <2>4. \A s \in Slots : s # e => NodeAt(p, s)' = NodeAt(p, s)
    <3>1. \A u \in Lower : Up(u) = e => NodeAt(p, u) = NoPage
      BY <2>2
    <3>2. \A u \in Lower : Up(u) = e => NodeAt(p, u)' = NoPage
      BY <2>2
    <3>3. \A u \in Lower : \A q : u # e /\ Up(u) # e /\ q # NoPage /\ NodeAt(p, Up(u)) = q =>
             Cut(gone'[p], node'[q][Idx(u)]) = Cut(gone[p], node[q][Idx(u)])
      BY <2>3
    <3>4. TopSlot # e => Top(p)' = Top(p)
      OBVIOUS
    <3> HIDE <2>1
    <3> QED BY ONLY p \in Procs, <3>1, <3>2, <3>3, <3>4, <1>0, TreeEdit
  <2> QED BY <2>1, <2>4
<1>2. ASSUME NEW u \in Lower PROVE Hang(p, u)' = Hang(p, u)
  <2>1. PICK q : q = NodeAt(p, Up(u))
    OBVIOUS
  <2>2. NodeAt(p, Up(u))' = q /\ Up(u) \in Slots
    BY <2>1, <1>1, SlotFacts
  <2>3. q # NoPage => node'[q] = node[q]
    BY <2>1, <2>2
  <2> QED BY <2>1, <2>2, <2>3 DEF Hang, Down
<1> QED BY <1>1, <1>2

(* So are the frames in it, if its page tables do not change either.       *)
LEMMA TreeStays ==
  ASSUME NEW p \in Procs, TreeTypes, gone'[p] = gone[p], Top(p)' = Top(p),
         \A s \in Slots : \A q : q # NoPage /\ NodeAt(p, s) = q => node'[q] = node[q] /\ pte'[q] = pte[q]
  PROVE  /\ \A s \in Slots : NodeAt(p, s)' = NodeAt(p, s)
         /\ \A u \in Lower : Hang(p, u)' = Hang(p, u)
         /\ \A va \in IndexPath : FrameAt(p, va)' = FrameAt(p, va)
<1>1. /\ \A s \in Slots : NodeAt(p, s)' = NodeAt(p, s)
      /\ \A u \in Lower : Hang(p, u)' = Hang(p, u)
  BY NodesStay
<1>3. ASSUME NEW va \in IndexPath PROVE FrameAt(p, va)' = FrameAt(p, va)
  <2>1. SlotOf(va) \in Slots
    BY PathFacts
  <2>2. NodeAt(p, SlotOf(va))' = NodeAt(p, SlotOf(va))
    BY <2>1, <1>1
  <2>3. ASSUME NEW t, t # NoPage, NodeAt(p, SlotOf(va)) = t
        PROVE /\ pte'[t][va[3]].present = pte[t][va[3]].present
              /\ pte[t][va[3]].present => Live(p, pte[t][va[3]].frame)' = Live(p, pte[t][va[3]].frame)
    <3>1. pte'[t] = pte[t]
      BY <2>1, <2>3
    <3> QED BY <3>1 DEF Live
  <2> QED BY <2>2, <2>3, FrameStays
<1> QED BY <1>1, <1>3

(* What holds of a process holds after a step that changes neither where   *)
(* it is nor its tree.                                                     *)
LEMMA ApartStays ==
  ASSUME NEW p \in Procs, TreeTypes, Phase(p), Victim(p), Chain(p),
         at'[p] = at[p], hand'[p] = hand[p], walk'[p] = walk[p], gone'[p] = gone[p], root'[p] = root[p],
         \A s \in Slots : \A q : q # NoPage /\ NodeAt(p, s) = q => node'[q] = node[q] /\ pte'[q] = pte[q]
  PROVE  /\ \A s \in Slots : NodeAt(p, s)' = NodeAt(p, s)
         /\ \A u \in Lower : Hang(p, u)' = Hang(p, u)
         /\ \A va \in IndexPath : FrameAt(p, va)' = FrameAt(p, va)
         /\ Phase(p)' /\ Victim(p)' /\ Chain(p)'
<1>1. Top(p)' = Top(p)
  BY DEF Top, Live
<1>2. /\ \A s \in Slots : NodeAt(p, s)' = NodeAt(p, s)
      /\ \A u \in Lower : Hang(p, u)' = Hang(p, u)
      /\ \A va \in IndexPath : FrameAt(p, va)' = FrameAt(p, va)
  BY <1>1, TreeStays
<1>3. Phase(p)'
  BY DEF Phase
<1>4. Victim(p)'
  <2>0. CASE at[p] \notin {"fill", "clear"}
    BY <2>0 DEF Victim
  <2> SUFFICES ASSUME at[p] \in {"fill", "clear"} PROVE Victim(p)'
    BY <2>0
  <2>1. PICK s \in Slots : /\ NodeAt(p, s) # NoPage /\ hand[p] = {NodeAt(p, s)} /\ Leaf(p, s)
                           /\ at[p] = "clear" => /\ node[NodeAt(p, s)] = EmptyNode
                                                 /\ pte[NodeAt(p, s)] = EmptyTable
    BY DEF Victim
  <2>2. PICK q : q = NodeAt(p, s)
    OBVIOUS
  <2>3. NodeAt(p, s)' = q /\ node'[q] = node[q] /\ pte'[q] = pte[q]
    BY <2>1, <2>2, <1>2
  <2>4. Leaf(p, s)'
    <3>1. ASSUME NEW u \in Lower, Up(u) = s PROVE NodeAt(p, u)' = NoPage
      BY <3>1, <2>1, <1>2, SlotFacts DEF Leaf
    <3>2. ASSUME s[1] = 3, NEW i \in Index PROVE FrameAt(p, <<s[2], s[3], i>>)' = NoPage
      <4>1. <<s[2], s[3], i>> \in IndexPath
        BY SlotFacts DEF IndexPath
      <4> QED BY <4>1, <3>2, <2>1, <1>2 DEF Leaf
    <3> QED BY <3>1, <3>2 DEF Leaf
  <2> QED BY <2>1, <2>2, <2>3, <2>4 DEF Victim
<1>5. Chain(p)'
  <2> SUFFICES ASSUME walk[p].op = "set" PROVE Chain(p)'
    BY DEF Chain
  <2>1. walk[p].va \in IndexPath
    BY PathFacts DEF Phase
  <2>2. S1 \in Slots /\ S2(p) \in Slots /\ S3(p) \in Slots /\ S2(p) \in Lower
    BY <2>1, PathFacts DEF S2, S3, SlotOf
  <2>3. S2(p)' = S2(p) /\ S3(p)' = S3(p)
    BY DEF S2, S3
  <2>4. PICK c1, c2, s2, s3 : c1 = NodeAt(p, S1) /\ c2 = NodeAt(p, S2(p)) /\ s2 = S2(p) /\ s3 = S3(p)
    OBVIOUS
  <2>5. NodeAt(p, S1)' = c1 /\ NodeAt(p, s2)' = c2 /\ NodeAt(p, s3)' = NodeAt(p, s3)
        /\ S2(p)' = s2 /\ S3(p)' = s3 /\ NodeAt(p, S2(p))' = c2 /\ NodeAt(p, S3(p))' = NodeAt(p, S3(p))
    BY <2>2, <2>3, <2>4, <1>2
  <2>6. /\ Fresh(c1) => Fresh(c1)'
        /\ Fresh(c2) => Fresh(c2)'
        /\ \A i : Only(c1, i) => Only(c1, i)'
    BY <2>2, <2>4 DEF Fresh, Only
  <2>7. Growing(p) => Growing(p)'
    <3>1. (c1 # NoPage => node'[c1] = node[c1] /\ pte'[c1] = pte[c1])
          /\ (c2 # NoPage => node'[c2] = node[c2] /\ pte'[c2] = pte[c2])
      BY <2>2, <2>4
    <3> QED BY <2>4, <2>5, <3>1 DEF Growing, Fresh, Only
  <2>8. Unlinking(p) => Unlinking(p)'
    BY <2>4, <2>5, <2>6, <1>2 DEF Unlinking
  <2>9. FrameAt(p, walk[p].va)' = FrameAt(p, walk[p].va)
    BY <2>1, <1>2
  <2> QED BY <2>4, <2>5, <2>7, <2>8, <2>9 DEF Chain
<1> QED BY <1>2, <1>3, <1>4, <1>5

-----------------------------------------------------------------------------
(* The types of the state of the pool.                                     *)
PoolTypes ==
  /\ used \subseteq Pages
  /\ poolLock \in Actors \cup {Nobody}
  /\ hand \in [Actors -> SUBSET Pages]
  /\ at \in [Actors -> Places]

(* The pool's lock is held exactly in the step that sets bits, and the run *)
(* found there is still free.                                              *)
LockInv ==
  /\ Elsewhere \subseteq used
  /\ \A a \in Actors : /\ at[a] = "flip" <=> poolLock = a
                       /\ at[a] = "flip" => hand[a] \cap used = {}
                       /\ at[a] \in {"fill", "clear"} => hand[a] # {}

(* The pages of arenas, and those of the tree of p that it is not freeing. *)
HeapPages == UNION {ArenaPages(x) : x \in Pages}
TreePages(p) == {NodeAt(p, s) : s \in Slots} \ ({NoPage} \cup Freeing(p))

(* The bits that are set are those of the pages that an arena, a tree or a *)
(* call in progress has, and no two of them have a page in common.         *)
OwnInv ==
  /\ \A q \in Pages : q \in used \ Elsewhere <=>
       \/ q \in HeapPages
       \/ \E p \in Procs : q \in TreePages(p)
       \/ \E a \in Actors : q \in InHand(a)
  /\ \A q \in HeapPages : (\A p \in Procs : q \notin TreePages(p)) /\ \A a \in Actors : q \notin InHand(a)
  /\ \A p \in Procs : \A q \in TreePages(p) : \A a \in Actors : q \notin InHand(a)
  /\ \A a, b \in Actors : \A q \in InHand(a) : q \in InHand(b) => a = b

(* A user frame is mapped once, and the frames in use are those mapped or  *)
(* about to be.                                                            *)
FrameInv ==
  /\ \A p, r \in Procs : \A va, wa \in IndexPath :
       FrameAt(p, va) # NoPage /\ FrameAt(p, va) = FrameAt(r, wa) => p = r /\ va = wa
  /\ \A f \in Frames : f \in frames <=>
       \/ \E p \in Procs : \E va \in IndexPath : FrameAt(p, va) = f
       \/ \E p \in Procs : walk[p].frame = f
  /\ \A p, r \in Procs : \A va \in IndexPath : walk[r].frame # NoPage => FrameAt(p, va) # walk[r].frame
  /\ \A p, r \in Procs : walk[p].frame # NoPage /\ walk[p].frame = walk[r].frame => p = r

(* The inductive invariant of the pool and of the page tables.             *)
MemInv == PoolTypes /\ LockInv /\ OwnInv /\ Trees /\ FrameInv

(* A step of one process whose changes are in its own tree leaves the      *)
(* other processes as they are.                                            *)
LEMMA OthersStay ==
  ASSUME MemInv, NEW p \in Procs, NEW r \in Procs, r # p,
         at'[r] = at[r], hand'[r] = hand[r], walk'[r] = walk[r], gone'[r] = gone[r], root'[r] = root[r],
         \A q \in Pages : (\A s \in Slots : NodeAt(p, s) # q) => node'[q] = node[q] /\ pte'[q] = pte[q]
  PROVE  /\ \A s \in Slots : NodeAt(r, s)' = NodeAt(r, s)
         /\ \A va \in IndexPath : FrameAt(r, va)' = FrameAt(r, va)
         /\ Phase(r)' /\ Victim(r)' /\ Chain(r)'
         /\ TreePages(r)' = TreePages(r)
<1>1. ASSUME NEW s \in Slots, NEW q, q # NoPage, NodeAt(r, s) = q
      PROVE node'[q] = node[q] /\ pte'[q] = pte[q]
  <2>1. q \in Pages
    BY <1>1, NodeType DEF MemInv, Trees
  <2>2. \A u \in Slots : NodeAt(p, u) # q
    BY <1>1 DEF MemInv, Trees, Injective
  <2> QED BY <2>1, <2>2
<1>2. TreeTypes /\ Phase(r) /\ Victim(r) /\ Chain(r)
  BY DEF MemInv, Trees
<1>3. /\ \A s \in Slots : NodeAt(r, s)' = NodeAt(r, s)
      /\ \A va \in IndexPath : FrameAt(r, va)' = FrameAt(r, va)
      /\ Phase(r)' /\ Victim(r)' /\ Chain(r)'
  BY <1>1, <1>2, ApartStays
<1>4. Freeing(r)' = Freeing(r)
  BY DEF Freeing
<1>5. TreePages(r)' = TreePages(r)
  BY <1>3, <1>4 DEF TreePages
<1> QED BY <1>3, <1>5

(* Where no slot of any tree changes, what is said of all trees stays.     *)
LEMMA InjectiveStays ==
  ASSUME Injective, \A p \in Procs : \A s \in Slots : NodeAt(p, s)' = NodeAt(p, s)
  PROVE  Injective'
BY DEF Injective

(* Pages in no tree keep having no entry when neither trees nor other      *)
(* pages change.                                                           *)
LEMMA OutsideStays ==
  ASSUME Outside, \A p \in Procs : \A s \in Slots : NodeAt(p, s)' = NodeAt(p, s),
         \A q \in Pages : (\A p \in Procs : \A s \in Slots : NodeAt(p, s) # q) =>
           node'[q] = node[q] /\ pte'[q] = pte[q]
  PROVE  Outside'
BY DEF Outside

(* FrameInv is kept when no address maps anything else.                    *)
LEMMA FrameInvStays ==
  ASSUME FrameInv, \A p \in Procs : \A va \in IndexPath : FrameAt(p, va)' = FrameAt(p, va),
         \A p \in Procs : walk'[p].frame = walk[p].frame, frames' = frames
  PROVE  FrameInv'
<1>1. /\ \A p, r \in Procs : \A va, wa \in IndexPath :
       FrameAt(p, va)' # NoPage /\ FrameAt(p, va)' = FrameAt(r, wa)' => p = r /\ va = wa
  BY DEF FrameInv
<1>2. \A f \in Frames : f \in frames' <=>
       \/ \E p \in Procs : \E va \in IndexPath : FrameAt(p, va)' = f
       \/ \E p \in Procs : walk'[p].frame = f
  BY DEF FrameInv
<1>3. \A p, r \in Procs : \A va \in IndexPath : walk'[r].frame # NoPage => FrameAt(p, va)' # walk'[r].frame
  BY DEF FrameInv
<1>4. \A p, r \in Procs : walk'[p].frame # NoPage /\ walk'[p].frame = walk'[r].frame => p = r
  BY DEF FrameInv
<1> QED BY <1>1, <1>2, <1>3, <1>4 DEF FrameInv

(* The nodes of a tree are pages.                                          *)
LEMMA TreePagesType ==
  ASSUME TreeTypes, NEW p \in Procs
  PROVE  TreePages(p) \subseteq Pages
BY NodeType DEF TreePages

(* The pages of one process change: it takes free pages, gives one back,   *)
(* or moves them between its call and its tree.                            *)
LEMMA OwnAfterProcess ==
  ASSUME OwnInv, LockInv, PoolTypes, TreeTypes, Injective, NEW p \in Procs,
           Elsewhere' = Elsewhere, HeapPages' = HeapPages,
         \A r \in Procs : r # p => TreePages(r)' = TreePages(r),
         \A a \in Actors : a # p => InHand(a)' = InHand(a),
         TreePages(p)' \cap InHand(p)' = {},
         NEW took, NEW gave, took \subseteq Pages, took \cap used = {},
           gave \subseteq TreePages(p) \cup InHand(p),
         TreePages(p)' \cup InHand(p)' = ((TreePages(p) \cup InHand(p)) \cup took) \ gave,
         used' = (used \cup took) \ gave
  PROVE  OwnInv' /\ Elsewhere' \subseteq used'
<1> DEFINE mine == TreePages(p) \cup InHand(p)
           mine1 == TreePages(p)' \cup InHand(p)'
<1>0. p \in Actors
  BY TablesAssumption
<1>1. PICK T0, T1, I0, I1 : T0 = TreePages(p) /\ T1 = TreePages(p)' /\ I0 = InHand(p) /\ I1 = InHand(p)'
  OBVIOUS
<1>2. T0 \cap I0 = {} /\ T1 \cap I1 = {} /\ T1 \cup I1 = ((T0 \cup I0) \cup took) \ gave
  BY <1>0, <1>1 DEF OwnInv
<1>3. \A q \in took : q \notin HeapPages /\ (\A r \in Procs : q \notin TreePages(r)) /\
        (\A a \in Actors : q \notin InHand(a))
                      /\ q \notin Elsewhere
  BY DEF OwnInv, LockInv
<1>4. \A q \in T0 \cup I0 : q \notin HeapPages /\ (\A r \in Procs : r # p => q \notin TreePages(r))
                            /\ (\A a \in Actors : a # p => q \notin InHand(a))
  <2>1. TreePages(p) \cup InHand(p) = T0 \cup I0
    BY <1>1
  <2>2. \A q \in InHand(p) : q \notin HeapPages /\ (\A r \in Procs : r # p => q \notin TreePages(r))
                            /\ (\A a \in Actors : a # p => q \notin InHand(a))
    BY <1>0 DEF OwnInv
  <2>3. \A q \in TreePages(p) : q \notin HeapPages /\ (\A a \in Actors : a # p => q \notin InHand(a))
    BY <1>0 DEF OwnInv
  <2>4. \A q \in TreePages(p) : \A r \in Procs : r # p => q \notin TreePages(r)
    BY DEF TreePages, Injective
  <2> QED BY <1>1, <2>2, <2>3, <2>4
<1>5. \A q \in T1 \cup I1 : q \notin HeapPages /\ (\A r \in Procs : r # p => q \notin TreePages(r))
                            /\ (\A a \in Actors : a # p => q \notin InHand(a)) /\ q \notin gave
  BY <1>2, <1>3, <1>4
<1>6. Elsewhere' \subseteq used'
  <2>1. gave \cap Elsewhere = {}
    <3>1. \A q \in T0 \cup I0 : q \in Pages
      <4>1. gave \subseteq T0 \cup I0
        BY <1>1
      <4>2. I0 \subseteq Pages
        BY <1>0, <1>1 DEF InHand, PoolTypes
      <4> QED BY <4>2, <1>1, TreePagesType
    <3>2. \A q \in T0 \cup I0 : q \notin Elsewhere
      BY <3>1, <1>0, <1>1 DEF OwnInv
    <3> QED BY <3>2, <1>1
  <2> QED BY <2>1 DEF LockInv
<1>7. ASSUME NEW q \in Pages
      PROVE q \in used' \ Elsewhere' <=>
       \/ q \in HeapPages'
       \/ \E r \in Procs : q \in TreePages(r)'
       \/ \E a \in Actors : q \in InHand(a)'
  <2>1. (\E r \in Procs : q \in TreePages(r)') <=> q \in T1 \/ \E r \in Procs : r # p /\ q \in TreePages(r)
    BY <1>1
  <2>2. (\E a \in Actors : q \in InHand(a)') <=> q \in I1 \/ \E a \in Actors : a # p /\ q \in InHand(a)
    BY <1>0, <1>1
  <2>3. q \in used \ Elsewhere <=> \/ q \in HeapPages \/ q \in T0 \/ q \in I0
                                   \/ \E r \in Procs : r # p /\ q \in TreePages(r)
                                   \/ \E a \in Actors : a # p /\ q \in InHand(a)
    BY <1>0, <1>1 DEF OwnInv
  <2>4. q \in used' \ Elsewhere' <=> (q \in used \ Elsewhere \/ q \in took) /\ q \notin gave
    BY <1>3, <1>6
  <2>5. q \in T1 \cup I1 <=> (q \in T0 \cup I0 \/ q \in took) /\ q \notin gave
    BY <1>2
  <2>6. q \in gave => q \in T0 \cup I0
    BY <1>1
  <2> QED BY <2>1, <2>2, <2>3, <2>4, <2>5, <2>6, <1>4
<1>8. \A q \in HeapPages' : (\A r \in Procs : q \notin TreePages(r)') /\ \A a \in Actors :
        q \notin InHand(a)'
  <2>1. \A q \in HeapPages : q \notin T1 \cup I1
    BY <1>5
  <2>2. \A q \in HeapPages : (\A r \in Procs : r # p => q \notin TreePages(r)')
    BY DEF OwnInv
  <2>3. \A q \in HeapPages : (\A a \in Actors : a # p => q \notin InHand(a)')
    BY DEF OwnInv
  <2> QED BY <2>1, <2>2, <2>3, <1>1
<1>9. \A r \in Procs : \A q \in TreePages(r)' : \A a \in Actors : q \notin InHand(a)'
  <2>1. ASSUME NEW r \in Procs, r # p, NEW q \in TreePages(r), NEW a \in Actors PROVE q \notin InHand(a)'
    <3>1. CASE a = p
      BY <2>1, <3>1, <1>5, <1>1
    <3>2. CASE a # p
      BY <2>1, <3>2 DEF OwnInv
    <3> QED BY <3>1, <3>2
  <2>2. ASSUME NEW q \in TreePages(p)', NEW a \in Actors PROVE q \notin InHand(a)'
    <3>1. CASE a = p
      BY <2>2, <3>1, <1>2, <1>1
    <3>2. CASE a # p
      BY <2>2, <3>2, <1>5, <1>1
    <3> QED BY <3>1, <3>2
  <2> QED BY <2>1, <2>2
<1>10. ASSUME NEW a \in Actors, NEW b \in Actors, NEW q \in InHand(a)', q \in InHand(b)' PROVE a = b
  <2>1. CASE a = p
    BY <1>10, <2>1, <1>5, <1>1
  <2>2. CASE b = p
    BY <1>10, <2>2, <1>5, <1>1
  <2>3. CASE a # p /\ b # p
    BY <1>10, <2>3 DEF OwnInv
  <2> QED BY <2>1, <2>2, <2>3
<1> QED BY <1>6, <1>7, <1>8, <1>9, <1>10 DEF OwnInv

-----------------------------------------------------------------------------
(* An entry that is present has a frame.                                   *)
PteFrames == \A q \in Pages : \A i \in Index : pte[q][i].present => pte[q][i].frame \in Frames

(* A step of process p, and of nobody else.                                *)
OnlyBy(p) ==
  /\ load' = load /\ arena' = arena
  /\ \A a \in Actors : a # p => at'[a] = at[a] /\ hand'[a] = hand[a]
  /\ \A r \in Procs : r # p => walk'[r] = walk[r] /\ gone'[r] = gone[r] /\ root'[r] = root[r]
  /\ \A q \in Pages : (\A s \in Slots : NodeAt(p, s) # q) => node'[q] = node[q] /\ pte'[q] = pte[q]

(* The entry of va in the tree of p; and what a step leaves of the map: an *)
(* address leads to the same frame, through an entry that says the same.   *)
Cell(p, va) == pte[NodeAt(p, SlotOf(va))][va[3]]

SameMap(p) ==
  \A va \in IndexPath :
    FrameAt(p, va)' = FrameAt(p, va) /\ (FrameAt(p, va) # NoPage => Cell(p, va)' = Cell(p, va))

(* Those who use the pool: processes and callers of the heap.              *)
LEMMA ActorFacts ==
  /\ Procs \subseteq Actors /\ Callers \subseteq Actors /\ Callers \cap Procs = {} /\ Nobody \notin Actors
BY PoolAssumption, MallocAssumption, TablesAssumption, LoadsAssumption

(* Arenas have the same pages after a step that changes no arena.          *)
LEMMA HeapPagesStay ==
  ASSUME arena' = arena, \A t \in Callers : at'[t] = at[t] /\ hand'[t] = hand[t]
  PROVE  /\ \A x \in Pages : ArenaPages(x)' = ArenaPages(x)
         /\ HeapPages' = HeapPages
<1>1. \A t \in Callers : Freeing(t)' = Freeing(t)
  BY DEF Freeing
<1>2. ASSUME NEW x \in Pages PROVE ArenaPages(x)' = ArenaPages(x)
  <2>1. ArenaSpan(x)' = ArenaSpan(x)
    BY DEF ArenaSpan, Span
  <2>2. \A q : (\E t \in Callers : q \in Freeing(t)') <=> \E t \in Callers : q \in Freeing(t)
    BY <1>1
  <2> QED BY <2>1, <2>2 DEF ArenaPages
<1> QED BY <1>2 DEF HeapPages

(* A step that OnlyBy(p) describes leaves the other trees, calls and the   *)
(* heap as they are.                                                       *)
LEMMA OthersAfter ==
  ASSUME MemInv, NEW p \in Procs, OnlyBy(p)
  PROVE  /\ \A r \in Procs : r # p =>
              /\ \A s \in Slots : NodeAt(r, s)' = NodeAt(r, s)
              /\ \A va \in IndexPath : FrameAt(r, va)' = FrameAt(r, va)
              /\ Phase(r)' /\ Victim(r)' /\ Chain(r)'
              /\ TreePages(r)' = TreePages(r)
         /\ \A a \in Actors : a # p => InHand(a)' = InHand(a)
         /\ HeapPages' = HeapPages /\ Elsewhere' = Elsewhere
<1>1. ASSUME NEW r \in Procs, r # p
      PROVE  /\ \A s \in Slots : NodeAt(r, s)' = NodeAt(r, s)
             /\ \A va \in IndexPath : FrameAt(r, va)' = FrameAt(r, va)
             /\ Phase(r)' /\ Victim(r)' /\ Chain(r)'
             /\ TreePages(r)' = TreePages(r)
  <2>1. at'[r] = at[r] /\ hand'[r] = hand[r] /\ walk'[r] = walk[r] /\ gone'[r] = gone[r] /\
          root'[r] = root[r]
    BY <1>1, ActorFacts DEF OnlyBy
  <2>2. \A q \in Pages : (\A s \in Slots : NodeAt(p, s) # q) => node'[q] = node[q] /\ pte'[q] = pte[q]
    BY DEF OnlyBy
  <2> QED BY <1>1, <2>1, <2>2, OthersStay
<1>2. \A a \in Actors : a # p => InHand(a)' = InHand(a)
  BY DEF OnlyBy, InHand
<1>3. HeapPages' = HeapPages
  BY HeapPagesStay, ActorFacts DEF OnlyBy
<1>4. Elsewhere' = Elsewhere
  BY DEF OnlyBy, Elsewhere
<1> QED BY <1>1, <1>2, <1>3, <1>4

(* LockInv is kept by a step of p that sets no bit.                        *)
LEMMA LockStays ==
  ASSUME LockInv, NEW p \in Actors, \A a \in Actors : a # p => at'[a] = at[a] /\ hand'[a] = hand[a],
         poolLock' = poolLock, used' \subseteq used, Elsewhere' \subseteq used',
         at[p] # "flip", at'[p] # "flip", at'[p] \in {"fill", "clear"} => hand'[p] # {}
  PROVE  LockInv'
<1>1. ASSUME NEW a \in Actors
      PROVE  /\ at'[a] = "flip" <=> poolLock' = a
             /\ at'[a] = "flip" => hand'[a] \cap used' = {}
             /\ at'[a] \in {"fill", "clear"} => hand'[a] # {}
  BY DEF LockInv
<1> QED BY <1>1 DEF LockInv

(* What has to be shown of a step of p.                                    *)
LEMMA ProcessStep ==
  ASSUME MemInv, NEW p \in Procs, OnlyBy(p), PoolTypes', TreeTypes', Injective', Outside', PteFrames',
         Phase(p)', Victim(p)', Chain(p)', FrameInv', Elsewhere' \subseteq used' => LockInv',
         TreePages(p)' \cap InHand(p)' = {},
         NEW took, NEW gave, took \subseteq Pages, took \cap used = {},
           gave \subseteq TreePages(p) \cup InHand(p),
         TreePages(p)' \cup InHand(p)' = ((TreePages(p) \cup InHand(p)) \cup took) \ gave,
         used' = (used \cup took) \ gave
  PROVE  MemInv'
<1>1. /\ \A r \in Procs : r # p => Phase(r)' /\ Victim(r)' /\ Chain(r)' /\ TreePages(r)' = TreePages(r)
      /\ \A a \in Actors : a # p => InHand(a)' = InHand(a)
      /\ HeapPages' = HeapPages /\ Elsewhere' = Elsewhere
  BY OthersAfter
<1>2. OwnInv' /\ Elsewhere' \subseteq used'
  <2>1. OwnInv /\ LockInv /\ PoolTypes /\ TreeTypes /\ Injective
    BY DEF MemInv, Trees
  <2> QED BY <1>1, <2>1, OwnAfterProcess
<1>3. \A r \in Procs : Phase(r)' /\ Victim(r)' /\ Chain(r)'
  BY <1>1
<1>4. Trees'
  BY <1>3 DEF Trees, PteFrames
<1> QED BY <1>2, <1>4 DEF MemInv

(* ... and of one that takes and gives no pages and leaves the slots of    *)
(* its tree alone.                                                         *)
LEMMA QuietStep ==
  ASSUME MemInv, NEW p \in Procs, OnlyBy(p), PoolTypes', TreeTypes', PteFrames',
         \A s \in Slots : NodeAt(p, s)' = NodeAt(p, s),
         Phase(p)', Victim(p)', Chain(p)', FrameInv', used' = used, poolLock' = poolLock,
         at[p] # "flip", at'[p] # "flip", at'[p] \in {"fill", "clear"} => hand'[p] # {},
         TreePages(p)' \cap InHand(p)' = {},
         TreePages(p)' \cup InHand(p)' = TreePages(p) \cup InHand(p)
  PROVE  MemInv'
<1>1. \A r \in Procs : \A s \in Slots : NodeAt(r, s)' = NodeAt(r, s)
  BY OthersAfter
<1>2. Injective' /\ Outside'
  <2>1. \A q \in Pages : (\A r \in Procs : \A s \in Slots : NodeAt(r, s) # q) =>
           node'[q] = node[q] /\ pte'[q] = pte[q]
    BY DEF OnlyBy
  <2>2. Injective /\ Outside
    BY DEF MemInv, Trees
  <2> QED BY <1>1, <2>1, <2>2, InjectiveStays, OutsideStays
<1>3. Elsewhere' \subseteq used' => LockInv'
  <2>1. p \in Actors /\ LockInv
    BY ActorFacts DEF MemInv
  <2>2. \A a \in Actors : a # p => at'[a] = at[a] /\ hand'[a] = hand[a]
    BY DEF OnlyBy
  <2> QED BY <2>1, <2>2, LockStays
<1> DEFINE none == {}
<1>4. /\ none \subseteq Pages /\ none \cap used = {} /\ none \subseteq TreePages(p) \cup InHand(p)
      /\ TreePages(p)' \cup InHand(p)' = ((TreePages(p) \cup InHand(p)) \cup none) \ none
      /\ used' = (used \cup none) \ none
  OBVIOUS
<1> QED BY <1>2, <1>3, <1>4, ProcessStep

(* A step that changes only where p is, and frames at most.                *)
LEMMA TreeQuiet ==
  ASSUME MemInv, NEW p \in Procs, node' = node, pte' = pte, gone'[p] = gone[p], Top(p)' = Top(p)
  PROVE  /\ \A s \in Slots : NodeAt(p, s)' = NodeAt(p, s)
         /\ \A u \in Lower : Hang(p, u)' = Hang(p, u)
         /\ \A va \in IndexPath : FrameAt(p, va)' = FrameAt(p, va)
BY TreeStays DEF MemInv, Trees

(* ... and with them the map.                                              *)
LEMMA TreeQuietMap ==
  ASSUME MemInv, NEW p \in Procs, node' = node, pte' = pte, gone'[p] = gone[p], Top(p)' = Top(p)
  PROVE  SameMap(p)
<1>1. \A va \in IndexPath : SlotOf(va) \in Slots
  BY PathFacts
<1> QED BY <1>1, TreeQuiet DEF SameMap, Cell

(* A step that leaves the other trees alone leaves the others' maps.       *)
LEMMA OthersMap ==
  ASSUME MemInv, NEW p \in Procs, OnlyBy(p), NEW r \in Procs, r # p
  PROVE  SameMap(r)
<1>1. /\ \A s \in Slots : NodeAt(r, s)' = NodeAt(r, s)
      /\ \A va \in IndexPath : FrameAt(r, va)' = FrameAt(r, va)
  BY OthersAfter
<1>2. ASSUME NEW va \in IndexPath, FrameAt(r, va) # NoPage PROVE Cell(r, va)' = Cell(r, va)
  <2>1. SlotOf(va) \in Slots
    BY PathFacts
  <2>2. PICK t : t = NodeAt(r, SlotOf(va))
    OBVIOUS
  <2>3. t # NoPage
    BY <1>2, <2>2, FrameIs
  <2>4. t \in Pages
    BY <2>1, <2>2, <2>3, NodeType DEF MemInv, Trees
  <2>5. \A s \in Slots : NodeAt(p, s) # t
    BY <2>1, <2>2, <2>3 DEF MemInv, Trees, Injective
  <2>6. pte'[t] = pte[t]
    BY <2>4, <2>5 DEF OnlyBy
  <2> QED BY <2>1, <2>2, <2>6, <1>1 DEF Cell
<1> QED BY <1>1, <1>2 DEF SameMap

-----------------------------------------------------------------------------
(* The pages p owns, when its tree stays and it has none in hand.          *)
LEMMA HandsEmpty ==
  ASSUME NEW p \in Procs, \A s \in Slots : NodeAt(p, s)' = NodeAt(p, s), InHand(p) = {}, InHand(p)' = {}
  PROVE  /\ TreePages(p)' \cap InHand(p)' = {}
         /\ TreePages(p)' \cup InHand(p)' = TreePages(p) \cup InHand(p)
         /\ TreePages(p)' = TreePages(p)
<1>1. Freeing(p) = {} /\ Freeing(p)' = {}
  BY DEF Freeing, InHand
<1>2. TreePages(p)' = TreePages(p)
  BY <1>1 DEF TreePages
<1> QED BY <1>2

(* The lists of nodes that a walk may have added.                          *)
LEMMA MadeSeqs ==
  \A s : s \in BoundedSeq(Pages, 3) <=> s \in Seq(Pages) /\ Len(s) <= 3
<1>1. ASSUME NEW s \in BoundedSeq(Pages, 3) PROVE s \in Seq(Pages) /\ Len(s) <= 3
  <2>1. PICK m \in 0..3 : s \in [1..m -> Pages]
    BY DEF BoundedSeq, SeqOf
  <2> QED BY <2>1
<1>2. ASSUME NEW s \in Seq(Pages), Len(s) <= 3 PROVE s \in BoundedSeq(Pages, 3)
  <2>1. s \in [1..Len(s) -> Pages] /\ Len(s) \in Nat
    BY <1>2, LenProperties
  <2>2. PICK m : m = Len(s)
    OBVIOUS
  <2>3. m \in 0..3 /\ s \in [1..m -> Pages]
    BY <1>2, <2>1, <2>2
  <2> QED BY <2>3 DEF BoundedSeq, SeqOf
<1> QED BY <1>1, <1>2

(* The walks that calls begin with.                                        *)
LEMMA WalkTypes ==
  /\ NoWalk \in Walks
  /\ [NoWalk EXCEPT !.op = "create"] \in Walks
  /\ \A va \in Vas : \A f \in Frames : [NoWalk EXCEPT !.op = "set", !.va = va, !.frame = f] \in Walks
  /\ \A q \in Pages : [NoWalk EXCEPT !.op = "destroy", !.root = q] \in Walks
<1>1. <<>> \in BoundedSeq(Pages, 3)
  <2>1. <<>> \in Seq(Pages) /\ Len(<<>>) <= 3
    OBVIOUS
  <2> QED BY ONLY <2>1, MadeSeqs
<1> QED BY <1>1 DEF NoWalk, Walks

(* process_activate keeps MemInv.                                          *)
LEMMA SwitchKeeps ==
  ASSUME MemInv, NEW p \in Procs, UNCHANGED <<heapVars, load>>, Switch(p)
  PROVE  MemInv'
<1>1. /\ used' = used /\ poolLock' = poolLock /\ hand' = hand /\ at' = at
      /\ root' = root /\ node' = node /\ pte' = pte /\ frames' = frames /\ walk' = walk /\ gone' = gone
      /\ running' = p /\ cr3' = (IF root[p] = NoPage THEN BasePml4 ELSE root[p]) /\ tlb' = {}
      /\ arena' = arena /\ load' = load
  BY DEF Switch, poolVars, heapVars
<1>2. TreeTypes'
  BY <1>1 DEF MemInv, Trees, TreeTypes
<1>3. PoolTypes' /\ PteFrames'
  BY <1>1 DEF MemInv, Trees, PoolTypes, PteFrames
<1>4. \A r \in Procs : /\ \A s \in Slots : NodeAt(r, s)' = NodeAt(r, s)
                       /\ \A va \in IndexPath : FrameAt(r, va)' = FrameAt(r, va)
                       /\ Phase(r)' /\ Victim(r)' /\ Chain(r)'
  BY <1>1, ApartStays DEF MemInv, Trees
<1>5. \A r \in Procs : TreePages(r)' = TreePages(r)
  BY <1>1, <1>4 DEF TreePages, Freeing
<1>6. \A a \in Actors : InHand(a)' = InHand(a)
  BY <1>1 DEF InHand
<1>7. HeapPages' = HeapPages /\ Elsewhere' = Elsewhere
  BY <1>1, HeapPagesStay DEF Elsewhere
<1>8. OwnInv' /\ LockInv'
  BY <1>1, <1>5, <1>6, <1>7 DEF MemInv, OwnInv, LockInv
<1>9. Injective' /\ Outside' /\ FrameInv'
  BY <1>1, <1>4, InjectiveStays, OutsideStays, FrameInvStays DEF MemInv, Trees
<1> QED BY <1>2, <1>3, <1>4, <1>8, <1>9 DEF MemInv, Trees, PteFrames

(* What a process at a place outside the page allocator has at hand.       *)
LEMMA AtFacts ==
  ASSUME MemInv, NEW p \in Procs
  PROVE  /\ at[p] \notin {"flip", "got", "fill", "clear"} => InHand(p) = {} /\ hand[p] = {}
         /\ at[p] = "idle" => walk[p] = NoWalk /\ gone[p] = {}
         /\ at[p] \in {"walk", "unwind", "unlink"} => walk[p].op = "set"
         /\ at[p] \in {"activate", "destroy"} => walk[p].op = "destroy"
         /\ at[p] \notin {"unlink", "destroy", "fill", "clear"} => gone[p] = {}
         /\ walk[p].op # "destroy" => walk[p].root = NoPage
         /\ walk[p].op = "set" => Top(p) = root[p] /\ root[p] \in Pages
         /\ walk[p].op \in {"none", "create"} => Top(p) = root[p] /\ gone[p] = {}
         /\ walk[p].op \in {"none", "create", "set", "destroy"}
         /\ (walk[p].op = "set" <=> walk[p].frame # NoPage)
<1>1. Phase(p) /\ walk[p] \in Walks
  BY DEF MemInv, Trees, TreeTypes
<1>2. walk[p].op \in {"none", "create", "set", "destroy"}
  BY <1>1 DEF Walks
<1>3. NoWalk.op = "none" /\ NoWalk.root = NoPage /\ NoWalk.frame = NoPage
  BY DEF NoWalk
<1>4. walk[p].op = "create" => walk[p].root = NoPage /\ walk[p].frame = NoPage
  BY <1>1, <1>3 DEF Phase, NoWalk
<1>5. walk[p].op = "none" => walk[p].root = NoPage /\ walk[p].frame = NoPage
  BY <1>1, <1>3 DEF Phase
<1>6. walk[p].op \in {"none", "create"} => gone[p] = {}
  BY <1>1 DEF Phase
<1>7. walk[p].op = "set" => walk[p].root = NoPage /\ walk[p].frame # NoPage /\
        root[p] \in Pages /\ root[p] \notin gone[p]
  BY <1>1, NoPageFacts DEF Phase
<1>8. walk[p].op = "destroy" => walk[p].frame = NoPage
  BY <1>1 DEF Phase
<1>9. walk[p].op \in {"none", "create"} => Top(p) = root[p]
  BY <1>4, <1>5, <1>6 DEF Top, Live
<1>10. walk[p].op = "set" => Top(p) = root[p]
  BY <1>7, NoPageFacts DEF Top, Live
<1>11. /\ at[p] \notin {"flip", "got", "fill", "clear"} => InHand(p) = {} /\ hand[p] = {}
       /\ at[p] = "idle" => walk[p] = NoWalk /\ gone[p] = {}
       /\ at[p] \in {"walk", "unwind", "unlink"} => walk[p].op = "set"
       /\ at[p] \in {"activate", "destroy"} => walk[p].op = "destroy"
       /\ at[p] \notin {"unlink", "destroy", "fill", "clear"} => gone[p] = {}
  BY <1>1, <1>2, <1>3 DEF Phase, InHand
<1> QED BY <1>2, <1>4, <1>5, <1>6, <1>7, <1>8, <1>9, <1>10, <1>11

-----------------------------------------------------------------------------
(* A process that has freed nothing walks its tree.                        *)
LEMMA WalkIs ==
  ASSUME NEW p \in Procs, gone[p] = {}, Top(p) = root[p], NEW va \in IndexPath
  PROVE  /\ Pdp(root[p]) = NodeAt(p, S1)
         /\ Pd(root[p], va) = NodeAt(p, <<2, va[1], 0>>)
         /\ Pt(root[p], va) = NodeAt(p, SlotOf(va))
         /\ FrameAt(p, va) = IF Mapped(root[p], va) THEN Entry(root[p], va).frame ELSE NoPage
<1>1. \A q : Live(p, q) = q
  BY DEF Live
<1>2. Pdp(root[p]) = NodeAt(p, S1)
  BY <1>1 DEF Pdp, NodeAt, S1, LivePdp
<1>3. Pd(root[p], va) = LivePd(p, va[1])
  BY <1>1 DEF Pd, Pdp, LivePd, LivePdp
<1>4. Pd(root[p], va) = NodeAt(p, <<2, va[1], 0>>)
  BY <1>3 DEF NodeAt
<1>5. Pt(root[p], va) = NodeAt(p, SlotOf(va))
  BY <1>1, <1>3 DEF Pt, NodeAt, SlotOf, LivePt
<1>6. FrameAt(p, va) = IF Mapped(root[p], va) THEN Entry(root[p], va).frame ELSE NoPage
  BY <1>1, <1>5, FrameIs DEF Mapped, Entry, NoPte
<1> QED BY <1>2, <1>4, <1>5, <1>6

(* The call of pml4_create keeps MemInv.                                   *)
LEMMA CreateKeeps ==
  ASSUME MemInv, NEW p \in Procs, UNCHANGED <<heapVars, load>>, Create(p)
  PROVE  MemInv'
<1> DEFINE w == [NoWalk EXCEPT !.op = "create"]
<1>1. /\ used' = used /\ poolLock' = poolLock /\ hand' = hand /\ at' = [at EXCEPT ![p] = "get"]
      /\ root' = root /\ node' = node /\ pte' = pte /\ frames' = frames /\ walk' = [walk EXCEPT ![p] = w]
      /\ gone' = gone /\ running' = running /\ cr3' = cr3 /\ tlb' = tlb
      /\ arena' = arena /\ load' = load /\ at[p] = "idle" /\ root[p] = NoPage
  BY DEF Create, Start, Goto, heapVars
<1>2. p \in Actors /\ PoolTypes /\ TreeTypes /\ Phase(p) /\ PteFrames /\ FrameInv
  BY ActorFacts DEF MemInv, Trees, PteFrames
<1>3. PoolTypes' /\ at'[p] = "get" /\ hand'[p] = {} /\ InHand(p) = {} /\ InHand(p)' = {}
  BY <1>1, <1>2, AtFacts DEF PoolTypes, Places, PoolPlaces, InHand
<1>4. w \in Walks /\ w.op = "create" /\ w.frame = NoPage /\ w.root = NoPage
  BY WalkTypes DEF NoWalk
<1>5. TreeTypes' /\ PteFrames' /\ walk'[p] = w
  BY <1>1, <1>2, <1>4 DEF TreeTypes, PteFrames
<1>6. walk[p] = NoWalk /\ gone[p] = {} /\ Top(p)' = Top(p)
  BY <1>1, <1>4, <1>5, <1>2, AtFacts DEF Top, Live, NoWalk
<1>7. /\ \A s \in Slots : NodeAt(p, s)' = NodeAt(p, s)
      /\ \A va \in IndexPath : FrameAt(p, va)' = FrameAt(p, va)
  BY <1>1, <1>6, TreeQuiet
<1>8. OnlyBy(p)
  BY <1>1, <1>2 DEF OnlyBy, PoolTypes, TreeTypes
<1>9. Phase(p)' /\ Victim(p)' /\ Chain(p)'
  BY <1>1, <1>2, <1>3, <1>4, <1>5, <1>6 DEF Phase, Victim, Chain
<1>10. FrameInv'
  <2>1. \A r \in Procs : walk'[r].frame = walk[r].frame
    BY <1>1, <1>2, <1>4, <1>5, <1>6 DEF NoWalk, TreeTypes
  <2>2. \A r \in Procs : \A va \in IndexPath : FrameAt(r, va)' = FrameAt(r, va)
    BY <1>7, <1>8, OthersAfter
  <2> QED BY <1>1, <1>2, <2>1, <2>2, FrameInvStays
<1>11. /\ TreePages(p)' \cap InHand(p)' = {}
       /\ TreePages(p)' \cup InHand(p)' = TreePages(p) \cup InHand(p)
  BY <1>3, <1>7, HandsEmpty
<1> QED BY <1>1, <1>3, <1>5, <1>7, <1>8, <1>9, <1>10, <1>11, QuietStep

(* The call of pml4_set_page keeps MemInv.                                 *)
LEMMA SetPageKeeps ==
  ASSUME MemInv, NEW p \in Procs, UNCHANGED <<heapVars, load>>, NEW va \in Vas, NEW f \in Frames \ frames,
         SetPage(p, va, f)
  PROVE  MemInv'
<1> DEFINE w == [NoWalk EXCEPT !.op = "set", !.va = va, !.frame = f]
<1>1. /\ used' = used /\ poolLock' = poolLock /\ hand' = hand /\ at' = [at EXCEPT ![p] = "walk"]
      /\ root' = root /\ node' = node /\ pte' = pte /\ frames' = frames \cup {f}
      /\ walk' = [walk EXCEPT ![p] = w]
      /\ gone' = gone /\ running' = running /\ cr3' = cr3 /\ tlb' = tlb
      /\ arena' = arena /\ load' = load /\ at[p] = "idle" /\ root[p] # NoPage /\ ~Mapped(root[p], va)
  BY DEF SetPage, Start, Goto, heapVars
<1>2. p \in Actors /\ PoolTypes /\ TreeTypes /\ Phase(p) /\ PteFrames /\ FrameInv
  BY ActorFacts DEF MemInv, Trees, PteFrames
<1>3. PoolTypes' /\ at'[p] = "walk" /\ hand'[p] = {} /\ InHand(p) = {} /\ InHand(p)' = {}
  BY <1>1, <1>2, AtFacts DEF PoolTypes, Places, PoolPlaces, InHand
<1>4. w \in Walks /\ w.op = "set" /\ w.frame = f /\ w.root = NoPage /\ w.va = va /\ w.made = <<>>
  BY WalkTypes DEF NoWalk
<1>5. TreeTypes' /\ PteFrames' /\ walk'[p] = w
  BY <1>1, <1>2, <1>4 DEF TreeTypes, PteFrames
<1>6. walk[p] = NoWalk /\ gone[p] = {} /\ Top(p)' = Top(p) /\ Top(p) = root[p]
  BY <1>1, <1>4, <1>5, <1>2, AtFacts DEF Top, Live, NoWalk
<1>7. /\ \A s \in Slots : NodeAt(p, s)' = NodeAt(p, s)
      /\ \A x \in IndexPath : FrameAt(p, x)' = FrameAt(p, x)
  BY <1>1, <1>6, TreeQuiet
<1>8. OnlyBy(p)
  BY <1>1, <1>2 DEF OnlyBy, PoolTypes, TreeTypes
<1>9. Phase(p)' /\ Victim(p)'
  BY <1>1, <1>2, <1>3, <1>4, <1>5, <1>6 DEF Phase, Victim, TreeTypes
<1>10. Chain(p)'
  <2>1. va \in IndexPath
    BY PathFacts
  <2>2. FrameAt(p, va) = NoPage
    BY <2>1, <1>1, <1>6, WalkIs
  <2>3. FrameAt(p, va)' = NoPage /\ walk'[p].va = va
    BY <2>1, <2>2, <1>4, <1>5, <1>7
  <2>4. FrameAt(p, walk[p].va)' = NoPage
    BY <2>3
  <2>5. Growing(p)'
    BY <1>4, <1>5 DEF Growing
  <2> QED BY <2>4, <2>5, <1>3 DEF Chain
<1>11. FrameInv'
  <2>0. f \in Frames /\ f \notin frames /\ f # NoPage
    BY NoPageFacts
  <2>1. \A r \in Procs : r # p => walk'[r].frame = walk[r].frame
    BY <1>1, <1>2 DEF TreeTypes
  <2>2. walk'[p].frame = f /\ walk[p].frame = NoPage
    BY <1>4, <1>5, <1>6 DEF NoWalk
  <2>3. \A r \in Procs : \A x \in IndexPath : FrameAt(r, x)' = FrameAt(r, x) /\ FrameAt(r, x) # f
    BY <1>7, <1>8, <2>0, <1>2, OthersAfter DEF FrameInv
  <2>4. \A r \in Procs : walk[r].frame # f
    BY <2>0, <1>2 DEF FrameInv
  <2>5. /\ \A q, r \in Procs : \A x, y \in IndexPath :
            FrameAt(q, x)' # NoPage /\ FrameAt(q, x)' = FrameAt(r, y)' => q = r /\ x = y
    BY <1>2, <2>3 DEF FrameInv
  <2>6. ASSUME NEW g \in Frames
        PROVE g \in frames' <=>
               \/ \E r \in Procs : \E x \in IndexPath : FrameAt(r, x)' = g
               \/ \E r \in Procs : walk'[r].frame = g
    <3>1. CASE g = f
      BY <3>1, <1>1, <2>2
    <3>2. CASE g # f
      <4>1. g \in frames' <=> g \in frames
        BY <1>1, <3>2
      <4>2. (\E r \in Procs : walk'[r].frame = g) <=> \E r \in Procs : walk[r].frame = g
        BY <2>1, <2>2, <3>2, NoPageFacts
      <4>3. (\E r \in Procs : \E x \in IndexPath : FrameAt(r, x)' = g) <=>
            \E r \in Procs : \E x \in IndexPath : FrameAt(r, x) = g
        BY <2>3
      <4> QED BY <4>1, <4>2, <4>3, <1>2 DEF FrameInv
    <3> QED BY <3>1, <3>2
  <2>7. \A q, r \in Procs : \A x \in IndexPath : walk'[r].frame # NoPage => FrameAt(q, x)' # walk'[r].frame
    BY <2>1, <2>2, <2>3, <1>2 DEF FrameInv
  <2>8. \A q, r \in Procs : walk'[q].frame # NoPage /\ walk'[q].frame = walk'[r].frame => q = r
    BY <2>1, <2>2, <2>4, <1>2 DEF FrameInv
  <2> QED BY <2>5, <2>6, <2>7, <2>8 DEF FrameInv
<1>12. /\ TreePages(p)' \cap InHand(p)' = {}
       /\ TreePages(p)' \cup InHand(p)' = TreePages(p) \cup InHand(p)
  BY <1>3, <1>7, HandsEmpty
<1> QED BY <1>1, <1>3, <1>5, <1>7, <1>8, <1>9, <1>10, <1>11, <1>12, QuietStep

-----------------------------------------------------------------------------
(* A frame that is given back leaves its place.                            *)
LEMMA FrameDropped ==
  ASSUME FrameInv, NEW f \in Frames, frames' = frames \ {f},
         \A p \in Procs : \A va \in IndexPath :
           FrameAt(p, va)' = IF FrameAt(p, va) = f THEN NoPage ELSE FrameAt(p, va),
         \A p \in Procs : walk'[p].frame = IF walk[p].frame = f THEN NoPage ELSE walk[p].frame
  PROVE  FrameInv'
<1>0. f # NoPage
  BY NoPageFacts
<1>1. \A p, r \in Procs : \A va, wa \in IndexPath :
       FrameAt(p, va)' # NoPage /\ FrameAt(p, va)' = FrameAt(r, wa)' => p = r /\ va = wa
  BY DEF FrameInv
<1>2. ASSUME NEW g \in Frames
      PROVE g \in frames' <=>
             \/ \E p \in Procs : \E va \in IndexPath : FrameAt(p, va)' = g
             \/ \E p \in Procs : walk'[p].frame = g
  <2>1. CASE g = f
    BY <2>1, <1>0
  <2>2. CASE g # f
    <3>0. g # NoPage
      BY NoPageFacts
    <3>1. (\E p \in Procs : walk'[p].frame = g) <=> \E p \in Procs : walk[p].frame = g
      BY <2>2, <3>0
    <3>2. (\E p \in Procs : \E va \in IndexPath : FrameAt(p, va)' = g) <=>
          \E p \in Procs : \E va \in IndexPath : FrameAt(p, va) = g
      BY <2>2, <3>0
    <3>3. g \in frames' <=> g \in frames
      BY <2>2
    <3> QED BY <3>1, <3>2, <3>3 DEF FrameInv
  <2> QED BY <2>1, <2>2
<1>3. \A p, r \in Procs : \A va \in IndexPath : walk'[r].frame # NoPage => FrameAt(p, va)' # walk'[r].frame
  BY DEF FrameInv
<1>4. \A p, r \in Procs : walk'[p].frame # NoPage /\ walk'[p].frame = walk'[r].frame => p = r
  BY DEF FrameInv
<1> QED BY <1>1, <1>2, <1>3, <1>4 DEF FrameInv

(* A step that changes only where p is.                                    *)
LEMMA PlainStep ==
  ASSUME MemInv, NEW p \in Procs, OnlyBy(p), PoolTypes', TreeTypes', node' = node, pte' = pte,
         gone'[p] = gone[p], Top(p)' = Top(p), used' = used, poolLock' = poolLock,
         at[p] # "flip", at'[p] \notin {"flip", "fill", "clear"},
         InHand(p) = {}, InHand(p)' = {},
         Phase(p)', Chain(p)', FrameInv'
  PROVE  MemInv'
<1>1. \A s \in Slots : NodeAt(p, s)' = NodeAt(p, s)
  BY TreeQuiet
<1>2. PteFrames'
  BY DEF MemInv, Trees, PteFrames
<1>3. Victim(p)'
  BY DEF Victim
<1>4. /\ TreePages(p)' \cap InHand(p)' = {}
      /\ TreePages(p)' \cup InHand(p)' = TreePages(p) \cup InHand(p)
  BY <1>1, HandsEmpty
<1> QED BY <1>1, <1>2, <1>3, <1>4, QuietStep

(* The same for a walk that goes on with what it has.                      *)
LEMMA ChainStays ==
  ASSUME MemInv, NEW p \in Procs, walk[p].op = "set", walk'[p] = walk[p], node' = node, pte' = pte,
         gone'[p] = gone[p], root'[p] = root[p]
  PROVE  /\ FrameAt(p, walk[p].va)' = FrameAt(p, walk[p].va)
         /\ NodeAt(p, S3(p))' = NodeAt(p, S3(p))
         /\ Growing(p)' <=> Growing(p)
<1>1. Top(p)' = Top(p)
  BY DEF Top, Live
<1>2. /\ \A s \in Slots : NodeAt(p, s)' = NodeAt(p, s)
      /\ \A u \in Lower : Hang(p, u)' = Hang(p, u)
      /\ \A va \in IndexPath : FrameAt(p, va)' = FrameAt(p, va)
  BY <1>1, TreeQuiet
<1>3. walk[p].va \in IndexPath
  BY PathFacts DEF MemInv, Trees, Phase
<1>4. S1 \in Slots /\ S2(p) \in Slots /\ S3(p) \in Slots
  BY <1>3, PathFacts DEF S2, S3, SlotOf
<1>5. PICK c1, c2, s2, s3, va : c1 = NodeAt(p, S1) /\ c2 = NodeAt(p, S2(p)) /\ s2 = S2(p) /\
        s3 = S3(p) /\ va = walk[p].va
  OBVIOUS
<1>6. S2(p)' = s2 /\ S3(p)' = s3
  BY <1>5 DEF S2, S3
<1>7. NodeAt(p, S1)' = c1 /\ NodeAt(p, S2(p))' = c2 /\ NodeAt(p, S3(p))' = NodeAt(p, s3)
  BY <1>2, <1>4, <1>5, <1>6
<1>8. Growing(p)' <=> Growing(p)
  BY <1>5, <1>7 DEF Growing, Fresh, Only
<1>9. FrameAt(p, walk[p].va)' = FrameAt(p, va)
  BY <1>2, <1>3, <1>5
<1> QED BY <1>5, <1>7, <1>8, <1>9

(* pml4e_walk finds an entry missing.                                      *)
LEMMA WalkMisses ==
  ASSUME MemInv, NEW p \in Procs, UNCHANGED <<heapVars, load>>, Walk(p), Pt(root[p], walk[p].va) = NoPage
  PROVE  MemInv'
<1>1. /\ used' = used /\ poolLock' = poolLock /\ hand' = hand /\ at' = [at EXCEPT ![p] = "get"]
      /\ root' = root /\ node' = node /\ pte' = pte /\ frames' = frames /\ walk' = walk
      /\ gone' = gone /\ running' = running /\ cr3' = cr3 /\ tlb' = tlb
      /\ arena' = arena /\ load' = load /\ at[p] = "walk"
  BY DEF Walk, Goto, heapVars
<1>2. p \in Actors /\ PoolTypes /\ TreeTypes /\ Phase(p) /\ FrameInv /\ Chain(p)
  BY ActorFacts DEF MemInv, Trees
<1>3. PoolTypes' /\ at'[p] = "get" /\ hand'[p] = {} /\ InHand(p) = {} /\ InHand(p)' = {}
  BY <1>1, <1>2, AtFacts DEF PoolTypes, Places, PoolPlaces, InHand
<1>4. walk[p].op = "set" /\ gone[p] = {} /\ Top(p) = root[p]
  BY <1>1, AtFacts
<1>5. Top(p)' = Top(p) /\ TreeTypes' /\ OnlyBy(p)
  BY <1>1, <1>2 DEF Top, Live, TreeTypes, OnlyBy, PoolTypes
<1>6. Phase(p)'
  BY <1>1, <1>2, <1>3, <1>4 DEF Phase
<1>7. NodeAt(p, S3(p)) = NoPage
  <2>1. walk[p].va \in IndexPath /\ S3(p) = SlotOf(walk[p].va)
    BY <1>2, <1>4, PathFacts DEF Phase, S3, SlotOf
  <2> QED BY <2>1, <1>4, WalkIs
<1>8. Chain(p)'
  <2>1. FrameAt(p, walk[p].va) = NoPage /\ Growing(p)
    BY <1>1, <1>2, <1>4, <1>7 DEF Chain
  <2>2. FrameAt(p, walk[p].va)' = NoPage /\ NodeAt(p, S3(p))' = NoPage /\ Growing(p)'
    BY <1>1, <1>4, <1>7, <2>1, ChainStays
  <2> QED BY <2>2, <1>3 DEF Chain
<1>9. FrameInv'
  <2>1. \A r \in Procs : \A va \in IndexPath : FrameAt(r, va)' = FrameAt(r, va)
    BY <1>1, <1>5, TreeQuiet, OthersAfter
  <2> QED BY <1>1, <1>2, <2>1, FrameInvStays
<1> QED BY <1>1, <1>3, <1>5, <1>6, <1>8, <1>9, PlainStep

-----------------------------------------------------------------------------
(* A step that writes one entry of a page table of p.                      *)
LEMMA EntryWritten ==
  ASSUME MemInv, NEW p \in Procs, NEW va \in IndexPath, NEW t, NEW e \in Ptes,
         t = NodeAt(p, SlotOf(va)), t # NoPage, pte' = [pte EXCEPT ![t][va[3]] = e], node' = node,
         gone'[p] = gone[p], Top(p)' = Top(p), e.present => e.frame \in Frames
  PROVE  /\ \A s \in Slots : NodeAt(p, s)' = NodeAt(p, s)
         /\ \A x \in IndexPath : x # va => FrameAt(p, x)' = FrameAt(p, x)
         /\ FrameAt(p, va)' = IF e.present THEN Live(p, e.frame) ELSE NoPage
         /\ pte' \in [Pages -> [Index -> Ptes]] /\ PteFrames'
         /\ \A q \in Pages : (\A s \in Slots : NodeAt(p, s) # q) => node'[q] = node[q] /\ pte'[q] = pte[q]
<1>1. TreeTypes /\ Injective /\ PteFrames
  BY DEF MemInv, Trees, PteFrames
<1>2. t \in Pages /\ va[3] \in Index /\ SlotOf(va) \in Slots
  BY <1>1, NodeType, PathFacts
<1>3. \A s \in Slots : NodeAt(p, s)' = NodeAt(p, s)
  BY <1>1, NodesStay
<1>4. ASSUME NEW q \in Pages, NEW i \in Index, q # t \/ i # va[3] PROVE pte'[q][i] = pte[q][i]
  BY <1>1, <1>2, <1>4 DEF TreeTypes
<1>5. pte'[t][va[3]] = e
  BY <1>1, <1>2 DEF TreeTypes
<1>6. ASSUME NEW x \in IndexPath, x # va PROVE FrameAt(p, x)' = FrameAt(p, x)
  <2>1. SlotOf(x) \in Slots /\ x[3] \in Index
    BY PathFacts
  <2>2. NodeAt(p, SlotOf(x))' = NodeAt(p, SlotOf(x))
    BY <2>1, <1>3
  <2>3. ASSUME NEW q, q # NoPage, NodeAt(p, SlotOf(x)) = q
        PROVE pte'[q][x[3]] = pte[q][x[3]]
    <3>1. q \in Pages
      BY <2>3, <2>1, <1>1, NodeType
    <3>2. q = t => SlotOf(x) = SlotOf(va)
      BY <2>3, <2>1, <1>1, <1>2 DEF Injective
    <3>3. q = t => x[3] # va[3]
      BY <3>2, <1>6, PathFacts
    <3> QED BY <3>1, <3>3, <2>1, <1>4
  <2>4. ASSUME NEW q, q # NoPage, NodeAt(p, SlotOf(x)) = q
        PROVE /\ pte'[q][x[3]].present = pte[q][x[3]].present
              /\ pte[q][x[3]].present => Live(p, pte[q][x[3]].frame)' = Live(p, pte[q][x[3]].frame)
    BY <2>3, <2>4 DEF Live
  <2> QED BY <2>2, <2>4, FrameStays
<1>7. FrameAt(p, va)' = IF e.present THEN Live(p, e.frame) ELSE NoPage
  <2>1. NodeAt(p, SlotOf(va))' = t
    BY <1>2, <1>3
  <2>2. FrameAt(p, va)' = IF ~e.present THEN NoPage ELSE Live(p, e.frame)'
    BY <2>1, <1>5, FrameIsNext
  <2> QED BY <2>2 DEF Live
<1>8. pte' \in [Pages -> [Index -> Ptes]]
  BY <1>1, <1>2 DEF TreeTypes
<1>9. PteFrames'
  BY <1>1, <1>2, <1>4, <1>5 DEF PteFrames
<1>10. ASSUME NEW q \in Pages, \A s \in Slots : NodeAt(p, s) # q PROVE node'[q] = node[q] /\
                pte'[q] = pte[q]
  <2>1. q # t
    BY <1>10, <1>2
  <2> QED BY <2>1, <1>1 DEF TreeTypes
<1> QED BY <1>3, <1>6, <1>7, <1>8, <1>9, <1>10

(* A call that ends, or user code, with its changes in one page table.     *)
LEMMA EntryStep ==
  ASSUME MemInv, NEW p \in Procs, OnlyBy(p), PoolTypes', TreeTypes', PteFrames',
         \A s \in Slots : NodeAt(p, s)' = NodeAt(p, s),
         gone'[p] = {}, walk'[p] = NoWalk, at'[p] = "idle", hand'[p] = {}, at[p] \in {"walk", "idle"},
         FrameInv', used' = used, poolLock' = poolLock
  PROVE  MemInv'
<1>1. InHand(p) = {} /\ InHand(p)' = {}
  BY AtFacts DEF InHand
<1>2. Phase(p)' /\ Victim(p)' /\ Chain(p)'
  BY DEF Phase, Victim, Chain, NoWalk
<1>3. /\ TreePages(p)' \cap InHand(p)' = {}
      /\ TreePages(p)' \cup InHand(p)' = TreePages(p) \cup InHand(p)
  BY <1>1, HandsEmpty
<1> QED BY <1>2, <1>3, QuietStep

(* pml4_set_page writes the entry.                                         *)
LEMMA WalkWrites ==
  ASSUME MemInv, NEW p \in Procs, UNCHANGED <<heapVars, load>>, Walk(p), Pt(root[p], walk[p].va) # NoPage
  PROVE  MemInv' /\ OnlyBy(p)
<1>1. PICK va, t, f, e : /\ va = walk[p].va /\ t = Pt(root[p], va) /\ f = walk[p].frame
                         /\ e = [frame |-> f, present |-> TRUE, accessed |-> FALSE, dirty |-> FALSE]
  OBVIOUS
<1>2. /\ used' = used /\ poolLock' = poolLock /\ hand' = hand /\ at' = [at EXCEPT ![p] = "idle"]
      /\ root' = root /\ node' = node /\ frames' = frames /\ walk' = [walk EXCEPT ![p] = NoWalk]
      /\ pte' = [pte EXCEPT ![t][va[3]] = e]
      /\ gone' = gone /\ running' = running /\ cr3' = cr3 /\ tlb' = tlb
      /\ arena' = arena /\ load' = load /\ at[p] = "walk" /\ t # NoPage
  BY <1>1 DEF Walk, Done, Goto, heapVars
<1>3. p \in Actors /\ PoolTypes /\ TreeTypes /\ Phase(p) /\ FrameInv /\ Chain(p)
  BY ActorFacts DEF MemInv, Trees
<1>4. walk[p].op = "set" /\ gone[p] = {} /\ Top(p) = root[p] /\ walk[p].root = NoPage /\ hand[p] = {}
  BY <1>2, AtFacts
<1>5. PoolTypes' /\ at'[p] = "idle" /\ hand'[p] = {}
  BY <1>2, <1>3, <1>4 DEF PoolTypes, Places
<1>6. va \in IndexPath /\ f \in Frames /\ e \in Ptes /\ e.frame = f /\ e.present
  BY <1>1, <1>3, <1>4, PathFacts DEF Phase, Ptes
<1>7. walk'[p] = NoWalk /\ NoWalk.root = NoPage /\ NoWalk.frame = NoPage
  BY <1>2, <1>3 DEF TreeTypes, NoWalk
<1>8. Top(p)' = Top(p)
  BY <1>2, <1>4, <1>7 DEF Top, Live
<1>9. t = NodeAt(p, SlotOf(va))
  BY <1>1, <1>4, <1>6, WalkIs
<1>10. /\ \A s \in Slots : NodeAt(p, s)' = NodeAt(p, s)
       /\ \A x \in IndexPath : x # va => FrameAt(p, x)' = FrameAt(p, x)
       /\ FrameAt(p, va)' = Live(p, f)
       /\ pte' \in [Pages -> [Index -> Ptes]] /\ PteFrames'
       /\ \A q \in Pages : (\A s \in Slots : NodeAt(p, s) # q) => node'[q] = node[q] /\ pte'[q] = pte[q]
  BY <1>2, <1>6, <1>8, <1>9, EntryWritten
<1>11. TreeTypes'
  BY <1>2, <1>3, <1>10, WalkTypes DEF TreeTypes
<1>12. OnlyBy(p)
  BY <1>2, <1>3, <1>10 DEF OnlyBy, PoolTypes, TreeTypes
<1>13. FrameInv'
  <2>1. FrameAt(p, va) = NoPage /\ FrameAt(p, va)' = f
    BY <1>1, <1>3, <1>4, <1>10 DEF Chain, Live
  <2>2. \A r \in Procs : \A x \in IndexPath : r # p \/ x # va => FrameAt(r, x)' = FrameAt(r, x)
    BY <1>10, <1>12, OthersAfter
  <2>3. walk[p].frame = f /\ walk'[p].frame = NoPage /\ f # NoPage
        /\ \A r \in Procs : r # p => walk'[r].frame = walk[r].frame /\ walk[r].frame # f
    BY <1>1, <1>2, <1>3, <1>6, <1>7, NoPageFacts DEF TreeTypes, FrameInv
  <2>4. \A r \in Procs : \A x \in IndexPath : FrameAt(r, x) # f
    BY <2>3, <1>3 DEF FrameInv
  <2>5. \A q, r \in Procs : \A x, y \in IndexPath :
            FrameAt(q, x)' # NoPage /\ FrameAt(q, x)' = FrameAt(r, y)' => q = r /\ x = y
    <3> SUFFICES ASSUME NEW q \in Procs, NEW r \in Procs, NEW x \in IndexPath, NEW y \in IndexPath,
                        FrameAt(q, x)' # NoPage, FrameAt(q, x)' = FrameAt(r, y)'
                 PROVE q = r /\ x = y
      OBVIOUS
    <3>1. CASE q = p /\ x = va
      BY <3>1, <2>1, <2>2, <2>4
    <3>2. CASE r = p /\ y = va
      BY <3>2, <2>1, <2>2, <2>4
    <3>3. CASE ~(q = p /\ x = va) /\ ~(r = p /\ y = va)
      BY <3>3, <2>2, <1>3 DEF FrameInv
    <3> QED BY <3>1, <3>2, <3>3
  <2>6. ASSUME NEW g \in Frames
        PROVE g \in frames' <=>
               \/ \E r \in Procs : \E x \in IndexPath : FrameAt(r, x)' = g
               \/ \E r \in Procs : walk'[r].frame = g
    <3>0. g # NoPage
      BY NoPageFacts
    <3>1. CASE g = f
      BY <3>1, <1>2, <1>3, <2>1, <2>3, <1>6 DEF FrameInv
    <3>2. CASE g # f
      <4>1. (\E r \in Procs : walk'[r].frame = g) <=> \E r \in Procs : walk[r].frame = g
        BY <2>3, <3>2, <3>0
      <4>2. (\E r \in Procs : \E x \in IndexPath : FrameAt(r, x)' = g) <=>
            \E r \in Procs : \E x \in IndexPath : FrameAt(r, x) = g
        BY <2>1, <2>2, <3>2, <3>0
      <4> QED BY <4>1, <4>2, <1>2, <1>3 DEF FrameInv
    <3> QED BY <3>1, <3>2
  <2>7. \A q, r \in Procs : \A x \in IndexPath : walk'[r].frame # NoPage => FrameAt(q, x)' # walk'[r].frame
    BY <2>1, <2>2, <2>3, <1>3 DEF FrameInv
  <2>8. \A q, r \in Procs : walk'[q].frame # NoPage /\ walk'[q].frame = walk'[r].frame => q = r
    BY <2>3, <1>3 DEF FrameInv
  <2> QED BY <2>5, <2>6, <2>7, <2>8 DEF FrameInv
<1>14. gone'[p] = {}
  BY <1>2, <1>4
<1> QED BY <1>2, <1>5, <1>7, <1>10, <1>11, <1>12, <1>13, <1>14, EntryStep

-----------------------------------------------------------------------------
(* What a process finds at an address where it has a page table.           *)
LEMMA AtEntryFacts ==
  ASSUME MemInv, NEW p \in Procs, NEW va \in Vas, AtEntry(p, va)
  PROVE  /\ va \in IndexPath /\ at[p] = "idle" /\ running = p
         /\ walk[p] = NoWalk /\ gone[p] = {} /\ Top(p) = root[p] /\ hand[p] = {}
         /\ Pt(root[p], va) = NodeAt(p, SlotOf(va)) /\ NodeAt(p, SlotOf(va)) \in Pages
         /\ Entry(root[p], va) = pte[NodeAt(p, SlotOf(va))][va[3]]
         /\ Entry(root[p], va) \in Ptes
         /\ Entry(root[p], va).present => Entry(root[p], va).frame \in Frames
         /\ FrameAt(p, va) = IF Mapped(root[p], va) THEN Entry(root[p], va).frame ELSE NoPage
<1>1. va \in IndexPath /\ at[p] = "idle" /\ running = p /\ Pt(root[p], va) # NoPage
  BY PathFacts DEF AtEntry, Run
<1>2. walk[p] = NoWalk /\ gone[p] = {} /\ hand[p] = {}
  BY <1>1, AtFacts
<1>3. Top(p) = root[p]
  BY <1>2, AtFacts DEF NoWalk
<1>4. Pt(root[p], va) = NodeAt(p, SlotOf(va))
      /\ FrameAt(p, va) = IF Mapped(root[p], va) THEN Entry(root[p], va).frame ELSE NoPage
  BY <1>1, <1>2, <1>3, WalkIs
<1>5. TreeTypes /\ PteFrames
  BY DEF MemInv, Trees, PteFrames
<1>6. NodeAt(p, SlotOf(va)) \in Pages /\ va[3] \in Index
  BY <1>1, <1>4, <1>5, NodeType, PathFacts
<1>7. Entry(root[p], va) = pte[NodeAt(p, SlotOf(va))][va[3]]
  BY <1>1, <1>4 DEF Entry
<1>8. Entry(root[p], va) \in Ptes /\ (Entry(root[p], va).present => Entry(root[p], va).frame \in Frames)
  BY <1>5, <1>6, <1>7 DEF TreeTypes, PteFrames
<1> QED BY <1>1, <1>2, <1>3, <1>4, <1>6, <1>7, <1>8

(* A step of a process on an entry of its own.                             *)
LEMMA OwnEntry ==
  ASSUME MemInv, NEW p \in Procs, NEW va \in Vas, AtEntry(p, va), NEW e \in Ptes,
         SetEntry(p, va, e), e.present => e.frame \in Frames,
         UNCHANGED <<heapVars, load, poolVars, root, node, walk, gone, running, cr3>>,
         frames' \subseteq Frames, tlb' \subseteq [va : Vas, frame : Frames, dirty : BOOLEAN],
         \/ frames' = frames /\ e.present = Mapped(root[p], va) /\ e.frame = Entry(root[p], va).frame
         \/ Mapped(root[p], va) /\ frames' = frames \ {Entry(root[p], va).frame} /\ ~e.present
  PROVE  MemInv' /\ OnlyBy(p)
<1>1. /\ used' = used /\ poolLock' = poolLock /\ hand' = hand /\ at' = at
      /\ root' = root /\ node' = node /\ walk' = walk /\ gone' = gone /\ running' = running /\ cr3' = cr3
      /\ arena' = arena /\ load' = load
  BY DEF poolVars, heapVars
<1>2. /\ va \in IndexPath /\ at[p] = "idle"
      /\ walk[p] = NoWalk /\ gone[p] = {} /\ Top(p) = root[p] /\ hand[p] = {}
      /\ Pt(root[p], va) = NodeAt(p, SlotOf(va)) /\ NodeAt(p, SlotOf(va)) \in Pages
      /\ Entry(root[p], va).present => Entry(root[p], va).frame \in Frames
      /\ FrameAt(p, va) = IF Mapped(root[p], va) THEN Entry(root[p], va).frame ELSE NoPage
  BY AtEntryFacts
<1>3. PICK t, f : t = NodeAt(p, SlotOf(va)) /\ f = Entry(root[p], va).frame
  OBVIOUS
<1>4. PoolTypes /\ TreeTypes /\ FrameInv
  BY DEF MemInv, Trees
<1>5. pte' = [pte EXCEPT ![t][va[3]] = e] /\ t # NoPage
  BY <1>2, <1>3, NoPageFacts DEF SetEntry
<1>6. Top(p)' = Top(p)
  BY <1>1 DEF Top, Live
<1>7. /\ \A s \in Slots : NodeAt(p, s)' = NodeAt(p, s)
      /\ \A x \in IndexPath : x # va => FrameAt(p, x)' = FrameAt(p, x)
      /\ FrameAt(p, va)' = IF e.present THEN Live(p, e.frame) ELSE NoPage
      /\ pte' \in [Pages -> [Index -> Ptes]] /\ PteFrames'
      /\ \A q \in Pages : (\A s \in Slots : NodeAt(p, s) # q) => node'[q] = node[q] /\ pte'[q] = pte[q]
  BY <1>1, <1>2, <1>3, <1>5, <1>6, EntryWritten
<1>8. PoolTypes' /\ TreeTypes'
  BY <1>1, <1>4, <1>7 DEF PoolTypes, TreeTypes
<1>9. OnlyBy(p)
  BY <1>1, <1>7 DEF OnlyBy
<1>10. \A r \in Procs : \A x \in IndexPath : r # p => FrameAt(r, x)' = FrameAt(r, x)
  BY <1>9, OthersAfter
<1>11. FrameInv'
  <2>1. CASE frames' = frames /\ e.present = Mapped(root[p], va) /\ e.frame = f
    <3>1. FrameAt(p, va)' = FrameAt(p, va)
      BY <2>1, <1>2, <1>3, <1>7 DEF Live
    <3>2. \A r \in Procs : \A x \in IndexPath : FrameAt(r, x)' = FrameAt(r, x)
      BY <3>1, <1>7, <1>10
    <3> QED BY <2>1, <3>2, <1>1, <1>4, FrameInvStays
  <2>2. CASE Mapped(root[p], va) /\ frames' = frames \ {f} /\ ~e.present
    <3>1. FrameAt(p, va) = f /\ FrameAt(p, va)' = NoPage /\ f \in Frames
      BY <2>2, <1>2, <1>3, <1>7 DEF Mapped
    <3>2. \A r \in Procs : \A x \in IndexPath :
            FrameAt(r, x)' = IF FrameAt(r, x) = f THEN NoPage ELSE FrameAt(r, x)
      <4> SUFFICES ASSUME NEW r \in Procs, NEW x \in IndexPath
                   PROVE FrameAt(r, x)' = IF FrameAt(r, x) = f THEN NoPage ELSE FrameAt(r, x)
        OBVIOUS
      <4>1. CASE r = p /\ x = va
        BY <4>1, <3>1
      <4>2. CASE ~(r = p /\ x = va)
        <5>1. FrameAt(r, x)' = FrameAt(r, x)
          BY <4>2, <1>7, <1>10
        <5>2. FrameAt(r, x) # f
          BY <4>2, <3>1, <1>2, <1>4, NoPageFacts DEF FrameInv
        <5> QED BY <5>1, <5>2
      <4> QED BY <4>1, <4>2
    <3>3. \A r \in Procs : walk[r].frame # f
      BY <3>1, <1>2, <1>4, NoPageFacts DEF FrameInv
    <3> QED BY <2>2, <3>1, <3>2, <3>3, <1>1, <1>4, FrameDropped
  <2> QED BY <2>1, <2>2, <1>3
<1> QED BY <1>1, <1>2, <1>7, <1>8, <1>9, <1>11, EntryStep

(* pml4_clear_page keeps MemInv.                                           *)
LEMMA ClearPageKeeps ==
  ASSUME MemInv, NEW p \in Procs, UNCHANGED <<heapVars, load>>, NEW va \in Vas, ClearPage(p, va)
  PROVE  MemInv' /\ OnlyBy(p)
<1> DEFINE e == [Entry(root[p], va) EXCEPT !.present = FALSE, !.frame = NoPage]
<1>1. TreeTypes
  BY DEF MemInv, Trees
<1>2. AtEntry(p, va) /\ Mapped(root[p], va) /\ SetEntry(p, va, e) /\
        frames' = frames \ {Entry(root[p], va).frame}
      /\ tlb' = Flushed(p, va)
      /\ UNCHANGED <<heapVars, load, poolVars, root, node, walk, gone, running, cr3>>
  BY DEF ClearPage
<1>3. e \in Ptes /\ ~e.present
  <2>1. Entry(root[p], va) \in Ptes
    BY <1>2, AtEntryFacts
  <2> QED BY <2>1 DEF Ptes
<1>4. frames' \subseteq Frames /\ tlb' \subseteq [va : Vas, frame : Frames, dirty : BOOLEAN]
  BY <1>1, <1>2 DEF TreeTypes, Flushed
<1> HIDE DEF e
<1> QED BY <1>2, <1>3, <1>4, OwnEntry

(* An access of the process, which sets bits of an entry, keeps MemInv.    *)
LEMMA UseKeeps ==
  ASSUME MemInv, NEW p \in Procs, UNCHANGED <<heapVars, load>>, NEW va \in Vas, UseStep(p, va)
  PROVE  MemInv' /\ OnlyBy(p)
<1>1. TreeTypes
  BY DEF MemInv, Trees
<1>2. AtEntry(p, va) => Entry(root[p], va) \in Ptes
                        /\ (Entry(root[p], va).present => Entry(root[p], va).frame \in Frames)
  BY AtEntryFacts
<1>3. CASE SetDirty(p, va, FALSE)
  <2> DEFINE e == [Entry(root[p], va) EXCEPT !.dirty = FALSE]
  <2>1. /\ AtEntry(p, va) /\ SetEntry(p, va, e) /\ frames' = frames
        /\ tlb' = Flushed(p, va)
        /\ UNCHANGED <<heapVars, load, poolVars, root, node, walk, gone, running, cr3>>
    BY <1>3 DEF SetDirty
  <2>2. e \in Ptes /\ e.present = Mapped(root[p], va) /\ e.frame = Entry(root[p], va).frame
        /\ (e.present => e.frame \in Frames)
    BY <1>2, <2>1 DEF Ptes, Mapped
  <2>3. frames' \subseteq Frames /\ tlb' \subseteq [va : Vas, frame : Frames, dirty : BOOLEAN]
    BY <1>1, <2>1 DEF TreeTypes, Flushed
  <2> HIDE DEF e
  <2> QED BY <2>1, <2>2, <2>3, OwnEntry
<1>4. CASE SetAccessed(p, va, FALSE)
  <2> DEFINE e == [Entry(root[p], va) EXCEPT !.accessed = FALSE]
  <2>1. /\ AtEntry(p, va) /\ SetEntry(p, va, e) /\ frames' = frames
        /\ tlb' = Flushed(p, va)
        /\ UNCHANGED <<heapVars, load, poolVars, root, node, walk, gone, running, cr3>>
    BY <1>4 DEF SetAccessed
  <2>2. e \in Ptes /\ e.present = Mapped(root[p], va) /\ e.frame = Entry(root[p], va).frame
        /\ (e.present => e.frame \in Frames)
    BY <1>2, <2>1 DEF Ptes, Mapped
  <2>3. frames' \subseteq Frames /\ tlb' \subseteq [va : Vas, frame : Frames, dirty : BOOLEAN]
    BY <1>1, <2>1 DEF TreeTypes, Flushed
  <2> HIDE DEF e
  <2> QED BY <2>1, <2>2, <2>3, OwnEntry
<1>5. ASSUME NEW write \in BOOLEAN, Access(p, va, write) PROVE MemInv' /\ OnlyBy(p)
  <2> DEFINE e == [Entry(root[p], va) EXCEPT !.accessed = TRUE, !.dirty = @ \/ write]
             c == [va |-> va, frame |-> GetPage(root[p], va), dirty |-> Entry(root[p], va).dirty \/ write]
  <2>1. /\ AtEntry(p, va) /\ SetEntry(p, va, e) /\ frames' = frames /\ Mapped(root[p], va)
        /\ tlb' = {x \in tlb : x.va # va} \cup {c}
        /\ UNCHANGED <<heapVars, load, poolVars, root, node, walk, gone, running, cr3>>
    BY <1>5 DEF Access
  <2>2. e \in Ptes /\ e.present = Mapped(root[p], va) /\ e.frame = Entry(root[p], va).frame
        /\ (e.present => e.frame \in Frames)
    BY <1>2, <2>1 DEF Ptes, Mapped
  <2>3. c \in [va : Vas, frame : Frames, dirty : BOOLEAN]
    BY <1>2, <2>1 DEF GetPage, Mapped, Ptes
  <2>4. frames' \subseteq Frames /\ tlb' \subseteq [va : Vas, frame : Frames, dirty : BOOLEAN]
    <3> HIDE DEF c
    <3> QED BY <1>1, <2>1, <2>3 DEF TreeTypes
  <2> HIDE DEF e
  <2> QED BY <2>1, <2>2, <2>4, OwnEntry
<1> QED BY <1>3, <1>4, <1>5 DEF UseStep

-----------------------------------------------------------------------------
(* The root is given up: the tree hangs on the call from now on.           *)
LEMMA CleanupKeeps ==
  ASSUME MemInv, NEW p \in Procs, UNCHANGED <<heapVars, load>>, Cleanup(p)
  PROVE  MemInv'
<1>1. PICK r, w : r = root[p] /\ w = [NoWalk EXCEPT !.op = "destroy", !.root = root[p]]
  OBVIOUS
<1>2. /\ used' = used /\ poolLock' = poolLock /\ hand' = hand /\ at' = [at EXCEPT ![p] = "activate"]
      /\ root' = [root EXCEPT ![p] = NoPage] /\ node' = node /\ pte' = pte /\ frames' = frames
      /\ walk' = [walk EXCEPT ![p] = w]
      /\ gone' = gone /\ running' = running /\ cr3' = cr3 /\ tlb' = tlb
      /\ arena' = arena /\ load' = load /\ at[p] = "idle" /\ r # NoPage
  BY <1>1 DEF Cleanup, Start, Goto, heapVars
<1>3. p \in Actors /\ PoolTypes /\ TreeTypes /\ Phase(p) /\ FrameInv
  BY ActorFacts DEF MemInv, Trees
<1>4. PoolTypes' /\ at'[p] = "activate" /\ hand'[p] = {} /\ InHand(p) = {} /\ InHand(p)' = {}
  BY <1>2, <1>3, AtFacts DEF PoolTypes, Places, InHand
<1>5. r \in Pages /\ w \in Walks /\ w.op = "destroy" /\ w.frame = NoPage /\ w.root = r
  BY <1>1, <1>2, <1>3, WalkTypes DEF NoWalk, TreeTypes
<1>6. TreeTypes' /\ walk'[p] = w /\ root'[p] = NoPage
  BY <1>2, <1>3, <1>5 DEF TreeTypes
<1>7. walk[p] = NoWalk /\ gone[p] = {} /\ Top(p)' = Top(p)
  BY <1>1, <1>2, <1>5, <1>6, AtFacts DEF Top, Live
<1>8. OnlyBy(p)
  BY <1>2, <1>3 DEF OnlyBy, PoolTypes, TreeTypes
<1>9. Phase(p)' /\ Chain(p)'
  BY <1>2, <1>4, <1>5, <1>6, <1>7 DEF Phase, Chain
<1>10. FrameInv'
  <2>1. \A q \in Procs : walk'[q].frame = walk[q].frame
    BY <1>2, <1>3, <1>5, <1>6, <1>7 DEF NoWalk, TreeTypes
  <2>2. \A q \in Procs : \A va \in IndexPath : FrameAt(q, va)' = FrameAt(q, va)
    BY <1>2, <1>7, <1>8, TreeQuiet, OthersAfter
  <2> QED BY <1>2, <1>3, <2>1, <2>2, FrameInvStays
<1> QED BY <1>2, <1>4, <1>6, <1>7, <1>8, <1>9, <1>10, PlainStep

(* The step of process_cleanup that leaves the dying tree keeps MemInv.    *)
LEMMA ActivateKeeps ==
  ASSUME MemInv, NEW p \in Procs, UNCHANGED <<heapVars, load>>, ActivateBase(p)
  PROVE  MemInv'
<1>1. /\ used' = used /\ poolLock' = poolLock /\ hand' = hand /\ at' = [at EXCEPT ![p] = "destroy"]
      /\ root' = root /\ node' = node /\ pte' = pte /\ frames' = frames /\ walk' = walk
      /\ gone' = gone /\ running' = running /\ cr3' = BasePml4 /\ tlb' = {}
      /\ arena' = arena /\ load' = load /\ at[p] = "activate"
  BY DEF ActivateBase, Goto, heapVars
<1>2. p \in Actors /\ PoolTypes /\ TreeTypes /\ Phase(p) /\ FrameInv
  BY ActorFacts DEF MemInv, Trees
<1>3. PoolTypes' /\ at'[p] = "destroy" /\ hand'[p] = {} /\ InHand(p) = {} /\ InHand(p)' = {}
  BY <1>1, <1>2, AtFacts DEF PoolTypes, Places, InHand
<1>4. TreeTypes' /\ OnlyBy(p)
  BY <1>1, <1>2 DEF TreeTypes, OnlyBy, PoolTypes
<1>5. Top(p)' = Top(p) /\ walk[p].op = "destroy"
  BY <1>1, AtFacts DEF Top, Live
<1>6. Phase(p)' /\ Chain(p)'
  BY <1>1, <1>2, <1>3, <1>5 DEF Phase, Chain
<1>7. FrameInv'
  <2>1. \A q \in Procs : \A va \in IndexPath : FrameAt(q, va)' = FrameAt(q, va)
    BY <1>1, <1>4, <1>5, TreeQuiet, OthersAfter
  <2> QED BY <1>1, <1>2, <2>1, FrameInvStays
<1> QED BY <1>1, <1>3, <1>4, <1>5, <1>6, <1>7, PlainStep

(* A tree without a root is empty.                                         *)
LEMMA NoTree ==
  ASSUME NEW p \in Procs, TreeTypes, Top(p) = NoPage
  PROVE  \A s \in Slots : NodeAt(p, s) = NoPage
<1>0. NoPage \notin gone[p]
  BY NoPageFacts DEF TreeTypes
<1>1. \A s \in Lower : NodeAt(p, Up(s)) = NoPage => NodeAt(p, s) = NoPage
  BY <1>0, NodeStep DEF Hang, Down, Live
<1>2. \A s \in Slots : s[1] = 0 => NodeAt(p, s) = NoPage
  BY NodeStep, SlotFacts
<1>3. \A s \in Slots : s[1] = 1 => NodeAt(p, s) = NoPage
  BY <1>1, <1>2, SlotFacts DEF Lower
<1>4. \A s \in Slots : s[1] = 2 => NodeAt(p, s) = NoPage
  BY <1>1, <1>3, SlotFacts DEF Lower
<1>5. \A s \in Slots : s[1] = 3 => NodeAt(p, s) = NoPage
  BY <1>1, <1>4, SlotFacts DEF Lower
<1>6. \A s \in Slots : s[1] \in 0..3
  BY SlotFacts
<1> QED BY <1>2, <1>3, <1>4, <1>5, <1>6

(* A process with no root has no nodes, in the next state.                 *)
LEMMA NoTreeNext ==
  (\A p \in Procs : TreeTypes /\ Top(p) = NoPage => \A s \in Slots : NodeAt(p, s) = NoPage)'
<1>1. \A p \in Procs : TreeTypes /\ Top(p) = NoPage => \A s \in Slots : NodeAt(p, s) = NoPage
  BY NoTree
<1> QED BY <1>1, PTL

(* The end of pml4_destroy keeps MemInv.                                   *)
LEMMA DestroyedKeeps ==
  ASSUME MemInv, NEW p \in Procs, UNCHANGED <<heapVars, load>>, Destroyed(p)
  PROVE  MemInv'
<1>1. /\ used' = used /\ poolLock' = poolLock /\ hand' = hand /\ at' = [at EXCEPT ![p] = "idle"]
      /\ root' = root /\ node' = node /\ pte' = pte /\ frames' = frames /\
           walk' = [walk EXCEPT ![p] = NoWalk]
      /\ gone' = [gone EXCEPT ![p] = {}] /\ running' = running /\ cr3' = cr3 /\ tlb' = tlb
      /\ arena' = arena /\ load' = load /\ at[p] = "destroy" /\ walk[p].root \in gone[p]
  BY DEF Destroyed, Done, Goto, heapVars
<1>2. p \in Actors /\ PoolTypes /\ TreeTypes /\ Phase(p) /\ FrameInv
  BY ActorFacts DEF MemInv, Trees
<1>3. PoolTypes' /\ at'[p] = "idle" /\ hand'[p] = {} /\ hand[p] = {}
  BY <1>1, <1>2, AtFacts DEF PoolTypes, Places
<1>4. InHand(p) = {} /\ InHand(p)' = {} /\ Freeing(p)' = {}
  BY <1>1, <1>3 DEF InHand, Freeing
<1>5. walk[p].op = "destroy" /\ root[p] = NoPage /\ walk[p].frame = NoPage
  BY <1>1, <1>2, AtFacts DEF Phase
<1>6. NoWalk.root = NoPage /\ NoWalk.frame = NoPage /\ NoWalk.op = "none" /\ walk'[p] = NoWalk /\
        gone'[p] = {}
  BY <1>1, <1>2 DEF NoWalk, TreeTypes
<1>7. TreeTypes'
  BY <1>1, <1>2, WalkTypes DEF TreeTypes
<1>8. Top(p) = NoPage /\ Top(p)' = NoPage
  BY <1>1, <1>5, <1>6 DEF Top, Live
<1>9. \A s \in Slots : NodeAt(p, s) = NoPage /\ NodeAt(p, s)' = NoPage
  BY <1>2, <1>7, <1>8, NoTree, NoTreeNext
<1>10. OnlyBy(p)
  BY <1>1, <1>2 DEF OnlyBy, PoolTypes, TreeTypes
<1>11. \A q \in Procs : \A va \in IndexPath : FrameAt(q, va)' = FrameAt(q, va)
  <2>1. \A va \in IndexPath : FrameAt(p, va) = NoPage /\ FrameAt(p, va)' = NoPage
    BY <1>9, FrameIs, FrameIsNext, PathFacts
  <2> QED BY <2>1, <1>10, OthersAfter
<1>12. FrameInv'
  <2>1. \A r \in Procs : walk'[r].frame = walk[r].frame
    BY <1>1, <1>2, <1>5, <1>6 DEF TreeTypes
  <2> QED BY <1>1, <1>2, <1>11, <2>1, FrameInvStays
<1>13. PteFrames' /\ Phase(p)' /\ Victim(p)' /\ Chain(p)'
  BY <1>1, <1>2, <1>3, <1>6 DEF PteFrames, MemInv, Trees, Phase, Victim, Chain
<1>14. /\ TreePages(p)' \cap InHand(p)' = {}
       /\ TreePages(p)' \cup InHand(p)' = TreePages(p) \cup InHand(p)
  BY <1>4, <1>9, HandsEmpty
<1> QED BY <1>1, <1>3, <1>7, <1>9, <1>10, <1>12, <1>13, <1>14, QuietStep

-----------------------------------------------------------------------------
(* bitmap_scan finds nothing, or n free pages in a row.                    *)
LEMMA FreeRunIs ==
  ASSUME PoolTypes, NEW n \in Nat \ {0}
  PROVE  /\ FreeRun(n) \subseteq Pages /\ FreeRun(n) \cap used = {}
         /\ FreeRun(n) = {} \/ \E s \in Pages : FreeRun(n) = s..(s + n - 1)
<1> DEFINE starts == {s \in Pages : s + n <= NumPages /\ s..(s + n - 1) \cap used = {}}
<1>1. NumPages \in Nat /\ starts \in SUBSET Nat
  BY PoolAssumption DEF Pages
<1>2. CASE starts = {}
  BY <1>2 DEF FreeRun
<1>3. CASE starts # {}
  <2>1. PICK s : s = Min(starts)
    OBVIOUS
  <2>2. s \in starts
    BY <1>1, <1>3, <2>1, LeastGreatest
  <2>3. FreeRun(n) = s..(s + n - 1)
    BY <1>3, <2>1 DEF FreeRun
  <2>4. s..(s + n - 1) \subseteq Pages
    BY <1>1, <2>2 DEF Pages
  <2> QED BY <2>2, <2>3, <2>4
<1> QED BY <1>2, <1>3

(* bitmap_scan for one page finds none or a page.                          *)
LEMMA FreeRunOne ==
  ASSUME PoolTypes
  PROVE  FreeRun(1) = {} \/ \E q \in Pages : FreeRun(1) = {q}
<1>1. FreeRun(1) = {} \/ \E s \in Pages : FreeRun(1) = s..(s + 1 - 1)
  BY FreeRunIs
<1>2. \A s \in Pages : s..(s + 1 - 1) = {s}
  BY NoPageFacts
<1> QED BY <1>1, <1>2

(* The places of a walk in the page allocator.                             *)
LEMMA ScanKeeps ==
  ASSUME MemInv, NEW p \in Procs, UNCHANGED <<heapVars, load>>, GetScan(p, 1), UNCHANGED tableVars
  PROVE  MemInv'
<1>1. /\ used' = used /\ poolLock = Nobody /\ poolLock' = p
      /\ hand' = [hand EXCEPT ![p] = FreeRun(1)] /\ at' = [at EXCEPT ![p] = "flip"]
      /\ root' = root /\ node' = node /\ pte' = pte /\ frames' = frames /\ walk' = walk
      /\ gone' = gone /\ running' = running /\ cr3' = cr3 /\ tlb' = tlb
      /\ arena' = arena /\ load' = load /\ at[p] = "get"
  BY DEF GetScan, Goto, heapVars, tableVars
<1>2. p \in Actors /\ PoolTypes /\ TreeTypes /\ Phase(p) /\ FrameInv /\ Chain(p) /\ LockInv /\ PteFrames
  BY ActorFacts DEF MemInv, Trees, PteFrames
<1>3. FreeRun(1) \subseteq Pages /\ FreeRun(1) \cap used = {}
      /\ (FreeRun(1) = {} \/ \E q \in Pages : FreeRun(1) = {q})
  BY <1>2, FreeRunIs, FreeRunOne
<1>4. at'[p] = "flip" /\ hand'[p] = FreeRun(1) /\ InHand(p) = {} /\ InHand(p)' = {}
  BY <1>1, <1>2, AtFacts DEF PoolTypes, InHand
<1>5. PoolTypes'
  BY <1>1, <1>2, <1>3 DEF PoolTypes, Places, PoolPlaces
<1>6. TreeTypes' /\ OnlyBy(p) /\ PteFrames'
  BY <1>1, <1>2 DEF TreeTypes, OnlyBy, PoolTypes, PteFrames
<1>7. Top(p)' = Top(p)
  BY <1>1 DEF Top, Live
<1>8. Phase(p)' /\ Victim(p)'
  BY <1>1, <1>2, <1>3, <1>4 DEF Phase, Victim
<1>9. Chain(p)'
  <2> SUFFICES ASSUME walk[p].op = "set" PROVE Chain(p)'
    BY <1>1 DEF Chain
  <2>1. FrameAt(p, walk[p].va) = NoPage /\ NodeAt(p, S3(p)) = NoPage /\ Growing(p)
    BY <1>1, <1>2 DEF Chain
  <2>2. FrameAt(p, walk[p].va)' = NoPage /\ NodeAt(p, S3(p))' = NoPage /\ Growing(p)'
    BY <1>1, <2>1, ChainStays
  <2> QED BY <2>2, <1>4 DEF Chain
<1>10. /\ \A s \in Slots : NodeAt(p, s)' = NodeAt(p, s)
       /\ \A va \in IndexPath : FrameAt(p, va)' = FrameAt(p, va)
  BY <1>1, <1>7, TreeQuiet
<1>11. FrameInv'
  <2>1. \A q \in Procs : \A va \in IndexPath : FrameAt(q, va)' = FrameAt(q, va)
    BY <1>6, <1>10, OthersAfter
  <2> QED BY <1>1, <1>2, <2>1, FrameInvStays
<1>12. Injective' /\ Outside'
  <2>1. \A r \in Procs : \A s \in Slots : NodeAt(r, s)' = NodeAt(r, s)
    BY <1>6, <1>10, OthersAfter
  <2> QED BY <1>1, <2>1, InjectiveStays, OutsideStays DEF MemInv, Trees
<1>13. LockInv'
  <2>1. Elsewhere' = Elsewhere
    BY <1>1 DEF Elsewhere
  <2>2. ASSUME NEW a \in Actors
        PROVE  /\ at'[a] = "flip" <=> poolLock' = a
               /\ at'[a] = "flip" => hand'[a] \cap used' = {}
               /\ at'[a] \in {"fill", "clear"} => hand'[a] # {}
    <3>1. at[a] = "flip" <=> poolLock = a
      BY <1>2 DEF LockInv
    <3>2. poolLock # a
      BY <1>1, ActorFacts
    <3> QED BY <1>1, <1>2, <1>3, <1>4, <3>1, <3>2 DEF LockInv, PoolTypes
  <2> QED BY <1>1, <1>2, <2>1, <2>2 DEF LockInv
<1>14. /\ TreePages(p)' \cap InHand(p)' = {}
       /\ TreePages(p)' \cup InHand(p)' = TreePages(p) \cup InHand(p)
  BY <1>4, <1>10, HandsEmpty
<1> DEFINE none == {}
<1>15. /\ none \subseteq Pages /\ none \cap used = {} /\ none \subseteq TreePages(p) \cup InHand(p)
       /\ TreePages(p)' \cup InHand(p)' = ((TreePages(p) \cup InHand(p)) \cup none) \ none
       /\ used' = (used \cup none) \ none
  BY <1>1, <1>14
<1> QED BY <1>5, <1>6, <1>8, <1>9, <1>11, <1>12, <1>13, <1>14, <1>15, ProcessStep

(* bitmap_set_multiple, by a process, keeps MemInv.                        *)
LEMMA FlipKeeps ==
  ASSUME MemInv, NEW p \in Procs, UNCHANGED <<heapVars, load>>, GetFlip(p), UNCHANGED tableVars
  PROVE  MemInv'
<1>1. /\ used' = used \cup hand[p] /\ poolLock' = Nobody /\ hand' = hand /\ at' = [at EXCEPT ![p] = "got"]
      /\ root' = root /\ node' = node /\ pte' = pte /\ frames' = frames /\ walk' = walk
      /\ gone' = gone /\ running' = running /\ cr3' = cr3 /\ tlb' = tlb
      /\ arena' = arena /\ load' = load /\ at[p] = "flip"
  BY DEF GetFlip, Goto, heapVars, tableVars
<1>2. p \in Actors /\ PoolTypes /\ TreeTypes /\ Phase(p) /\ FrameInv /\ Chain(p) /\ LockInv /\ PteFrames
  BY ActorFacts DEF MemInv, Trees, PteFrames
<1>3. hand[p] \subseteq Pages /\ hand[p] \cap used = {}
  BY <1>1, <1>2 DEF PoolTypes, LockInv
<1>4. at'[p] = "got" /\ hand'[p] = hand[p] /\ InHand(p) = {} /\ InHand(p)' = hand[p] /\ Freeing(p)' = {}
      /\ Freeing(p) = {}
  BY <1>1, <1>2 DEF PoolTypes, InHand, Freeing
<1>5. PoolTypes'
  BY <1>1, <1>2, <1>3 DEF PoolTypes, Places, PoolPlaces
<1>6. TreeTypes' /\ OnlyBy(p) /\ PteFrames'
  BY <1>1, <1>2 DEF TreeTypes, OnlyBy, PoolTypes, PteFrames
<1>7. Top(p)' = Top(p)
  BY <1>1 DEF Top, Live
<1>8. Phase(p)' /\ Victim(p)'
  BY <1>1, <1>2, <1>3, <1>4 DEF Phase, Victim
<1>9. Chain(p)'
  <2> SUFFICES ASSUME walk[p].op = "set" PROVE Chain(p)'
    BY <1>1 DEF Chain
  <2>1. FrameAt(p, walk[p].va) = NoPage /\ NodeAt(p, S3(p)) = NoPage /\ Growing(p)
    BY <1>1, <1>2 DEF Chain
  <2>2. FrameAt(p, walk[p].va)' = NoPage /\ NodeAt(p, S3(p))' = NoPage /\ Growing(p)'
    BY <1>1, <2>1, ChainStays
  <2> QED BY <2>2, <1>4 DEF Chain
<1>10. /\ \A s \in Slots : NodeAt(p, s)' = NodeAt(p, s)
       /\ \A va \in IndexPath : FrameAt(p, va)' = FrameAt(p, va)
  BY <1>1, <1>7, TreeQuiet
<1>11. FrameInv'
  <2>1. \A q \in Procs : \A va \in IndexPath : FrameAt(q, va)' = FrameAt(q, va)
    BY <1>6, <1>10, OthersAfter
  <2> QED BY <1>1, <1>2, <2>1, FrameInvStays
<1>12. Injective' /\ Outside'
  <2>1. \A r \in Procs : \A s \in Slots : NodeAt(r, s)' = NodeAt(r, s)
    BY <1>6, <1>10, OthersAfter
  <2> QED BY <1>1, <2>1, InjectiveStays, OutsideStays DEF MemInv, Trees
<1>13. Elsewhere' \subseteq used' => LockInv'
  <2>1. ASSUME NEW a \in Actors
        PROVE  /\ at'[a] = "flip" <=> poolLock' = a
               /\ at'[a] = "flip" => hand'[a] \cap used' = {}
               /\ at'[a] \in {"fill", "clear"} => hand'[a] # {}
    <3>1. (at[a] = "flip" <=> poolLock = a) /\ poolLock = p
      BY <1>1, <1>2 DEF LockInv
    <3>2. Nobody # a
      BY ActorFacts
    <3> QED BY <1>1, <1>2, <1>4, <3>1, <3>2 DEF LockInv, PoolTypes
  <2> QED BY <2>1 DEF LockInv
<1>14. TreePages(p)' = TreePages(p)
  BY <1>4, <1>10 DEF TreePages
<1>15. PICK took : took = hand[p]
  OBVIOUS
<1>16. TreePages(p) \cap took = {}
  <2>1. \A q \in TreePages(p) : q \in used
    BY <1>2, TreePagesType DEF MemInv, OwnInv
  <2> QED BY <2>1, <1>3, <1>15
<1> DEFINE none == {}
<1>17. /\ TreePages(p)' \cap InHand(p)' = {}
       /\ took \subseteq Pages /\ took \cap used = {} /\ none \subseteq TreePages(p) \cup InHand(p)
       /\ TreePages(p)' \cup InHand(p)' = ((TreePages(p) \cup InHand(p)) \cup took) \ none
       /\ used' = (used \cup took) \ none
  BY <1>1, <1>3, <1>4, <1>14, <1>15, <1>16
<1> QED BY <1>5, <1>6, <1>8, <1>9, <1>11, <1>12, <1>13, <1>17, ProcessStep

-----------------------------------------------------------------------------
(* The least of one number.                                                *)
LEMMA MinOne ==
  \A q \in Nat : Min({q}) = q
<1> SUFFICES ASSUME NEW q \in Nat PROVE Min({q}) = q
  OBVIOUS
<1>1. {q} \in SUBSET Nat /\ {q} # {}
  OBVIOUS
<1>2. Min({q}) \in {q}
  BY <1>1, LeastGreatest
<1> QED BY <1>2

(* A page that palloc has just given is in no tree, and empty.             *)
LEMMA InHandFree ==
  ASSUME MemInv, NEW a \in Actors, at[a] = "got", NEW q \in hand[a]
  PROVE  /\ q \in Pages /\ q # NoPage /\ q \in used /\ q \notin HeapPages
         /\ \A r \in Procs : \A s \in Slots : NodeAt(r, s) # q
         /\ node[q] = EmptyNode /\ pte[q] = EmptyTable
<1>1. PoolTypes /\ TreeTypes /\ OwnInv
  BY DEF MemInv, Trees
<1>2. q \in Pages /\ q # NoPage /\ q \in InHand(a)
  BY <1>1, NoPageFacts DEF PoolTypes, InHand
<1>3. q \in used /\ q \notin HeapPages
  BY <1>1, <1>2 DEF OwnInv
<1>4. ASSUME NEW r \in Procs, NEW s \in Slots, NodeAt(r, s) = q PROVE FALSE
  <2>1. q \notin TreePages(r)
    BY <1>1, <1>2 DEF OwnInv
  <2>2. q \in Freeing(r)
    BY <2>1, <1>4, <1>2 DEF TreePages
  <2>3. q \in InHand(r) /\ at[r] \in {"fill", "clear"} /\ r \in Actors
    BY <2>2, ActorFacts DEF Freeing, InHand
  <2>4. r = a
    BY <2>3, <1>1, <1>2 DEF OwnInv
  <2> QED BY <2>3, <2>4
<1>5. node[q] = EmptyNode /\ pte[q] = EmptyTable
  BY <1>2, <1>4 DEF MemInv, Trees, Outside
<1> QED BY <1>2, <1>3, <1>4, <1>5

(* The walk fails before it has made a node.                               *)
LEMMA FailedFirst ==
  ASSUME MemInv, NEW p \in Procs, UNCHANGED <<heapVars, load>>, GotPage(p), Failed(p), walk[p].made = <<>>
  PROVE  MemInv'
<1>1. PICK f : f = walk[p].frame
  OBVIOUS
<1>2. /\ used' = used /\ poolLock' = poolLock /\ hand' = [hand EXCEPT ![p] = {}] /\
           at' = [at EXCEPT ![p] = "idle"]
      /\ root' = root /\ node' = node /\ pte' = pte /\ frames' = frames \ {f} /\
           walk' = [walk EXCEPT ![p] = NoWalk]
      /\ gone' = gone /\ running' = running /\ cr3' = cr3 /\ tlb' = tlb
      /\ arena' = arena /\ load' = load /\ at[p] = "got" /\ walk[p].op = "set" /\ hand[p] = {}
  BY <1>1 DEF GotPage, Failed, Done, Goto, heapVars
<1>3. p \in Actors /\ PoolTypes /\ TreeTypes /\ Phase(p) /\ FrameInv
  BY ActorFacts DEF MemInv, Trees
<1>4. PoolTypes' /\ at'[p] = "idle" /\ hand'[p] = {} /\ InHand(p) = {} /\ InHand(p)' = {}
  BY <1>2, <1>3 DEF PoolTypes, Places, InHand
<1>5. f \in Frames /\ f # NoPage /\ walk[p].root = NoPage /\ gone[p] = {}
  BY <1>1, <1>2, <1>3, AtFacts, NoPageFacts DEF Phase
<1>6. NoWalk.root = NoPage /\ NoWalk.frame = NoPage /\ NoWalk.op = "none" /\ walk'[p] = NoWalk
  BY <1>2, <1>3 DEF NoWalk, TreeTypes
<1>7. TreeTypes' /\ OnlyBy(p)
  BY <1>2, <1>3, WalkTypes DEF TreeTypes, OnlyBy, PoolTypes
<1>8. Top(p)' = Top(p)
  BY <1>2, <1>5, <1>6 DEF Top, Live
<1>9. Phase(p)' /\ Chain(p)'
  BY <1>2, <1>4, <1>5, <1>6 DEF Phase, Chain
<1>10. FrameInv'
  <2>1. \A q \in Procs : \A va \in IndexPath : FrameAt(q, va)' = FrameAt(q, va)
    BY <1>2, <1>7, <1>8, TreeQuiet, OthersAfter
  <2>2. \A q \in Procs : \A va \in IndexPath : FrameAt(q, va) # f
    BY <1>1, <1>3, <1>5 DEF FrameInv
  <2>3. \A q \in Procs : walk'[q].frame = IF walk[q].frame = f THEN NoPage ELSE walk[q].frame
    BY <1>1, <1>2, <1>3, <1>5, <1>6 DEF FrameInv, TreeTypes
  <2> QED BY <1>2, <1>3, <1>5, <2>1, <2>2, <2>3, FrameDropped
<1> QED BY <1>2, <1>4, <1>7, <1>8, <1>9, <1>10, PlainStep

(* ... or after.                                                           *)
LEMMA FailedLater ==
  ASSUME MemInv, NEW p \in Procs, UNCHANGED <<heapVars, load>>, GotPage(p), Failed(p), walk[p].made # <<>>
  PROVE  MemInv'
<1>2. /\ used' = used /\ poolLock' = poolLock /\ hand' = [hand EXCEPT ![p] = {}] /\
           at' = [at EXCEPT ![p] = "unwind"]
      /\ root' = root /\ node' = node /\ pte' = pte /\ frames' = frames /\ walk' = walk
      /\ gone' = gone /\ running' = running /\ cr3' = cr3 /\ tlb' = tlb
      /\ arena' = arena /\ load' = load /\ at[p] = "got" /\ walk[p].op = "set" /\ hand[p] = {}
  BY DEF GotPage, Failed, Goto, heapVars
<1>3. p \in Actors /\ PoolTypes /\ TreeTypes /\ Phase(p) /\ FrameInv /\ Chain(p)
  BY ActorFacts DEF MemInv, Trees
<1>4. PoolTypes' /\ at'[p] = "unwind" /\ hand'[p] = {} /\ InHand(p) = {} /\ InHand(p)' = {}
  BY <1>2, <1>3 DEF PoolTypes, Places, InHand
<1>5. gone[p] = {}
  BY <1>2, AtFacts
<1>7. TreeTypes' /\ OnlyBy(p)
  BY <1>2, <1>3 DEF TreeTypes, OnlyBy, PoolTypes
<1>8. Top(p)' = Top(p)
  BY <1>2 DEF Top, Live
<1>9. Phase(p)'
  BY <1>2, <1>3, <1>4, <1>5 DEF Phase
<1>10. Chain(p)'
  <2>1. FrameAt(p, walk[p].va) = NoPage /\ NodeAt(p, S3(p)) = NoPage /\ Growing(p)
    BY <1>2, <1>3 DEF Chain
  <2>2. FrameAt(p, walk[p].va)' = NoPage /\ NodeAt(p, S3(p))' = NoPage /\ Growing(p)'
    BY <1>2, <2>1, ChainStays
  <2> QED BY <2>2, <1>2, <1>4 DEF Chain
<1>11. FrameInv'
  <2>1. \A q \in Procs : \A va \in IndexPath : FrameAt(q, va)' = FrameAt(q, va)
    BY <1>2, <1>7, <1>8, TreeQuiet, OthersAfter
  <2> QED BY <1>2, <1>3, <2>1, FrameInvStays
<1> QED BY <1>2, <1>4, <1>7, <1>8, <1>9, <1>10, <1>11, PlainStep

(* pml4_create fails.                                                      *)
LEMMA CreateFailed ==
  ASSUME MemInv, NEW p \in Procs, UNCHANGED <<heapVars, load>>, GotPage(p), Created(p), hand[p] = {}
  PROVE  MemInv'
<1>2. /\ used' = used /\ poolLock' = poolLock /\ hand' = [hand EXCEPT ![p] = {}] /\
           at' = [at EXCEPT ![p] = "idle"]
      /\ root' = root /\ node' = node /\ pte' = pte /\ frames' = frames /\
           walk' = [walk EXCEPT ![p] = NoWalk]
      /\ gone' = gone /\ running' = running /\ cr3' = cr3 /\ tlb' = tlb
      /\ arena' = arena /\ load' = load /\ at[p] = "got" /\ walk[p].op = "create"
  BY DEF GotPage, Created, Done, Goto, heapVars
<1>3. p \in Actors /\ PoolTypes /\ TreeTypes /\ Phase(p) /\ FrameInv
  BY ActorFacts DEF MemInv, Trees
<1>4. PoolTypes' /\ at'[p] = "idle" /\ hand'[p] = {} /\ InHand(p) = {} /\ InHand(p)' = {}
  BY <1>2, <1>3 DEF PoolTypes, Places, InHand
<1>5. walk[p].root = NoPage /\ gone[p] = {} /\ walk[p].frame = NoPage
  BY <1>2, AtFacts
<1>6. NoWalk.root = NoPage /\ NoWalk.frame = NoPage /\ NoWalk.op = "none" /\ walk'[p] = NoWalk
  BY <1>2, <1>3 DEF NoWalk, TreeTypes
<1>7. TreeTypes' /\ OnlyBy(p)
  BY <1>2, <1>3, WalkTypes DEF TreeTypes, OnlyBy, PoolTypes
<1>8. Top(p)' = Top(p)
  BY <1>2, <1>5, <1>6 DEF Top, Live
<1>9. Phase(p)' /\ Chain(p)'
  BY <1>2, <1>4, <1>5, <1>6 DEF Phase, Chain
<1>10. FrameInv'
  <2>1. \A q \in Procs : \A va \in IndexPath : FrameAt(q, va)' = FrameAt(q, va)
    BY <1>2, <1>7, <1>8, TreeQuiet, OthersAfter
  <2>2. \A q \in Procs : walk'[q].frame = walk[q].frame
    BY <1>2, <1>3, <1>5, <1>6 DEF TreeTypes
  <2> QED BY <1>2, <1>3, <2>1, <2>2, FrameInvStays
<1> QED BY <1>2, <1>4, <1>7, <1>8, <1>9, <1>10, PlainStep

(* A page joins a tree.                                                    *)
LEMMA NodeAdded ==
  ASSUME MemInv, NEW p \in Procs, NEW e \in Slots, NEW q, at[p] = "got", hand[p] = {q},
         at'[p] \notin {"flip", "got", "fill", "clear"}, OnlyBy(p), PoolTypes', TreeTypes',
         pte' = pte, node'[q] = node[q], used' = used, poolLock' = poolLock, frames' = frames,
         walk'[p].frame = walk[p].frame, gone[p] = {}, gone'[p] = {},
         NodeAt(p, e) = NoPage, NodeAt(p, e)' = q,
         \A s \in Slots : s # e => NodeAt(p, s)' = NodeAt(p, s),
         (\A va \in IndexPath : FrameAt(p, va)' = FrameAt(p, va)) => Phase(p)' /\ Chain(p)'
  PROVE  MemInv' /\ SameMap(p)
<1>1. p \in Actors /\ PoolTypes /\ TreeTypes /\ FrameInv /\ Injective /\ Outside /\ OwnInv
  BY ActorFacts DEF MemInv, Trees
<1>2. /\ q \in Pages /\ q # NoPage
      /\ \A r \in Procs : \A s \in Slots : NodeAt(r, s) # q
      /\ node[q] = EmptyNode /\ pte[q] = EmptyTable
  BY <1>1, InHandFree
<1>3. \A r \in Procs : r # p => \A s \in Slots : NodeAt(r, s)' = NodeAt(r, s)
  BY OthersAfter
<1>4. Injective'
  <2> SUFFICES ASSUME NEW a \in Procs, NEW b \in Procs, NEW s \in Slots, NEW u \in Slots,
                      NodeAt(a, s)' # NoPage, NodeAt(a, s)' = NodeAt(b, u)'
               PROVE a = b /\ s = u
    BY DEF Injective
  <2>1. CASE a = p /\ s = e
    BY <2>1, <1>2, <1>3
  <2>2. CASE b = p /\ u = e
    BY <2>2, <1>2, <1>3
  <2>3. CASE ~(a = p /\ s = e) /\ ~(b = p /\ u = e)
    <3>1. NodeAt(a, s)' = NodeAt(a, s)
      BY <2>3, <1>3
    <3>2. NodeAt(b, u)' = NodeAt(b, u)
      BY <2>3, <1>3
    <3>3. NodeAt(a, s) # NoPage /\ NodeAt(a, s) = NodeAt(b, u)
      BY <3>1, <3>2
    <3>4. Injective
      BY <1>1
    <3> QED BY ONLY <3>3, <3>4, a \in Procs, b \in Procs, s \in Slots, u \in Slots DEF Injective
  <2> QED BY <2>1, <2>2, <2>3
<1>5. Outside'
  <2> SUFFICES ASSUME NEW x \in Pages, \A r \in Procs : \A s \in Slots : NodeAt(r, s)' # x
               PROVE node'[x] = EmptyNode /\ pte'[x] = EmptyTable
    BY DEF Outside
  <2>1. x # q
    OBVIOUS
  <2>2. \A r \in Procs : \A s \in Slots : NodeAt(r, s) # x
    BY <2>1, <1>3, NoPageFacts
  <2>3. node[x] = EmptyNode /\ pte[x] = EmptyTable
    BY <2>2, <1>1 DEF Outside
  <2> QED BY <2>2, <2>3 DEF OnlyBy
<1>6. ASSUME NEW va \in IndexPath PROVE FrameAt(p, va)' = FrameAt(p, va)
  <2>1. SlotOf(va) \in Slots /\ va[3] \in Index
    BY PathFacts
  <2>2. CASE SlotOf(va) = e
    <3>1. FrameAt(p, va) = NoPage
      BY <2>2, FrameIs
    <3>2. ~pte'[q][va[3]].present
      BY <1>2, <2>1 DEF EmptyTable, NoPte
    <3>3. FrameAt(p, va)' = NoPage
      BY <2>2, <3>2, FrameIsNext
    <3> QED BY <3>1, <3>3
  <2>3. CASE SlotOf(va) # e
    <3>1. NodeAt(p, SlotOf(va))' = NodeAt(p, SlotOf(va))
      BY <2>1, <2>3
    <3>2. \A x : Live(p, x) = x /\ Live(p, x)' = x
      BY DEF Live
    <3> QED BY <3>1, <3>2, FrameStays
  <2> QED BY <2>2, <2>3
<1>7. Phase(p)' /\ Chain(p)' /\ Victim(p)'
  BY <1>6 DEF Victim
<1>8. FrameInv'
  <2>1. \A r \in Procs : \A va \in IndexPath : FrameAt(r, va)' = FrameAt(r, va)
    BY <1>6, OthersAfter
  <2>2. \A r \in Procs : walk'[r].frame = walk[r].frame
    BY DEF OnlyBy
  <2> QED BY <1>1, <2>1, <2>2, FrameInvStays
<1>9. PteFrames'
  BY DEF MemInv, Trees, PteFrames
<1>10. Freeing(p) = {} /\ Freeing(p)' = {} /\ InHand(p) = {q} /\ InHand(p)' = {}
  BY DEF Freeing, InHand
<1>11. TreePages(p)' = TreePages(p) \cup {q}
  <2>1. \A x : (\E s \in Slots : NodeAt(p, s)' = x) /\ x # NoPage <=> x # NoPage /\
          (x = q \/ \E s \in Slots : NodeAt(p, s) = x)
    BY <1>2
  <2> QED BY <2>1, <1>2, <1>10 DEF TreePages
<1>12. Elsewhere' \subseteq used' => LockInv'
  <2>1. \A a \in Actors : a # p => at'[a] = at[a] /\ hand'[a] = hand[a]
    BY DEF OnlyBy
  <2> QED BY <1>1, <2>1, LockStays DEF MemInv
<1> DEFINE none == {}
<1>13. /\ none \subseteq Pages /\ none \cap used = {} /\ none \subseteq TreePages(p) \cup InHand(p)
       /\ TreePages(p)' \cap InHand(p)' = {}
       /\ TreePages(p)' \cup InHand(p)' = ((TreePages(p) \cup InHand(p)) \cup none) \ none
       /\ used' = (used \cup none) \ none
  BY <1>10, <1>11
<1>14. ASSUME NEW va \in IndexPath, FrameAt(p, va) # NoPage PROVE Cell(p, va)' = Cell(p, va)
  <2>1. SlotOf(va) \in Slots /\ NodeAt(p, SlotOf(va)) # NoPage
    BY <1>14, PathFacts, FrameIs
  <2>2. NodeAt(p, SlotOf(va))' = NodeAt(p, SlotOf(va))
    BY <2>1
  <2> QED BY <2>2 DEF Cell
<1>15. SameMap(p)
  BY <1>6, <1>14 DEF SameMap
<1> QED BY <1>15, <1>4, <1>5, <1>7, <1>8, <1>9, <1>12, <1>13, ProcessStep

-----------------------------------------------------------------------------
(* pml4_create succeeds.                                                   *)
LEMMA CreateSucceeds ==
  ASSUME MemInv, NEW p \in Procs, UNCHANGED <<heapVars, load>>, GotPage(p), Created(p), hand[p] # {}
  PROVE  MemInv' /\ SameMap(p)
<1>1. p \in Actors /\ PoolTypes /\ TreeTypes /\ Phase(p) /\ FrameInv
  BY ActorFacts DEF MemInv, Trees
<1>2. at[p] = "got" /\ walk[p].op = "create" /\ root[p] = NoPage
  BY <1>1 DEF GotPage, Created, Phase
<1>3. PICK q \in Pages : hand[p] = {q}
  BY <1>1, <1>2 DEF Phase
<1>4. Min(hand[p]) = q
  BY <1>3, MinOne, NoPageFacts
<1>5. /\ used' = used /\ poolLock' = poolLock /\ hand' = [hand EXCEPT ![p] = {}] /\
           at' = [at EXCEPT ![p] = "idle"]
      /\ root' = [root EXCEPT ![p] = q] /\ node' = node /\ pte' = pte /\ frames' = frames
      /\ walk' = [walk EXCEPT ![p] = NoWalk]
      /\ gone' = gone /\ running' = running /\ cr3' = q /\ tlb' = tlb
      /\ arena' = arena /\ load' = load
  BY <1>3, <1>4 DEF GotPage, Created, Done, Goto, heapVars
<1>6. PoolTypes' /\ at'[p] = "idle" /\ hand'[p] = {}
  BY <1>5, <1>1 DEF PoolTypes, Places
<1>7. walk[p].root = NoPage /\ gone[p] = {} /\ walk[p].frame = NoPage /\ Top(p) = NoPage
  BY <1>2, AtFacts
<1>8. NoWalk.root = NoPage /\ NoWalk.frame = NoPage /\ NoWalk.op = "none" /\ walk'[p] = NoWalk /\
        root'[p] = q
  BY <1>5, <1>1 DEF NoWalk, TreeTypes
<1>9. TreeTypes' /\ OnlyBy(p)
  BY <1>5, <1>1, WalkTypes DEF TreeTypes, OnlyBy, PoolTypes
<1>10. \A s \in Slots : NodeAt(p, s) = NoPage
  BY <1>1, <1>7, NoTree
<1>11. q # NoPage /\ node[q] = EmptyNode
  BY <1>1, <1>2, <1>3, InHandFree
<1>12. Top(p)' = q
  BY <1>5, <1>7, <1>8, <1>11 DEF Top, Live
<1>13. NodeAt(p, TopSlot)' = q
  BY <1>12, NodeStepNext
<1>14. \A u \in Lower : Up(u) = TopSlot => NodeAt(p, u)' = NoPage
  <2> SUFFICES ASSUME NEW u \in Lower, Up(u) = TopSlot PROVE NodeAt(p, u)' = NoPage
    OBVIOUS
  <2>1. NodeAt(p, u)' = Live(p, Hang(p, u))'
    BY NodeStepNext
  <2>2. Hang(p, u)' = node'[q][Idx(u)]
    BY <1>13, <1>11 DEF Hang, Down
  <2>3. node'[q][Idx(u)] = NoPage
    BY <1>5, <1>11, SlotFacts DEF EmptyNode
  <2> QED BY <2>1, <2>2, <2>3 DEF Live
<1>15. \A s \in Slots : s # TopSlot => NodeAt(p, s)' = NodeAt(p, s)
  <2>1. \A u \in Lower : Up(u) = TopSlot => NodeAt(p, u) = NoPage
    BY <1>10, SlotFacts
  <2>2. NoPage \notin gone[p] /\ NoPage \notin gone'[p]
    BY <1>5, <1>7
  <2>3. \A u \in Lower : \A x : u # TopSlot /\ Up(u) # TopSlot /\ x # NoPage /\ NodeAt(p, Up(u)) = x =>
             Cut(gone'[p], node'[x][Idx(u)]) = Cut(gone[p], node[x][Idx(u)])
    BY <1>5
  <2> QED BY ONLY p \in Procs, <2>1, <2>2, <2>3, <1>14, TreeEdit
<1>16. Phase(p)' /\ Chain(p)'
  BY <1>5, <1>6, <1>7, <1>8 DEF Phase, Chain
<1>17. TopSlot \in Slots /\ NodeAt(p, TopSlot) = NoPage
  BY <1>10, SlotFacts
<1>18. gone'[p] = {} /\ walk'[p].frame = walk[p].frame /\ node'[q] = node[q]
  BY <1>5, <1>7, <1>8
<1> QED BY <1>2, <1>3, <1>5, <1>6, <1>7, <1>9, <1>13, <1>15, <1>16, <1>17, <1>18, NodeAdded

(* A walk that has nothing below some level: the entry it will fill.       *)
LEMMA MissingIs ==
  ASSUME MemInv, NEW p \in Procs, walk[p].op = "set", gone[p] = {}, NodeAt(p, S3(p)) = NoPage
  PROVE  \E e \in {S1, S2(p), S3(p)} :
           /\ e \in Lower /\ NodeAt(p, e) = NoPage /\ NodeAt(p, Up(e)) \in Pages
           /\ Missing(root[p], walk[p].va) = <<NodeAt(p, Up(e)), Idx(e)>>
           /\ e = S1 => NodeAt(p, S2(p)) = NoPage
           /\ e # S1 => NodeAt(p, S1) # NoPage
           /\ e = S2(p) => Up(e) = S1 /\ Idx(e) = walk[p].va[1]
           /\ e = S3(p) => NodeAt(p, S2(p)) # NoPage
<1>1. TreeTypes /\ Phase(p) /\ Top(p) = root[p] /\ root[p] \in Pages
  BY AtFacts DEF MemInv, Trees
<1>2. PICK va : va = walk[p].va
  OBVIOUS
<1>3. va \in IndexPath
  BY <1>1, <1>2, PathFacts DEF Phase
<1>4. S1 \in Lower /\ S2(p) \in Lower /\ S3(p) \in Lower /\ S2(p) = <<2, va[1], 0>> /\ S3(p) = SlotOf(va)
  BY <1>2, <1>3, PathFacts DEF S2, S3, SlotOf
<1>5. /\ Up(S1) = TopSlot /\ Idx(S1) = 0 /\ Up(S2(p)) = S1 /\ Idx(S2(p)) = va[1]
      /\ Up(S3(p)) = S2(p) /\ Idx(S3(p)) = va[2]
  BY <1>4 DEF Up, Idx, S1, TopSlot, SlotOf
<1>6. Pdp(root[p]) = NodeAt(p, S1) /\ Pd(root[p], va) = NodeAt(p, S2(p)) /\ NodeAt(p, TopSlot) = root[p]
  BY <1>1, <1>3, <1>4, WalkIs, NodeStep
<1>7. NodeAt(p, S1) \in Pages \cup {NoPage} /\ NodeAt(p, S2(p)) \in Pages \cup {NoPage}
  BY <1>1, <1>4, NodeType, SlotFacts
<1>8. NodeAt(p, S1) = NoPage => NodeAt(p, S2(p)) = NoPage
  BY <1>1, <1>4, <1>5, NodeType, NoPageFacts
<1>9. S1 # S2(p) /\ S1 # S3(p) /\ S2(p) # S3(p)
  <2>1. S1[1] = 1 /\ S2(p)[1] = 2 /\ S3(p)[1] = 3
    BY DEF S1, S2, S3
  <2> QED BY <2>1
<1>10. CASE NodeAt(p, S1) = NoPage
  <2>1. Missing(root[p], walk[p].va) = <<NodeAt(p, Up(S1)), Idx(S1)>>
    BY <1>2, <1>5, <1>6, <1>10 DEF Missing
  <2> QED BY <2>1, <1>1, <1>4, <1>5, <1>6, <1>8, <1>9, <1>10
<1>11. CASE NodeAt(p, S1) # NoPage /\ NodeAt(p, S2(p)) = NoPage
  <2>1. Missing(root[p], walk[p].va) = <<NodeAt(p, Up(S2(p))), Idx(S2(p))>>
    BY <1>2, <1>5, <1>6, <1>11 DEF Missing
  <2> QED BY <2>1, <1>2, <1>4, <1>5, <1>7, <1>9, <1>11
<1>12. CASE NodeAt(p, S1) # NoPage /\ NodeAt(p, S2(p)) # NoPage
  <2>1. Missing(root[p], walk[p].va) = <<NodeAt(p, Up(S3(p))), Idx(S3(p))>>
    BY <1>2, <1>5, <1>6, <1>12 DEF Missing
  <2> QED BY <2>1, <1>4, <1>5, <1>7, <1>9, <1>12
<1> QED BY <1>10, <1>11, <1>12

-----------------------------------------------------------------------------
(* The levels above slot e stay, where no other entry changes.             *)
LEMMA AboveStays ==
  ASSUME NEW p \in Procs, NEW e \in Slots,
         TopSlot # e => Top(p)' = Top(p),
         \A u \in Lower : \A q : u # e /\ Up(u) # e /\ q # NoPage /\ NodeAt(p, Up(u)) = q =>
           Cut(gone'[p], node'[q][Idx(u)]) = Cut(gone[p], node[q][Idx(u)])
  PROVE  \A s \in Slots : s[1] < e[1] => NodeAt(p, s)' = NodeAt(p, s)
<1> DEFINE Same(s) == s[1] < e[1] => NodeAt(p, s)' = NodeAt(p, s)
<1>0. e[1] \in 0..3 /\ \A s \in Slots : s[1] \in 0..3
  BY SlotFacts
<1>1. ASSUME NEW s \in Lower, Same(Up(s)) PROVE Same(s)
  <2> SUFFICES ASSUME s[1] < e[1] PROVE NodeAt(p, s)' = NodeAt(p, s)
    OBVIOUS
  <2>0. s \in Slots /\ Up(s) \in Slots /\ Up(s)[1] = s[1] - 1
    BY SlotFacts
  <2>1. Up(s)[1] < e[1] /\ s # e /\ Up(s) # e
    BY <1>0, <2>0
  <2>2. PICK q : q = NodeAt(p, Up(s))
    OBVIOUS
  <2>3. NodeAt(p, Up(s))' = q
    BY <1>1, <2>1, <2>2
  <2>4. NodeAt(p, s) = Live(p, Down(q, Idx(s)))
    BY NodeStep, <2>2 DEF Hang
  <2>5. NodeAt(p, s)' = Live(p, Down(q, Idx(s)))'
    BY NodeStepNext, <2>3 DEF Hang
  <2>6. CASE q = NoPage
    <3>1. NodeAt(p, Up(s)) = NoPage
      BY <2>2, <2>6
    <3> QED BY <2>4, <2>5, <2>6, NoPageFacts DEF Down, Live
  <2>7. CASE q # NoPage
    <3>1. Cut(gone'[p], node'[q][Idx(s)]) = Cut(gone[p], node[q][Idx(s)])
      BY <2>1, <2>2, <2>7
    <3> QED BY <2>4, <2>5, <2>7, <3>1 DEF Down, Live, Cut
  <2> QED BY <2>6, <2>7
<1>2. \A s \in Slots : s[1] = 0 => Same(s)
  BY <1>0, NodeStep, NodeStepNext, SlotFacts
<1>3. \A s \in Slots : s[1] = 1 => Same(s)
  BY <1>1, <1>2, SlotFacts DEF Lower
<1>4. \A s \in Slots : s[1] = 2 => Same(s)
  BY <1>1, <1>3, SlotFacts DEF Lower
<1>5. \A s \in Slots : s[1] = 3 => Same(s)
  BY <1>1, <1>4, SlotFacts DEF Lower
<1> QED BY <1>0, <1>2, <1>3, <1>4, <1>5

(* An entry of the tree of p changes: the other entries do not.            *)
LEMMA OtherEntries ==
  ASSUME TreeTypes, Injective, NEW p \in Procs, NEW e \in Lower, NEW x \in Pages, x = NodeAt(p, Up(e)),
         \A y \in Pages : \A j \in Index : y # x \/ j # Idx(e) => node'[y][j] = node[y][j],
         NEW u \in Lower, u # e, NEW y, y # NoPage, NodeAt(p, Up(u)) = y
  PROVE  node'[y][Idx(u)] = node[y][Idx(u)]
<1>1. Up(e) \in Slots /\ Up(u) \in Slots /\ Idx(e) \in Index /\ Idx(u) \in Index
  BY SlotFacts
<1>2. y \in Pages
  BY <1>1, NodeType
<1>3. CASE y = x
  <2>1. Up(u) = Up(e)
    BY <1>1, <1>3, <1>2 DEF Injective
  <2>2. Idx(u) # Idx(e)
    BY <2>1, SlotFacts
  <2> QED BY <1>1, <1>2, <1>3, <2>2
<1>4. CASE y # x
  BY <1>1, <1>2, <1>4
<1> QED BY <1>3, <1>4

-----------------------------------------------------------------------------
(* Sequences of one and two elements.                                      *)
LEMMA ShortSeqs ==
  ASSUME NEW S, NEW c \in S, NEW d \in S
  PROVE  /\ Len(<<c>>) = 1 /\ Len(<<c, d>>) = 2
         /\ Append(<<c>>, d) = <<c, d>>
         /\ Last(<<c>>) = c /\ Last(<<c, d>>) = d /\ Front(<<c, d>>) = <<c>>
<1>1. Len(<<c>>) = 1 /\ Len(<<c, d>>) = 2 /\ <<c>> \in Seq(S) /\ <<c, d>> \in Seq(S)
  OBVIOUS
<1>2. Append(<<c>>, d) = <<c, d>>
  <2>1. PICK s : s = Append(<<c>>, d)
    OBVIOUS
  <2>2. s \in Seq(S) /\ Len(s) = 2 /\ s[1] = c /\ s[2] = d
    BY <1>1, <2>1
  <2>3. PICK t : t = <<c, d>>
    OBVIOUS
  <2>4. t \in Seq(S) /\ Len(t) = 2 /\ t[1] = c /\ t[2] = d
    BY <2>3
  <2>5. \A i \in 1..Len(s) : s[i] = t[i]
    BY <2>2, <2>4
  <2> QED BY <2>1, <2>2, <2>3, <2>4, <2>5, SeqEqual
<1>3. Last(<<c>>) = c /\ Last(<<c, d>>) = d
  BY <1>1 DEF Last
<1>4. Front(<<c, d>>) = <<c>>
  <2>1. PICK s : s = Front(<<c, d>>)
    OBVIOUS
  <2>2. s = SubSeq(<<c, d>>, 1, 1)
    BY <1>1, <2>1 DEF Front
  <2>3. s \in Seq(S) /\ Len(s) = 1 /\ s[1] = c
    BY <2>2
  <2>4. PICK t : t = <<c>>
    OBVIOUS
  <2>5. t \in Seq(S) /\ Len(t) = 1 /\ t[1] = c
    BY <2>4
  <2>6. \A i \in 1..Len(s) : s[i] = t[i]
    BY <2>3, <2>5
  <2> QED BY <2>1, <2>3, <2>4, <2>5, <2>6, SeqEqual
<1> QED BY <1>1, <1>2, <1>3, <1>4

(* What a walk has made so far is short, and one more page fits.           *)
LEMMA MadeFits ==
  ASSUME TreeTypes, NEW p \in Procs, walk[p].op = "set", Phase(p), Growing(p), NEW q \in Pages
  PROVE  /\ Append(walk[p].made, q) \in BoundedSeq(Pages, 3)
         /\ walk[p].made = <<>> => Append(walk[p].made, q) = <<q>>
         /\ \A c : walk[p].made = <<c>> => Append(walk[p].made, q) = <<c, q>>
<1>1. PICK m : m = walk[p].made
  OBVIOUS
<1>2. m \in Seq(Pages)
  BY <1>1, MadeSeqs DEF TreeTypes, Walks
<1>3. Len(m) <= 2
  <2>1. PICK c, d : m = <<>> \/ m = <<c>> \/ m = <<d>> \/ m = <<c, d>>
    BY <1>1 DEF Growing
  <2>2. CASE m = <<>>
    BY <2>2
  <2>3. CASE m = <<c>>
    BY <2>3
  <2>4. CASE m = <<d>>
    BY <2>4
  <2>5. CASE m = <<c, d>>
    BY <2>5
  <2> QED BY <2>1, <2>2, <2>3, <2>4, <2>5
<1>4. Append(m, q) \in Seq(Pages) /\ Len(Append(m, q)) <= 3
  BY <1>2, <1>3
<1>5. Append(m, q) \in BoundedSeq(Pages, 3)
  BY <1>4, MadeSeqs
<1>6. m = <<>> => Append(m, q) = <<q>>
  OBVIOUS
<1>7. ASSUME NEW c, m = <<c>> PROVE Append(m, q) = <<c, q>>
  <2>1. c \in Pages
    <3>1. Len(m) = 1 /\ m[1] = c
      BY <1>7
    <3>2. 1 \in 1..Len(m)
      BY <3>1
    <3> QED BY <3>1, <3>2, <1>2, ElementOfSeq
  <2>2. Append(<<c>>, q) = <<c, q>>
    BY <2>1, ShortSeqs
  <2> QED BY <1>7, <2>2
<1> QED BY <1>1, <1>5, <1>6, <1>7

(* A walk gets the node it was missing.                                    *)
LEMMA GrownKeeps ==
  ASSUME MemInv, NEW p \in Procs, UNCHANGED <<heapVars, load>>, GotPage(p), Grown(p)
  PROVE  MemInv' /\ SameMap(p) /\ OnlyBy(p)
<1>1. p \in Actors /\ PoolTypes /\ TreeTypes /\ Phase(p) /\ Chain(p) /\ Injective
  BY ActorFacts DEF MemInv, Trees
<1>2. at[p] = "got" /\ walk[p].op = "set" /\ hand[p] # {}
  BY DEF GotPage, Grown
<1>3. PICK q \in Pages : hand[p] = {q}
  BY <1>1, <1>2 DEF Phase
<1>4. Min(hand[p]) = q
  BY <1>3, MinOne, NoPageFacts
<1>5. gone[p] = {} /\ NodeAt(p, S3(p)) = NoPage /\ Growing(p) /\ FrameAt(p, walk[p].va) = NoPage
      /\ Top(p) = root[p] /\ root[p] \in Pages /\ walk[p].root = NoPage
  BY <1>1, <1>2, AtFacts DEF Chain
<1>6. PICK e \in {S1, S2(p), S3(p)} :
           /\ e \in Lower /\ NodeAt(p, e) = NoPage /\ NodeAt(p, Up(e)) \in Pages
           /\ Missing(root[p], walk[p].va) = <<NodeAt(p, Up(e)), Idx(e)>>
           /\ e = S1 => NodeAt(p, S2(p)) = NoPage
           /\ e # S1 => NodeAt(p, S1) # NoPage
           /\ e = S2(p) => Up(e) = S1 /\ Idx(e) = walk[p].va[1]
           /\ e = S3(p) => NodeAt(p, S2(p)) # NoPage
  BY <1>2, <1>5, MissingIs
<1>7. PICK x, i, m, m1 : x = NodeAt(p, Up(e)) /\ i = Idx(e) /\ m = walk[p].made /\
        m1 = Append(walk[p].made, q)
  OBVIOUS
<1>8. /\ used' = used /\ poolLock' = poolLock /\ hand' = [hand EXCEPT ![p] = {}] /\
           at' = [at EXCEPT ![p] = "walk"]
      /\ root' = root /\ node' = [node EXCEPT ![x][i] = q] /\ pte' = pte /\ frames' = frames
      /\ walk' = [walk EXCEPT ![p].made = m1]
      /\ gone' = gone /\ running' = running /\ cr3' = cr3 /\ tlb' = tlb
      /\ arena' = arena /\ load' = load
  <2>1. Missing(root[p], walk[p].va)[1] = x /\ Missing(root[p], walk[p].va)[2] = i
    BY <1>6, <1>7
  <2>2. node' = [node EXCEPT ![x][i] = q]
    BY <1>4, <2>1 DEF GotPage, Grown
  <2> QED BY <1>4, <1>7, <2>2 DEF GotPage, Grown, Goto, heapVars
<1>9. x \in Pages /\ i \in Index /\ e \in Slots /\ Up(e) \in Slots /\ e # TopSlot /\ Up(e)[1] < e[1]
  BY <1>6, <1>7, SlotFacts
<1>10. /\ q # NoPage /\ (\A r \in Procs : \A s \in Slots : NodeAt(r, s) # q)
       /\ node[q] = EmptyNode /\ pte[q] = EmptyTable
  BY <1>1, <1>2, <1>3, InHandFree
<1>11. q # x /\ node'[q] = node[q]
  BY <1>1, <1>7, <1>8, <1>9, <1>10 DEF TreeTypes
<1>12. PoolTypes' /\ at'[p] = "walk" /\ hand'[p] = {}
  BY <1>8, <1>1 DEF PoolTypes, Places
<1>13. m1 \in BoundedSeq(Pages, 3) /\ (m = <<>> => m1 = <<q>>) /\ (\A c : m = <<c>> => m1 = <<c, q>>)
  BY <1>1, <1>2, <1>5, <1>7, MadeFits
<1>14. walk'[p] = [walk[p] EXCEPT !.made = m1] /\ walk'[p] \in Walks
  BY <1>1, <1>8, <1>13 DEF TreeTypes, Walks
<1>15. /\ walk'[p].op = "set" /\ walk'[p].va = walk[p].va /\ walk'[p].frame = walk[p].frame
       /\ walk'[p].root = walk[p].root /\ walk'[p].made = m1
  BY <1>1, <1>2, <1>14 DEF TreeTypes, Walks
<1>16. TreeTypes'
  <2>1. node' \in [Pages -> [Index -> Pages \cup {NoPage}]]
    BY <1>1, <1>8, <1>9 DEF TreeTypes
  <2>2. walk' \in [Procs -> Walks]
    BY <1>1, <1>8, <1>14 DEF TreeTypes
  <2> QED BY <1>1, <1>8, <2>1, <2>2 DEF TreeTypes
<1>17. OnlyBy(p)
  <2>1. ASSUME NEW y \in Pages, \A s \in Slots : NodeAt(p, s) # y PROVE node'[y] = node[y] /\
                 pte'[y] = pte[y]
    <3>1. y # x
      BY <2>1, <1>7, <1>9
    <3> QED BY <3>1, <1>1, <1>8, <1>9 DEF TreeTypes
  <2> QED BY <2>1, <1>1, <1>8 DEF OnlyBy, PoolTypes, TreeTypes
<1>18. Top(p)' = Top(p)
  BY <1>5, <1>8 DEF Top, Live
<1>19. gone'[p] = {}
  BY <1>5, <1>8
<1>20. \A u \in Lower : \A y : u # e /\ Up(u) # e /\ y # NoPage /\ NodeAt(p, Up(u)) = y =>
             Cut(gone'[p], node'[y][Idx(u)]) = Cut(gone[p], node[y][Idx(u)])
  <2>1. ASSUME NEW u \in Lower, NEW y, u # e, y # NoPage,
                 NodeAt(p, Up(u)) = y PROVE node'[y][Idx(u)] = node[y][Idx(u)]
    <3>1. x = NodeAt(p, Up(e)) /\ e \in Lower /\ x \in Pages
      BY <1>6, <1>7
    <3>2. \A z \in Pages : \A j \in Index : z # x \/ j # Idx(e) => node'[z][j] = node[z][j]
      BY <1>1, <1>7, <1>8, <1>9 DEF TreeTypes
    <3> QED BY <2>1, <1>1, <3>1, <3>2, OtherEntries
  <2> QED BY <2>1, <1>5, <1>19
<1>21. NodeAt(p, Up(e))' = x
  <2>1. \A s \in Slots : s[1] < e[1] => NodeAt(p, s)' = NodeAt(p, s)
    BY ONLY p \in Procs, <1>9, <1>18, <1>20, AboveStays
  <2> QED BY <2>1, <1>7, <1>9
<1>22. NodeAt(p, e)' = q
  <2>1. NodeAt(p, e)' = Live(p, Hang(p, e))'
    BY <1>6, NodeStepNext
  <2>2. Hang(p, e)' = node'[x][i]
    BY <1>21, <1>9, <1>7, NoPageFacts DEF Hang, Down
  <2>3. node'[x][i] = q
    BY <1>1, <1>8, <1>9 DEF TreeTypes
  <2> QED BY <2>1, <2>2, <2>3, <1>19 DEF Live
<1>23. \A u \in Lower : Up(u) = e => NodeAt(p, u) = NoPage
  BY <1>1, <1>6, NodeType, NoPageFacts
<1>24. \A u \in Lower : Up(u) = e => NodeAt(p, u)' = NoPage
  <2> SUFFICES ASSUME NEW u \in Lower, Up(u) = e PROVE NodeAt(p, u)' = NoPage
    OBVIOUS
  <2>1. NodeAt(p, u)' = Live(p, Hang(p, u))'
    BY NodeStepNext
  <2>2. Hang(p, u)' = node'[q][Idx(u)]
    BY <1>22, <1>10 DEF Hang, Down
  <2>3. node'[q][Idx(u)] = NoPage
    BY <1>10, <1>11, SlotFacts DEF EmptyNode
  <2> QED BY <2>1, <2>2, <2>3 DEF Live
<1>25. \A s \in Slots : s # e => NodeAt(p, s)' = NodeAt(p, s)
  <2>1. NoPage \notin gone[p] /\ NoPage \notin gone'[p]
    BY <1>5, <1>19
  <2> QED BY ONLY p \in Procs, <2>1, <1>18, <1>20, <1>23, <1>24, TreeEdit
<1>26. Phase(p)'
  BY <1>1, <1>2, <1>5, <1>8, <1>12, <1>15, <1>19 DEF Phase
<1>27. NodeAt(p, S3(p))' = NoPage => Growing(p)'
  <2>0. S1 \in Slots /\ S2(p) \in Slots /\ S3(p) \in Slots /\ S1 # S2(p) /\ S1 # S3(p) /\ S2(p) # S3(p)
        /\ walk[p].va[1] \in Index
    <3>1. walk[p].va \in IndexPath
      BY <1>1, <1>2, PathFacts DEF Phase
    <3>2. S1[1] = 1 /\ S2(p)[1] = 2 /\ S3(p)[1] = 3
      BY DEF S1, S2, S3
    <3> QED BY <3>1, <3>2, PathFacts DEF S2, S3, SlotOf
  <2>1. PICK c1, c2, s2, s3, a : c1 = NodeAt(p, S1) /\ c2 = NodeAt(p, S2(p)) /\ s2 = S2(p) /\
          s3 = S3(p) /\ a = walk[p].va[1]
    OBVIOUS
  <2>2. S2(p)' = s2 /\ S3(p)' = s3 /\ walk'[p].va[1] = a
    BY <2>1, <1>15 DEF S2, S3
  <2>3. node'[q] = EmptyNode /\ pte'[q] = EmptyTable /\ q # NoPage
    BY <1>8, <1>10, <1>11
  <2>4. m = <<>> \/ (m = <<c1>> /\ Fresh(c1)) \/ (m = <<c2>> /\ Fresh(c2))
        \/ (m = <<c1, c2>> /\ Fresh(c2) /\ Only(c1, a))
    BY <2>1, <1>5, <1>7 DEF Growing
  <2>5. CASE e = S1
    <3>1. c1 = NoPage /\ c2 = NoPage
      BY <2>1, <2>5, <1>6
    <3>2. m = <<>>
      BY <2>4, <3>1 DEF Fresh
    <3>3. NodeAt(p, S1)' = q /\ m1 = <<q>>
      BY <2>5, <3>2, <1>13, <1>22
    <3> QED BY <2>3, <3>3, <1>15 DEF Growing, Fresh
  <2>6. CASE e = S2(p)
    <3>1. c2 = NoPage /\ c1 # NoPage
      BY <2>0, <2>1, <2>6, <1>6
    <3>2. m = <<>> \/ (m = <<c1>> /\ Fresh(c1))
      BY <2>4, <3>1 DEF Fresh
    <3>3. NodeAt(p, S2(p))' = q
      BY <2>1, <2>2, <2>6, <1>22
    <3>4. NodeAt(p, S1)' = c1
      BY <2>0, <2>1, <2>6, <1>25
    <3>5. CASE m = <<>>
      BY <3>3, <3>5, <2>3, <1>13, <1>15 DEF Growing, Fresh
    <3>6. CASE m = <<c1>> /\ Fresh(c1)
      <4>1. m1 = <<c1, q>>
        BY <3>6, <1>13
      <4>2. c1 = x /\ a = i
        BY <2>1, <2>6, <1>6, <1>7
      <4>3. node[c1] = EmptyNode /\ pte'[c1] = EmptyTable
        BY <3>6, <1>8 DEF Fresh
      <4>4. node'[c1] = [EmptyNode EXCEPT ![a] = q] /\ node'[c1][a] = q
        BY <4>2, <4>3, <1>1, <1>8, <1>9 DEF TreeTypes
      <4>5. node'[c1] = [EmptyNode EXCEPT ![walk'[p].va[1]] = node'[c1][walk'[p].va[1]]]
        BY <4>4, <2>2
      <4> QED BY <3>1, <3>3, <3>4, <4>1, <4>3, <4>5, <2>3, <1>15 DEF Growing, Fresh, Only
    <3> QED BY <3>2, <3>5, <3>6
  <2>7. CASE e = S3(p)
    BY <2>1, <2>2, <2>7, <1>10, <1>22
  <2> QED BY <2>5, <2>6, <2>7, <1>6
<1>28. (\A va \in IndexPath : FrameAt(p, va)' = FrameAt(p, va)) => Phase(p)' /\ Chain(p)'
  <2> SUFFICES ASSUME \A va \in IndexPath : FrameAt(p, va)' = FrameAt(p, va) PROVE Chain(p)'
    BY <1>26
  <2>1. walk[p].va \in IndexPath
    BY <1>1, <1>2, PathFacts DEF Phase
  <2>2. PICK va : va = walk[p].va
    OBVIOUS
  <2>3. FrameAt(p, walk[p].va)' = NoPage
    BY <2>1, <2>2, <1>5, <1>15
  <2> QED BY <2>3, <1>12, <1>15, <1>27 DEF Chain
<1> QED BY <1>2, <1>3, <1>5, <1>6, <1>8, <1>9, <1>11, <1>12, <1>15, <1>16, <1>17, <1>19, <1>22,
             <1>25, <1>28, NodeAdded

-----------------------------------------------------------------------------
(* A node without entries has nothing below it.                            *)
LEMMA EmptyIsLeaf ==
  ASSUME TreeTypes, NEW p \in Procs, NEW s \in Slots, NEW v, v = NodeAt(p, s), v # NoPage,
         node[v] = EmptyNode, pte[v] = EmptyTable
  PROVE  Leaf(p, s)
<1>1. ASSUME NEW u \in Lower, Up(u) = s PROVE NodeAt(p, u) = NoPage
  <2>1. Hang(p, u) = NoPage
    BY <1>1, SlotFacts DEF Hang, Down, EmptyNode
  <2> QED BY <2>1, NodeStep DEF Live
<1>2. ASSUME s[1] = 3, NEW i \in Index PROVE FrameAt(p, <<s[2], s[3], i>>) = NoPage
  <2>1. PICK va : va = <<s[2], s[3], i>>
    OBVIOUS
  <2>2. va \in IndexPath /\ SlotOf(va) = s /\ va[3] = i
    BY <2>1, <1>2, SlotFacts DEF IndexPath, SlotOf
  <2>3. ~pte[v][i].present
    BY <1>2 DEF EmptyTable, NoPte
  <2>4. FrameAt(p, va) = NoPage
    BY <2>2, <2>3, FrameIs
  <2> QED BY <2>1, <2>4
<1> QED BY <1>1, <1>2 DEF Leaf

(* A leaf of the tree is handed over to palloc_free_page.                  *)
LEMMA HandOver ==
  ASSUME MemInv, NEW p \in Procs, NEW s \in Slots, NEW v, v = NodeAt(p, s), v # NoPage, Leaf(p, s),
         UNCHANGED <<heapVars, load, used, poolLock, tableVars>>,
         hand' = [hand EXCEPT ![p] = {v}], at' = [at EXCEPT ![p] = "fill"],
         at[p] \in {"unwind", "destroy"}, Chain(p)'
  PROVE  MemInv'
<1>1. /\ used' = used /\ poolLock' = poolLock
      /\ root' = root /\ node' = node /\ pte' = pte /\ frames' = frames /\ walk' = walk
      /\ gone' = gone /\ running' = running /\ cr3' = cr3 /\ tlb' = tlb
      /\ arena' = arena /\ load' = load
  BY DEF heapVars, tableVars
<1>2. p \in Actors /\ PoolTypes /\ TreeTypes /\ Phase(p) /\ FrameInv /\ PteFrames
  BY ActorFacts DEF MemInv, Trees, PteFrames
<1>3. v \in Pages
  BY <1>2, NodeType
<1>4. PoolTypes' /\ at'[p] = "fill" /\ hand'[p] = {v}
  BY <1>1, <1>2, <1>3 DEF PoolTypes, Places, PoolPlaces
<1>5. InHand(p) = {} /\ Freeing(p) = {} /\ InHand(p)' = {v} /\ Freeing(p)' = {v}
  BY <1>2, <1>4, AtFacts DEF InHand, Freeing
<1>6. TreeTypes' /\ OnlyBy(p) /\ PteFrames'
  BY <1>1, <1>2 DEF TreeTypes, OnlyBy, PoolTypes, PteFrames
<1>7. Top(p)' = Top(p)
  BY <1>1 DEF Top, Live
<1>8. /\ \A u \in Slots : NodeAt(p, u)' = NodeAt(p, u)
      /\ \A va \in IndexPath : FrameAt(p, va)' = FrameAt(p, va)
  BY <1>1, <1>7, TreeQuiet
<1>9. Phase(p)'
  BY <1>1, <1>2, <1>4, AtFacts DEF Phase
<1>10. Leaf(p, s)'
  <2>1. ASSUME NEW u \in Lower, Up(u) = s PROVE NodeAt(p, u)' = NoPage
    BY <2>1, <1>8, SlotFacts DEF Leaf
  <2>2. ASSUME s[1] = 3, NEW i \in Index PROVE FrameAt(p, <<s[2], s[3], i>>)' = NoPage
    <3>1. <<s[2], s[3], i>> \in IndexPath
      BY SlotFacts DEF IndexPath
    <3> QED BY <3>1, <2>2, <1>8 DEF Leaf
  <2> QED BY <2>1, <2>2 DEF Leaf
<1>11. Victim(p)'
  <2>1. NodeAt(p, s)' = v
    BY <1>8
  <2> QED BY <2>1, <1>4, <1>10 DEF Victim
<1>12. FrameInv'
  <2>1. \A q \in Procs : \A va \in IndexPath : FrameAt(q, va)' = FrameAt(q, va)
    BY <1>6, <1>8, OthersAfter
  <2> QED BY <1>1, <1>2, <2>1, FrameInvStays
<1>13. TreePages(p)' = TreePages(p) \ {v} /\ v \in TreePages(p)
  BY <1>5, <1>8 DEF TreePages
<1> QED BY <1>1, <1>4, <1>5, <1>6, <1>8, <1>9, <1>11, <1>12, <1>13, QuietStep

(* The last node that a walk has made is a leaf.                           *)
LEMMA LastMade ==
  ASSUME TreeTypes, NEW p \in Procs, Phase(p), walk[p].op = "set", Growing(p), walk[p].made # <<>>
  PROVE  /\ \E s \in {S1, S2(p)} :
              /\ s \in Lower /\ s \in Slots /\ NodeAt(p, s) = Last(walk[p].made)
              /\ NodeAt(p, s) # NoPage /\ Leaf(p, s)
              /\ Len(walk[p].made) = 1 \/
                 (s = S2(p) /\ walk[p].made = <<NodeAt(p, S1), NodeAt(p, s)>> /\
                   Only(NodeAt(p, S1), walk[p].va[1]))
<1>1. walk[p].va \in IndexPath
  BY PathFacts DEF Phase
<1>2. S1 \in Lower /\ S2(p) \in Lower /\ S1 \in Slots /\ S2(p) \in Slots
  BY <1>1, PathFacts DEF S2
<1>3. PICK c1, c2, m : c1 = NodeAt(p, S1) /\ c2 = NodeAt(p, S2(p)) /\ m = walk[p].made
  OBVIOUS
<1>4. c1 \in Pages \cup {NoPage} /\ c2 \in Pages \cup {NoPage}
  BY <1>2, <1>3, NodeType
<1>5. (m = <<c1>> /\ Fresh(c1)) \/ (m = <<c2>> /\ Fresh(c2)) \/
        (m = <<c1, c2>> /\ Fresh(c2) /\ Only(c1, walk[p].va[1]))
  BY <1>3 DEF Growing
<1>6. CASE m = <<c1>> /\ Fresh(c1)
  <2>1. Last(m) = c1 /\ Len(m) = 1
    BY <1>4, <1>6, ShortSeqs
  <2>2. Leaf(p, S1)
    BY <1>2, <1>3, <1>6, EmptyIsLeaf DEF Fresh
  <2> QED BY <2>1, <2>2, <1>2, <1>3, <1>6 DEF Fresh
<1>7. CASE m = <<c2>> /\ Fresh(c2)
  <2>1. Last(m) = c2 /\ Len(m) = 1
    BY <1>4, <1>7, ShortSeqs
  <2>2. Leaf(p, S2(p))
    BY <1>2, <1>3, <1>7, EmptyIsLeaf DEF Fresh
  <2> QED BY <2>1, <2>2, <1>2, <1>3, <1>7 DEF Fresh
<1>8. CASE m = <<c1, c2>> /\ Fresh(c2) /\ Only(c1, walk[p].va[1])
  <2>1. Last(m) = c2
    BY <1>4, <1>8, ShortSeqs
  <2>2. Leaf(p, S2(p))
    BY <1>2, <1>3, <1>8, EmptyIsLeaf DEF Fresh
  <2> QED BY <2>1, <2>2, <1>2, <1>3, <1>8 DEF Fresh
<1> QED BY <1>5, <1>6, <1>7, <1>8

(* The step of pml4e_walk or pdpe_walk that gives back a table keeps       *)
(* MemInv.                                                                 *)
LEMMA UnwindKeeps ==
  ASSUME MemInv, NEW p \in Procs, UNCHANGED <<heapVars, load>>, Unwind(p)
  PROVE  MemInv'
<1>1. /\ at[p] = "unwind" /\ hand' = [hand EXCEPT ![p] = {Last(walk[p].made)}] /\
           at' = [at EXCEPT ![p] = "fill"]
      /\ UNCHANGED <<heapVars, load, used, poolLock, tableVars>>
  BY DEF Unwind, Goto
<1>2. p \in Actors /\ PoolTypes /\ TreeTypes /\ Phase(p) /\ Chain(p)
  BY ActorFacts DEF MemInv, Trees
<1>3. walk[p].op = "set"
  BY <1>1, AtFacts
<1>4. walk[p].made # <<>> /\ Growing(p) /\ NodeAt(p, S3(p)) = NoPage /\ FrameAt(p, walk[p].va) = NoPage
  BY <1>1, <1>2, <1>3 DEF Chain
<1>5. PICK s \in {S1, S2(p)} : s \in Slots /\ NodeAt(p, s) = Last(walk[p].made)
              /\ NodeAt(p, s) # NoPage /\ Leaf(p, s)
  BY <1>2, <1>3, <1>4, LastMade
<1>6. walk' = walk /\ node' = node /\ pte' = pte /\ gone' = gone /\ root' = root
  BY <1>1 DEF tableVars
<1>7. Chain(p)'
  <2>1. FrameAt(p, walk[p].va)' = NoPage /\ NodeAt(p, S3(p))' = NoPage /\ Growing(p)'
    BY <1>3, <1>4, <1>6, ChainStays
  <2>2. at'[p] = "fill" /\ hand'[p] = {Last(walk[p].made)}
    BY <1>1, <1>2 DEF PoolTypes
  <2>3. hand'[p] = {Last(walk'[p].made)} /\ walk'[p].made # <<>>
    BY <2>2, <1>4, <1>6
  <2> QED BY <2>1, <2>2, <2>3 DEF Chain
<1>8. PICK v : v = Last(walk[p].made)
  OBVIOUS
<1> QED BY <1>1, <1>5, <1>7, <1>8, HandOver

-----------------------------------------------------------------------------
(* The processes that free a node, while they do.                          *)
LEMMA FreeingFacts ==
  ASSUME MemInv, NEW p \in Procs, at[p] \in {"fill", "clear"}
  PROVE  /\ walk[p].op \in {"set", "destroy"}
         /\ walk[p].op = "set" => gone[p] = {} /\ walk[p].made # <<>> /\ Growing(p)
                                  /\ NodeAt(p, S3(p)) = NoPage /\ FrameAt(p, walk[p].va) = NoPage
                                  /\ hand[p] = {Last(walk[p].made)}
<1>1. Phase(p) /\ Chain(p) /\ walk[p] \in Walks
  BY DEF MemInv, Trees, TreeTypes
<1>2. walk[p].op \in {"set", "destroy"}
  BY <1>1, NoPageFacts DEF Phase, Walks
<1> QED BY <1>1, <1>2 DEF Phase, Chain

(* palloc_free_page fills the node: nothing of the tree changes that       *)
(* anybody would find.                                                     *)
LEMMA FillKeeps ==
  ASSUME MemInv, NEW p \in Procs, UNCHANGED <<heapVars, load>>, FillNode(p)
  PROVE  MemInv' /\ SameMap(p) /\ OnlyBy(p)
<1>1. p \in Actors /\ PoolTypes /\ TreeTypes /\ Phase(p) /\ FrameInv /\ PteFrames /\ Chain(p) /\
        Victim(p) /\ Injective
  BY ActorFacts DEF MemInv, Trees, PteFrames
<1>2. at[p] = "fill"
  BY DEF FillNode, FreeFill
<1>3. PICK s \in Slots : NodeAt(p, s) # NoPage /\ hand[p] = {NodeAt(p, s)} /\ Leaf(p, s)
  BY <1>1, <1>2 DEF Victim
<1>4. PICK v : v = NodeAt(p, s)
  OBVIOUS
<1>5. v \in Pages /\ v # NoPage /\ hand[p] = {v} /\ v \notin gone[p]
  BY <1>1, <1>3, <1>4, NodeType
<1>6. /\ used' = used /\ poolLock' = poolLock /\ hand' = hand /\ at' = [at EXCEPT ![p] = "clear"]
      /\ root' = root /\ frames' = frames /\ walk' = walk
      /\ gone' = gone /\ running' = running /\ cr3' = cr3 /\ tlb' = tlb
      /\ arena' = arena /\ load' = load
  BY DEF FillNode, FreeFill, Goto, heapVars
<1>7. /\ \A q \in Pages : node'[q] = (IF q = v THEN EmptyNode ELSE node[q])
      /\ \A q \in Pages : pte'[q] = (IF q = v THEN EmptyTable ELSE pte[q])
  BY <1>5 DEF FillNode
<1>8. EmptyNode \in [Index -> Pages \cup {NoPage}] /\ EmptyTable \in [Index -> Ptes]
  BY DEF EmptyNode, EmptyTable, NoPte, Ptes
<1>9. TreeTypes'
  <2>1. node' = [q \in Pages |-> IF q \in hand[p] THEN EmptyNode ELSE node[q]]
        /\ pte' = [q \in Pages |-> IF q \in hand[p] THEN EmptyTable ELSE pte[q]]
    BY DEF FillNode
  <2>2. node' \in [Pages -> [Index -> Pages \cup {NoPage}]] /\ pte' \in [Pages -> [Index -> Ptes]]
    BY <1>1, <1>8, <2>1 DEF TreeTypes
  <2> QED BY <1>1, <1>6, <2>2 DEF TreeTypes
<1>10. PteFrames'
  BY <1>1, <1>7 DEF PteFrames, EmptyTable, NoPte
<1>11. PoolTypes' /\ at'[p] = "clear" /\ hand'[p] = {v}
  BY <1>1, <1>5, <1>6 DEF PoolTypes, Places, PoolPlaces
<1>12. OnlyBy(p)
  <2>1. ASSUME NEW q \in Pages, \A u \in Slots : NodeAt(p, u) # q PROVE node'[q] = node[q] /\
                 pte'[q] = pte[q]
    <3>1. q # v
      BY <2>1, <1>4
    <3> QED BY <3>1, <1>7
  <2> QED BY <2>1, <1>1, <1>6 DEF OnlyBy, PoolTypes
<1>13. Top(p)' = Top(p)
  BY <1>6 DEF Top, Live
<1>14. NoPage \notin gone[p] /\ NoPage \notin gone'[p] /\ gone'[p] = gone[p]
  BY <1>1, <1>6, NoPageFacts DEF TreeTypes
<1>15. ASSUME NEW u \in Slots, u # s, NEW y, y # NoPage, NodeAt(p, u) = y
       PROVE y \in Pages /\ node'[y] = node[y] /\ pte'[y] = pte[y]
  <2>1. y \in Pages
    BY <1>1, <1>15, NodeType
  <2>2. y # v
    BY <1>1, <1>4, <1>5, <1>15 DEF Injective
  <2> QED BY <2>1, <2>2, <1>7
<1>16. \A u \in Lower : \A y : u # s /\ Up(u) # s /\ y # NoPage /\ NodeAt(p, Up(u)) = y =>
             Cut(gone'[p], node'[y][Idx(u)]) = Cut(gone[p], node[y][Idx(u)])
  BY <1>14, <1>15, SlotFacts
<1>17. NodeAt(p, s)' = v
  <2>1. CASE s = TopSlot
    BY <2>1, <1>4, <1>13, NodeStep, NodeStepNext
  <2>2. CASE s # TopSlot
    <3>1. s \in Lower /\ Up(s) \in Slots /\ Up(s) # s /\ Up(s)[1] < s[1]
      BY <2>2, SlotFacts
    <3>2. PICK x : x = NodeAt(p, Up(s))
      OBVIOUS
    <3>3. NodeAt(p, Up(s))' = x
      <4>1. \A u \in Slots : u[1] < s[1] => NodeAt(p, u)' = NodeAt(p, u)
        BY ONLY p \in Procs, s \in Slots, <1>13, <1>16, AboveStays
      <4> QED BY <4>1, <3>1, <3>2
    <3>4. x \in Pages /\ v = node[x][Idx(s)]
      BY <1>1, <1>4, <1>5, <3>1, <3>2, NodeType
    <3>5. node'[x] = node[x] /\ x # NoPage
      BY <1>15, <3>1, <3>2, <3>4, NoPageFacts
    <3>6. Hang(p, s)' = v
      BY <3>3, <3>4, <3>5 DEF Hang, Down
    <3>7. NodeAt(p, s)' = Live(p, Hang(p, s))'
      BY <3>1, NodeStepNext
    <3> QED BY <3>6, <3>7, <1>5, <1>14 DEF Live
  <2> QED BY <2>1, <2>2
<1>18. \A u \in Slots : NodeAt(p, u)' = NodeAt(p, u)
  <2>1. \A u \in Lower : Up(u) = s => NodeAt(p, u) = NoPage
    BY <1>3 DEF Leaf
  <2>2. \A u \in Lower : Up(u) = s => NodeAt(p, u)' = NoPage
    <3> SUFFICES ASSUME NEW u \in Lower, Up(u) = s PROVE NodeAt(p, u)' = NoPage
      OBVIOUS
    <3>1. Hang(p, u)' = node'[v][Idx(u)]
      BY <1>17, <1>5 DEF Hang, Down
    <3>2. Hang(p, u)' = NoPage
      BY <3>1, <1>5, <1>7, SlotFacts DEF EmptyNode
    <3> QED BY <3>2, NodeStepNext DEF Live
  <2>3. \A u \in Slots : u # s => NodeAt(p, u)' = NodeAt(p, u)
    BY ONLY p \in Procs, <1>13, <1>14, <1>16, <2>1, <2>2, TreeEdit
  <2> QED BY <2>3, <1>17, <1>4
<1>19. ASSUME NEW va \in IndexPath PROVE FrameAt(p, va)' = FrameAt(p, va)
  <2>1. SlotOf(va) \in Slots /\ va[3] \in Index /\ va[1] \in Index /\ va[2] \in Index /\
          va = <<va[1], va[2], va[3]>>
        /\ SlotOf(va)[1] = 3 /\ SlotOf(va)[2] = va[1] /\ SlotOf(va)[3] = va[2]
    BY PathFacts
  <2>2. CASE SlotOf(va) = s
    <3>1. s[1] = 3 /\ va = <<s[2], s[3], va[3]>>
      BY <2>1, <2>2
    <3>2. FrameAt(p, va) = NoPage
      BY <3>1, <2>1, <1>3 DEF Leaf
    <3>3. ~pte'[v][va[3]].present
      BY <1>5, <1>7, <2>1 DEF EmptyTable, NoPte
    <3>4. FrameAt(p, va)' = NoPage
      BY <3>3, <2>2, <1>17, FrameIsNext
    <3> QED BY <3>2, <3>4
  <2>3. CASE SlotOf(va) # s
    <3>1. NodeAt(p, SlotOf(va))' = NodeAt(p, SlotOf(va))
      BY <2>1, <1>18
    <3>2. ASSUME NEW t, t # NoPage, NodeAt(p, SlotOf(va)) = t
          PROVE /\ pte'[t][va[3]].present = pte[t][va[3]].present
                /\ pte[t][va[3]].present => Live(p, pte[t][va[3]].frame)' = Live(p, pte[t][va[3]].frame)
      <4>1. pte'[t] = pte[t]
        BY <3>2, <2>1, <2>3, <1>15
      <4> QED BY <4>1, <1>14 DEF Live
    <3> QED BY <3>1, <3>2, FrameStays
  <2> QED BY <2>2, <2>3
<1>20. Phase(p)'
  BY <1>1, <1>2, <1>6, <1>11, FreeingFacts DEF Phase
<1>21. Victim(p)'
  <2>1. Leaf(p, s)'
    <3>1. ASSUME NEW u \in Lower, Up(u) = s PROVE NodeAt(p, u)' = NoPage
      BY <3>1, <1>18, <1>3, SlotFacts DEF Leaf
    <3>2. ASSUME s[1] = 3, NEW i \in Index PROVE FrameAt(p, <<s[2], s[3], i>>)' = NoPage
      <4>1. <<s[2], s[3], i>> \in IndexPath
        BY SlotFacts DEF IndexPath
      <4> QED BY <4>1, <3>2, <1>19, <1>3 DEF Leaf
    <3> QED BY <3>1, <3>2 DEF Leaf
  <2>2. node'[v] = EmptyNode /\ pte'[v] = EmptyTable
    BY <1>5, <1>7
  <2> QED BY <2>1, <2>2, <1>5, <1>11, <1>17 DEF Victim
<1>22. Chain(p)'
  <2> SUFFICES ASSUME walk[p].op = "set" PROVE Chain(p)'
    BY <1>6 DEF Chain
  <2>1. /\ gone[p] = {} /\ walk[p].made # <<>> /\ Growing(p)
        /\ NodeAt(p, S3(p)) = NoPage /\ FrameAt(p, walk[p].va) = NoPage
        /\ v = Last(walk[p].made) /\ walk[p].va \in IndexPath
    BY <1>1, <1>2, <1>5, FreeingFacts, PathFacts DEF Phase
  <2>2. S1 \in Slots /\ S2(p) \in Slots /\ S3(p) \in Slots
    BY <2>1, PathFacts DEF S2, S3, SlotOf
  <2>3. PICK c1, c2, s2, s3, va, m : /\ c1 = NodeAt(p, S1) /\ c2 = NodeAt(p, S2(p)) /\
                                          s2 = S2(p) /\ s3 = S3(p)
                                  /\ va = walk[p].va /\ m = walk[p].made
    OBVIOUS
  <2>4. S2(p)' = s2 /\ S3(p)' = s3 /\ walk'[p].va = va /\ walk'[p].made = m
    BY <1>6, <2>3 DEF S2, S3
  <2>5. NodeAt(p, S1)' = c1 /\ NodeAt(p, S2(p))' = c2 /\ NodeAt(p, S3(p))' = NoPage /\
          FrameAt(p, walk[p].va)' = NoPage
    BY <1>18, <1>19, <2>1, <2>2, <2>3, <2>4
  <2>6. c1 \in Pages \cup {NoPage} /\ c2 \in Pages \cup {NoPage}
    BY <1>1, <2>2, <2>3, NodeType
  <2>7. \A c \in Pages : node[c] = EmptyNode /\ pte[c] = EmptyTable => node'[c] = EmptyNode /\
          pte'[c] = EmptyTable
    BY <1>7
  <2>8. PICK a : a = walk[p].va[1] /\ walk'[p].va[1] = a
    BY <1>6
  <2>9. Growing(p)' <=> \/ m = <<>>
                        \/ m = <<c1>> /\ Fresh(c1)'
                        \/ m = <<c2>> /\ Fresh(c2)'
                        \/ m = <<c1, c2>> /\ Fresh(c2)' /\ Only(c1, a)'
    BY ONLY <2>4, <2>5, <2>8 DEF Growing, Fresh, Only
  <2>10. Growing(p) <=> \/ m = <<>>
                        \/ m = <<c1>> /\ Fresh(c1)
                        \/ m = <<c2>> /\ Fresh(c2)
                        \/ m = <<c1, c2>> /\ Fresh(c2) /\ Only(c1, a)
    BY ONLY <2>3, <2>8 DEF Growing, Fresh, Only
  <2>11. (Fresh(c1) => Fresh(c1)') /\ (Fresh(c2) => Fresh(c2)')
    BY <2>6, <2>7 DEF Fresh
  <2>12. ASSUME m = <<c1, c2>>, Fresh(c2), Only(c1, a) PROVE Only(c1, a)'
    <3>1. c1 \in Pages /\ c2 \in Pages
      BY <2>6, <2>12 DEF Fresh, Only
    <3>2. v = c2
      <4>1. Last(<<c1, c2>>) = c2
        BY <3>1, ShortSeqs
      <4>2. v = Last(m)
        BY <2>1, <2>3
      <4> QED BY <4>1, <4>2, <2>12
    <3>3. c1 # v
      <4>1. S1 # S2(p)
        BY DEF S1, S2
      <4> QED BY <4>1, <3>1, <3>2, <2>2, <2>3, <1>1, NoPageFacts DEF Injective
    <3>4. node'[c1] = node[c1] /\ pte'[c1] = pte[c1]
      BY <3>1, <3>3, <1>7
    <3> QED BY <3>4, <2>12 DEF Only
  <2>13. Growing(p)'
    BY <2>1, <2>9, <2>10, <2>11, <2>12
  <2> QED BY <2>1, <2>3, <2>4, <2>5, <2>13, <1>11 DEF Chain
<1>23. FrameInv'
  <2>1. \A q \in Procs : \A va \in IndexPath : FrameAt(q, va)' = FrameAt(q, va)
    BY <1>12, <1>19, OthersAfter
  <2> QED BY <1>1, <1>6, <2>1, FrameInvStays
<1>24. /\ TreePages(p)' \cap InHand(p)' = {}
       /\ TreePages(p)' \cup InHand(p)' = TreePages(p) \cup InHand(p)
  <2>1. Freeing(p)' = {v} /\ Freeing(p) = {v} /\ InHand(p)' = {v} /\ InHand(p) = {v}
    BY <1>2, <1>5, <1>11 DEF Freeing, InHand
  <2>2. TreePages(p)' = TreePages(p)
    BY <2>1, <1>18 DEF TreePages
  <2> QED BY <2>1, <2>2 DEF TreePages
<1>25. ASSUME NEW va \in IndexPath, FrameAt(p, va) # NoPage PROVE Cell(p, va)' = Cell(p, va)
  <2>1. SlotOf(va) \in Slots /\ NodeAt(p, SlotOf(va)) # NoPage
    BY <1>25, PathFacts, FrameIs
  <2>2. SlotOf(va) # s
    <3>1. SlotOf(va)[1] = 3 /\ va = <<SlotOf(va)[2], SlotOf(va)[3], va[3]>> /\ va[3] \in Index
      BY PathFacts
    <3> QED BY <3>1, <1>3, <1>25 DEF Leaf
  <2>3. PICK t : t = NodeAt(p, SlotOf(va))
    OBVIOUS
  <2>4. pte'[t] = pte[t]
    BY <2>1, <2>2, <2>3, <1>15
  <2> QED BY <2>1, <2>3, <2>4, <1>18 DEF Cell
<1>26. SameMap(p)
  BY <1>19, <1>25 DEF SameMap
<1> QED BY <1>26, <1>2, <1>6, <1>9, <1>10, <1>11, <1>12, <1>18, <1>20, <1>21, <1>22, <1>23, <1>24, QuietStep

-----------------------------------------------------------------------------
(* A set of one thing has one element.                                     *)
LEMMA CardOne ==
  \A q : Cardinality({q}) = 1
BY FS_Singleton

(* The last bit of a freed node is reset: the node leaves the tree, whose  *)
(* entry still points to it.                                               *)
LEMMA ClearKeeps ==
  ASSUME MemInv, NEW p \in Procs, UNCHANGED <<heapVars, load>>, ClearNode(p)
  PROVE  MemInv' /\ SameMap(p)
<1>1. p \in Actors /\ PoolTypes /\ TreeTypes /\ Phase(p) /\ FrameInv /\ PteFrames /\ Chain(p) /\
        Victim(p) /\ Injective
      /\ Outside /\ LockInv
  BY ActorFacts DEF MemInv, Trees, PteFrames
<1>2. at[p] = "clear"
  BY DEF ClearNode, FreeBit
<1>3. PICK s \in Slots : /\ NodeAt(p, s) # NoPage /\ hand[p] = {NodeAt(p, s)} /\ Leaf(p, s)
                         /\ node[NodeAt(p, s)] = EmptyNode /\ pte[NodeAt(p, s)] = EmptyTable
  BY <1>1, <1>2 DEF Victim
<1>4. PICK v : v = NodeAt(p, s)
  OBVIOUS
<1>5. v \in Pages /\ v # NoPage /\ hand[p] = {v} /\ v \notin gone[p] /\ v \notin Frames
      /\ node[v] = EmptyNode /\ pte[v] = EmptyTable
  BY <1>1, <1>3, <1>4, NodeType, NoPageFacts
<1>6. Min(hand[p]) = v /\ Cardinality(hand[p]) = 1 /\ hand[p] \ {v} = {}
  BY <1>5, MinOne, CardOne, NoPageFacts
<1>7. PICK place : place = IF walk[p].op = "set" THEN "unlink" ELSE "destroy"
  OBVIOUS
<1>8. /\ used' = used \ {v} /\ poolLock' = poolLock /\ hand' = [hand EXCEPT ![p] = {}] /\
           at' = [at EXCEPT ![p] = place]
      /\ root' = root /\ node' = node /\ pte' = pte /\ frames' = frames /\ walk' = walk
      /\ gone' = [gone EXCEPT ![p] = gone[p] \cup {v}] /\ running' = running /\ cr3' = cr3 /\ tlb' = tlb
      /\ arena' = arena /\ load' = load
  BY <1>5, <1>6, <1>7 DEF ClearNode, FreeBit, Goto, heapVars
<1>9. PoolTypes' /\ at'[p] = place /\ hand'[p] = {} /\ place \in {"unlink", "destroy"}
  BY <1>1, <1>7, <1>8 DEF PoolTypes, Places
<1>10. gone'[p] = gone[p] \cup {v}
  BY <1>1, <1>8 DEF TreeTypes
<1>11. TreeTypes' /\ PteFrames'
  BY <1>1, <1>5, <1>8 DEF TreeTypes, PteFrames
<1>12. OnlyBy(p)
  BY <1>1, <1>8 DEF OnlyBy, PoolTypes, TreeTypes
<1>13. NoPage \notin gone[p] /\ NoPage \notin gone'[p]
  BY <1>1, <1>5, <1>10, NoPageFacts DEF TreeTypes
<1>14. TopSlot # s => Top(p)' = Top(p) /\ Top(p) # v
  <2> SUFFICES ASSUME TopSlot # s PROVE Top(p)' = Top(p) /\ Top(p) # v
    OBVIOUS
  <2>1. NodeAt(p, TopSlot) = Top(p) /\ TopSlot \in Slots
    BY NodeStep, SlotFacts
  <2>2. Top(p) # v
    BY <2>1, <1>1, <1>4, <1>5 DEF Injective
  <2>3. PICK r : r = IF root[p] # NoPage THEN root[p] ELSE walk[p].root
    OBVIOUS
  <2>4. r # v
    BY <2>2, <2>3, <1>5 DEF Top, Live
  <2> QED BY <2>2, <2>3, <2>4, <1>8, <1>10 DEF Top, Live
<1>15. \A u \in Lower : \A y : u # s /\ Up(u) # s /\ y # NoPage /\ NodeAt(p, Up(u)) = y =>
             Cut(gone'[p], node'[y][Idx(u)]) = Cut(gone[p], node[y][Idx(u)])
  <2> SUFFICES ASSUME NEW u \in Lower, NEW y, u # s, Up(u) # s, y # NoPage, NodeAt(p, Up(u)) = y
               PROVE Cut(gone'[p], node'[y][Idx(u)]) = Cut(gone[p], node[y][Idx(u)])
    OBVIOUS
  <2>1. NodeAt(p, u) = Live(p, node[y][Idx(u)])
    BY NodeStep DEF Hang, Down
  <2>2. node[y][Idx(u)] # v
    <3>1. NodeAt(p, u) # v
      BY <1>1, <1>4, <1>5, SlotFacts DEF Injective
    <3> QED BY <3>1, <2>1, <1>5 DEF Live
  <2> QED BY <2>2, <1>8, <1>10 DEF Cut
<1>16. s # TopSlot => s \in Lower /\ Hang(p, s) = v /\ Hang(p, s)' = v
  <2> SUFFICES ASSUME s # TopSlot PROVE s \in Lower /\ Hang(p, s) = v /\ Hang(p, s)' = v
    OBVIOUS
  <2>1. s \in Lower /\ Up(s) \in Slots /\ Up(s) # s /\ Up(s)[1] < s[1]
    BY SlotFacts
  <2>2. PICK x : x = NodeAt(p, Up(s))
    OBVIOUS
  <2>3. NodeAt(p, Up(s))' = x
    <3>1. \A u \in Slots : u[1] < s[1] => NodeAt(p, u)' = NodeAt(p, u)
      BY ONLY p \in Procs, s \in Slots, <1>14, <1>15, AboveStays
    <3> QED BY <3>1, <2>1, <2>2
  <2>4. x \in Pages /\ v = node[x][Idx(s)] /\ x # NoPage
    BY <1>1, <1>4, <1>5, <2>1, <2>2, NodeType, NoPageFacts
  <2>5. Hang(p, s)' = v /\ Hang(p, s) = v
    BY <2>2, <2>3, <2>4, <1>8 DEF Hang, Down
  <2> QED BY <2>1, <2>5
<1>17. NodeAt(p, s)' = NoPage
  <2>1. CASE s = TopSlot
    <3>1. NodeAt(p, s)' = Top(p)' /\ Top(p) = v
      BY <2>1, <1>4, NodeStep, NodeStepNext
    <3>2. Top(p)' = NoPage
      BY <3>1, <1>5, <1>8, <1>10 DEF Top, Live
    <3> QED BY <3>1, <3>2
  <2>2. CASE s # TopSlot
    <3>1. NodeAt(p, s)' = Live(p, Hang(p, s))'
      BY <2>2, <1>16, NodeStepNext
    <3> QED BY <3>1, <2>2, <1>10, <1>16 DEF Live
  <2> QED BY <2>1, <2>2
<1>18. \A u \in Slots : u # s => NodeAt(p, u)' = NodeAt(p, u)
  <2>1. \A u \in Lower : Up(u) = s => NodeAt(p, u) = NoPage
    BY <1>3 DEF Leaf
  <2>2. \A u \in Lower : Up(u) = s => NodeAt(p, u)' = NoPage
    <3> SUFFICES ASSUME NEW u \in Lower, Up(u) = s PROVE NodeAt(p, u)' = NoPage
      OBVIOUS
    <3>1. Hang(p, u)' = NoPage
      BY <1>17 DEF Hang, Down
    <3> QED BY <3>1, NodeStepNext DEF Live
  <2> QED BY ONLY p \in Procs, <1>13, <1>14, <1>15, <2>1, <2>2, TreeEdit
<1>19. ASSUME NEW va \in IndexPath PROVE FrameAt(p, va)' = FrameAt(p, va)
  <2>1. SlotOf(va) \in Slots /\ va[3] \in Index /\ va[1] \in Index /\ va[2] \in Index /\
          va = <<va[1], va[2], va[3]>>
        /\ SlotOf(va)[1] = 3 /\ SlotOf(va)[2] = va[1] /\ SlotOf(va)[3] = va[2]
    BY PathFacts
  <2>2. CASE SlotOf(va) = s
    <3>1. s[1] = 3 /\ va = <<s[2], s[3], va[3]>>
      BY <2>1, <2>2
    <3>2. FrameAt(p, va) = NoPage
      BY <3>1, <2>1, <1>3 DEF Leaf
    <3>4. FrameAt(p, va)' = NoPage
      BY <2>2, <1>17, FrameIsNext
    <3> QED BY <3>2, <3>4
  <2>3. CASE SlotOf(va) # s
    <3>1. NodeAt(p, SlotOf(va))' = NodeAt(p, SlotOf(va))
      BY <2>1, <2>3, <1>18
    <3>2. ASSUME NEW t, t # NoPage, NodeAt(p, SlotOf(va)) = t
          PROVE /\ pte'[t][va[3]].present = pte[t][va[3]].present
                /\ pte[t][va[3]].present => Live(p, pte[t][va[3]].frame)' = Live(p, pte[t][va[3]].frame)
      <4>1. t \in Pages
        BY <3>2, <2>1, <1>1, NodeType
      <4>2. PICK f : f = pte[t][va[3]].frame
        OBVIOUS
      <4>3. pte[t][va[3]].present => f \in Frames
        BY <4>1, <4>2, <2>1, <1>1 DEF PteFrames
      <4>4. f # v => (Live(p, f)' = Live(p, f))
        BY <1>10 DEF Live
      <4> QED BY <4>2, <4>3, <4>4, <1>5, <1>8 DEF Live
    <3> QED BY <3>1, <3>2, FrameStays
  <2> QED BY <2>2, <2>3
<1>20. Injective'
  <2> SUFFICES ASSUME NEW a \in Procs, NEW b \in Procs, NEW t \in Slots, NEW u \in Slots,
                      NodeAt(a, t)' # NoPage, NodeAt(a, t)' = NodeAt(b, u)'
               PROVE a = b /\ t = u
    BY DEF Injective
  <2>1. NodeAt(a, t)' = NodeAt(a, t)
    BY <1>12, <1>17, <1>18, OthersAfter
  <2>2. NodeAt(b, u)' = NodeAt(b, u)
    BY <1>12, <1>17, <1>18, OthersAfter
  <2>3. NodeAt(a, t) # NoPage /\ NodeAt(a, t) = NodeAt(b, u)
    BY <2>1, <2>2
  <2> QED BY ONLY <2>3, <1>1, a \in Procs, b \in Procs, t \in Slots, u \in Slots DEF Injective
<1>21. Outside'
  <2> SUFFICES ASSUME NEW x \in Pages, \A r \in Procs : \A t \in Slots : NodeAt(r, t)' # x
               PROVE node'[x] = EmptyNode /\ pte'[x] = EmptyTable
    BY DEF Outside
  <2>1. CASE x = v
    BY <2>1, <1>5, <1>8
  <2>2. CASE x # v
    <3>1. \A r \in Procs : \A t \in Slots : NodeAt(r, t) # x
      BY <2>2, <1>4, <1>12, <1>18, OthersAfter
    <3>2. node[x] = EmptyNode /\ pte[x] = EmptyTable
      BY <3>1, <1>1 DEF Outside
    <3> QED BY <3>2, <1>8
  <2> QED BY <2>1, <2>2
<1>22. walk[p].op \in {"set", "destroy"} /\
       (walk[p].op = "set" => gone[p] = {} /\ walk[p].made # <<>> /\ Growing(p)
                                  /\ NodeAt(p, S3(p)) = NoPage /\ FrameAt(p, walk[p].va) = NoPage
                                  /\ hand[p] = {Last(walk[p].made)})
  BY <1>2, FreeingFacts
<1>23. walk[p].op = "set" =>
         /\ s \in {S1, S2(p)} /\ s \in Lower /\ v = Last(walk[p].made)
         /\ Len(walk[p].made) = 1 \/
              (s = S2(p) /\ walk[p].made = <<NodeAt(p, S1), v>> /\ Only(NodeAt(p, S1), walk[p].va[1]))
  <2> SUFFICES ASSUME walk[p].op = "set"
               PROVE /\ s \in {S1, S2(p)} /\ s \in Lower /\ v = Last(walk[p].made)
                     /\ Len(walk[p].made) = 1 \/
                         (s = S2(p) /\ walk[p].made = <<NodeAt(p, S1), v>> /\
                           Only(NodeAt(p, S1), walk[p].va[1]))
    OBVIOUS
  <2>1. PICK u \in {S1, S2(p)} :
              /\ u \in Lower /\ u \in Slots /\ NodeAt(p, u) = Last(walk[p].made)
              /\ Len(walk[p].made) = 1 \/
                 (u = S2(p) /\ walk[p].made = <<NodeAt(p, S1), NodeAt(p, u)>> /\
                   Only(NodeAt(p, S1), walk[p].va[1]))
    BY <1>1, <1>22, LastMade
  <2>2. v = Last(walk[p].made)
    BY <1>5, <1>22
  <2>3. u = s
    BY <2>1, <2>2, <1>1, <1>4, <1>5 DEF Injective
  <2> QED BY <2>1, <2>2, <2>3, <1>4
<1>24. Phase(p)'
  <2>1. walk[p].op = "set" => root[p] \notin gone'[p]
    <3> SUFFICES ASSUME walk[p].op = "set" PROVE root[p] \notin gone'[p]
      OBVIOUS
    <3>1. Top(p) = root[p] /\ root[p] \notin gone[p]
      BY <1>1, AtFacts DEF Phase
    <3>2. s # TopSlot
      BY <1>23, SlotFacts
    <3> QED BY <3>1, <3>2, <1>10, <1>14
  <2> QED BY <2>1, <1>1, <1>2, <1>7, <1>8, <1>9, <1>22 DEF Phase
<1>25. Chain(p)'
  <2> SUFFICES ASSUME walk[p].op = "set" PROVE Chain(p)'
    BY <1>8 DEF Chain
  <2>0. place = "unlink" /\ gone'[p] = {v} /\ walk[p].va \in IndexPath /\ s # TopSlot
    BY <1>1, <1>7, <1>10, <1>22, <1>23, PathFacts, SlotFacts DEF Phase
  <2>1. S1 \in Slots /\ S2(p) \in Slots /\ S3(p) \in Slots
    BY <2>0, PathFacts DEF S2, S3, SlotOf
  <2>2. PICK c1, s2, s3, va, m, a : /\ c1 = NodeAt(p, S1) /\ s2 = S2(p) /\ s3 = S3(p)
                                  /\ va = walk[p].va /\ m = walk[p].made /\ a = walk[p].va[1]
    OBVIOUS
  <2>3. S2(p)' = s2 /\ S3(p)' = s3 /\ walk'[p].va = va /\ walk'[p].made = m /\ walk'[p].va[1] = a
    BY <1>8, <2>2 DEF S2, S3
  <2>4. NodeAt(p, S3(p))' = NoPage
    <3>1. NodeAt(p, s3)' = NoPage
      BY <1>17, <1>18, <1>22, <2>1, <2>2
    <3> QED BY <3>1, <2>3
  <2>5. FrameAt(p, walk[p].va)' = NoPage
    <3>1. FrameAt(p, va)' = NoPage
      BY <1>19, <1>22, <2>0, <2>2
    <3> QED BY <3>1, <2>3
  <2>6. ASSUME NEW w \in Lower PROVE Hang(p, w)' = v <=> w = s
    <3>1. CASE w = s
      BY <3>1, <1>16, <2>0
    <3>2. CASE w # s
      <4>1. Up(w) \in Slots
        BY SlotFacts
      <4>2. PICK y : y = NodeAt(p, Up(w))'
        OBVIOUS
      <4>3. CASE y = NoPage
        <5>1. Hang(p, w)' = NoPage
          BY <4>2, <4>3 DEF Hang, Down
        <5> QED BY <5>1, <3>2, <1>5
      <4>4. CASE y # NoPage
        <5>1. NodeAt(p, Up(w)) = y
          BY <4>1, <4>2, <4>4, <1>17, <1>18
        <5>2. Hang(p, w)' = Hang(p, w)
          BY <4>2, <5>1, <1>8 DEF Hang, Down
        <5>3. Hang(p, w) # v
          <6>1. NodeAt(p, w) # v
            BY <3>2, <1>1, <1>4, <1>5, SlotFacts DEF Injective
          <6> QED BY <6>1, <1>5, NodeStep DEF Live
        <5> QED BY <5>2, <5>3, <3>2
      <4> QED BY <4>3, <4>4
    <3> QED BY <3>1, <3>2
  <2>7. Len(m) = 1 \/ (s = s2 /\ m = <<c1, v>> /\ Only(c1, a) /\ NodeAt(p, S1)' = c1)
    <3>1. S1 # S2(p)
      BY DEF S1, S2
    <3> QED BY <3>1, <1>18, <1>23, <2>1, <2>2
  <2>8. Only(c1, a) => Only(c1, a)'
    BY <1>8 DEF Only
  <2>9. v = Last(m) /\ s \in {S1, s2}
    BY <1>23, <2>2
  <2>10. Unlinking(p)'
    <3>1. gone'[p] = {Last(walk'[p].made)}
      BY <2>0, <2>3, <2>9
    <3>2. \A w \in Lower : Hang(p, w)' = Last(walk'[p].made) <=> w = s
      BY <2>3, <2>6, <2>9
    <3>3. s \in {S1, S2(p)'}
      BY <2>3, <2>9
    <3>4. Len(walk'[p].made) = 1 \/ (s = S2(p)' /\ walk'[p].made = <<NodeAt(p, S1)', Last(walk'[p].made)>>
                                        /\ Only(NodeAt(p, S1), walk[p].va[1])')
      BY <2>3, <2>7, <2>8, <2>9 DEF Only
    <3> QED BY <3>1, <3>2, <3>3, <3>4 DEF Unlinking
  <2> QED BY <2>0, <2>2, <2>3, <2>4, <2>5, <2>10, <1>9, <1>22 DEF Chain
<1>26. Victim(p)'
  BY <1>9 DEF Victim
<1>27. FrameInv'
  <2>1. \A q \in Procs : \A va \in IndexPath : FrameAt(q, va)' = FrameAt(q, va)
    BY <1>12, <1>19, OthersAfter
  <2> QED BY <1>1, <1>8, <2>1, FrameInvStays
<1>28. Elsewhere' \subseteq used' => LockInv'
  <2>1. \A a \in Actors : a # p => at'[a] = at[a] /\ hand'[a] = hand[a]
    BY <1>12 DEF OnlyBy
  <2> QED BY <1>1, <1>2, <1>8, <1>9, <2>1, LockStays
<1> DEFINE none == {}
           gave == {v}
<1>29. /\ TreePages(p)' \cap InHand(p)' = {}
       /\ none \subseteq Pages /\ none \cap used = {} /\ gave \subseteq TreePages(p) \cup InHand(p)
       /\ TreePages(p)' \cup InHand(p)' = ((TreePages(p) \cup InHand(p)) \cup none) \ gave
       /\ used' = (used \cup none) \ gave
  <2>1. Freeing(p)' = {} /\ InHand(p)' = {} /\ Freeing(p) = {v} /\ InHand(p) = {v}
    BY <1>2, <1>5, <1>9 DEF Freeing, InHand
  <2>2. TreePages(p)' = TreePages(p)
    <3>1. \A x : x # NoPage => ((\E u \in Slots : NodeAt(p, u)' = x) <=> x # v /\
            \E u \in Slots : NodeAt(p, u) = x)
      BY <1>1, <1>4, <1>5, <1>17, <1>18 DEF Injective
    <3> QED BY <2>1, <3>1, <1>5 DEF TreePages
  <2>3. v \notin TreePages(p)
    BY <2>1 DEF TreePages
  <2> QED BY <2>1, <2>2, <2>3, <1>8
<1>30. ASSUME NEW va \in IndexPath, FrameAt(p, va) # NoPage PROVE Cell(p, va)' = Cell(p, va)
  <2>1. SlotOf(va) \in Slots /\ NodeAt(p, SlotOf(va)) # NoPage
    BY <1>30, PathFacts, FrameIs
  <2>2. SlotOf(va) # s
    <3>1. SlotOf(va)[1] = 3 /\ va = <<SlotOf(va)[2], SlotOf(va)[3], va[3]>> /\ va[3] \in Index
      BY PathFacts
    <3> QED BY <3>1, <1>3, <1>30 DEF Leaf
  <2> QED BY <2>1, <2>2, <1>8, <1>18 DEF Cell
<1>31. SameMap(p)
  BY <1>19, <1>30 DEF SameMap
<1> QED BY <1>31, <1>9, <1>11, <1>12, <1>20, <1>21, <1>24, <1>25, <1>26, <1>27, <1>28, <1>29, ProcessStep

-----------------------------------------------------------------------------
(* The entry of the freed node is zeroed: the tree is what it was before   *)
(* the node was made.                                                      *)
LEMMA UnlinkKeeps ==
  ASSUME MemInv, NEW p \in Procs, UNCHANGED <<heapVars, load>>, Unlink(p)
  PROVE  MemInv' /\ SameMap(p) /\ OnlyBy(p)
<1>1. p \in Actors /\ PoolTypes /\ TreeTypes /\ Phase(p) /\ FrameInv /\ PteFrames /\ Chain(p) /\ Injective
  BY ActorFacts DEF MemInv, Trees, PteFrames
<1>2. at[p] = "unlink"
  BY DEF Unlink
<1>3. walk[p].op = "set" /\ hand[p] = {} /\ Top(p) = root[p] /\ root[p] \in Pages /\ walk[p].root = NoPage
      /\ root[p] \notin gone[p]
  BY <1>1, <1>2, AtFacts DEF Phase
<1>4. FrameAt(p, walk[p].va) = NoPage /\ NodeAt(p, S3(p)) = NoPage /\ walk[p].made # <<>> /\ Unlinking(p)
  BY <1>1, <1>2, <1>3 DEF Chain
<1>5. PICK v, m, a, f : v = Last(walk[p].made) /\ m = walk[p].made /\ a = walk[p].va[1] /\ f = walk[p].frame
  OBVIOUS
<1>6. gone[p] = {v}
  BY <1>4, <1>5 DEF Unlinking
<1>7. PICK e \in {S1, S2(p)} :
            /\ \A w \in Lower : Hang(p, w) = v <=> w = e
            /\ \/ Len(m) = 1
               \/ e = S2(p) /\ m = <<NodeAt(p, S1), v>> /\ Only(NodeAt(p, S1), a)
  BY <1>4, <1>5 DEF Unlinking
<1>8. walk[p].va \in IndexPath /\ a \in Index
  BY <1>1, <1>3, <1>5, PathFacts DEF Phase
<1>9. S1 \in Lower /\ S2(p) \in Lower /\ S1 \in Slots /\ S2(p) \in Slots /\ S3(p) \in Slots
  BY <1>8, PathFacts DEF S2, S3, SlotOf
<1>10. /\ Up(S1) = TopSlot /\ Idx(S1) = 0 /\ Up(S2(p)) = S1 /\ Idx(S2(p)) = a /\ S1 # S2(p)
  BY <1>5 DEF Up, Idx, S1, S2, TopSlot
<1>11. e \in Lower /\ e \in Slots /\ Up(e) \in Slots /\ Up(e) # e /\ e # TopSlot /\
         Idx(e) \in Index /\ Up(e)[1] < e[1]
  BY <1>9, SlotFacts
<1>12. Hang(p, e) = v /\ v \in Pages /\ v # NoPage
  <2>1. Hang(p, e) = v
    BY <1>7, <1>11
  <2>2. v \in Pages \cup {NoPage}
    BY <2>1, <1>1, <1>11, NodeType
  <2>3. v # NoPage
    BY <1>1, <1>6, NoPageFacts DEF TreeTypes
  <2> QED BY <2>1, <2>2, <2>3
<1>13. PICK x, i : x = NodeAt(p, Up(e)) /\ i = Idx(e)
  OBVIOUS
<1>14. x \in Pages /\ x # NoPage /\ i \in Index /\ node[x][i] = v
  <2>1. x # NoPage /\ node[x][i] = v
    BY <1>12, <1>13 DEF Hang, Down
  <2>2. x \in Pages \cup {NoPage}
    BY <1>1, <1>11, <1>13, NodeType
  <2> QED BY <2>1, <2>2, <1>11, <1>13
<1>15. EntryOf(p, v) = <<x, i>>
  <2>1. Pdp(root[p]) = Hang(p, S1)
    <3>1. NodeAt(p, TopSlot) = root[p]
      BY <1>3, NodeStep
    <3> QED BY <3>1, <1>10 DEF Pdp, Hang
  <2>2. CASE e = S1
    <3>1. Pdp(root[p]) = v
      BY <2>1, <2>2, <1>12
    <3>2. x = root[p] /\ i = 0
      BY <2>2, <1>3, <1>10, <1>13, NodeStep
    <3> QED BY <3>1, <3>2 DEF EntryOf
  <2>3. CASE e = S2(p)
    <3>1. Hang(p, S1) # v
      BY <2>3, <1>7, <1>9, <1>10
    <3>2. NodeAt(p, S1) = Hang(p, S1)
      BY <3>1, <1>6, <1>9, NodeStep DEF Live
    <3>3. x = NodeAt(p, S1) /\ i = a
      BY <2>3, <1>10, <1>13
    <3> QED BY <2>1, <3>1, <3>2, <3>3, <1>5 DEF EntryOf
  <2> QED BY <2>2, <2>3
<1>16. /\ used' = used /\ poolLock' = poolLock /\ hand' = hand
       /\ root' = root /\ node' = [node EXCEPT ![x][i] = NoPage] /\ pte' = pte
       /\ gone' = [gone EXCEPT ![p] = {}] /\ running' = running /\ cr3' = cr3 /\ tlb' = tlb
       /\ arena' = arena /\ load' = load
       /\ IF Len(m) = 1
          THEN frames' = frames \ {f} /\ walk' = [walk EXCEPT ![p] = NoWalk] /\
                 at' = [at EXCEPT ![p] = "idle"]
          ELSE frames' = frames /\ walk' = [walk EXCEPT ![p].made = Front(m)] /\
                 at' = [at EXCEPT ![p] = "unwind"]
  <2>1. EntryOf(p, v)[1] = x /\ EntryOf(p, v)[2] = i
    BY <1>15
  <2>2. node' = [node EXCEPT ![x][i] = NoPage]
    BY <2>1, <1>5 DEF Unlink, Unlinked
  <2>3. IF Len(m) = 1
          THEN frames' = frames \ {f} /\ walk' = [walk EXCEPT ![p] = NoWalk] /\
                 at' = [at EXCEPT ![p] = "idle"]
          ELSE frames' = frames /\ walk' = [walk EXCEPT ![p].made = Front(m)] /\
                 at' = [at EXCEPT ![p] = "unwind"]
    BY <1>5 DEF Unlink, Done, Goto
  <2> QED BY <2>2, <2>3 DEF Unlink, heapVars
<1>17. gone'[p] = {}
  BY <1>1, <1>16 DEF TreeTypes
<1>18. node' \in [Pages -> [Index -> Pages \cup {NoPage}]]
       /\ (\A z \in Pages : \A j \in Index : z # x \/ j # i => node'[z][j] = node[z][j])
       /\ node'[x] = [node[x] EXCEPT ![i] = NoPage] /\ node'[x][i] = NoPage
  BY <1>1, <1>14, <1>16 DEF TreeTypes
<1>19. Top(p)' = Top(p)
  BY <1>3, <1>16, <1>17, NoPageFacts DEF Top, Live
<1>20. \A u \in Lower : \A y : u # e /\ Up(u) # e /\ y # NoPage /\ NodeAt(p, Up(u)) = y =>
             Cut(gone'[p], node'[y][Idx(u)]) = Cut(gone[p], node[y][Idx(u)])
  <2> SUFFICES ASSUME NEW u \in Lower, NEW y, u # e, y # NoPage, NodeAt(p, Up(u)) = y
               PROVE Cut(gone'[p], node'[y][Idx(u)]) = Cut(gone[p], node[y][Idx(u)])
    OBVIOUS
  <2>1. node'[y][Idx(u)] = node[y][Idx(u)]
    BY <1>1, <1>11, <1>13, <1>14, <1>18, OtherEntries
  <2>2. node[y][Idx(u)] # v
    <3>1. Hang(p, u) = node[y][Idx(u)]
      BY DEF Hang, Down
    <3> QED BY <3>1, <1>7
  <2> QED BY <2>1, <2>2, <1>6, <1>17 DEF Cut
<1>21. NodeAt(p, e) = NoPage
  BY <1>6, <1>11, <1>12, NodeStep DEF Live
<1>22. NodeAt(p, e)' = NoPage
  <2>1. NodeAt(p, Up(e))' = x
    <3>1. \A u \in Slots : u[1] < e[1] => NodeAt(p, u)' = NodeAt(p, u)
      BY ONLY p \in Procs, <1>11, <1>19, <1>20, AboveStays
    <3> QED BY <3>1, <1>11, <1>13
  <2>2. Hang(p, e)' = NoPage
    BY <2>1, <1>13, <1>14, <1>18 DEF Hang, Down
  <2> QED BY <2>2, <1>11, NodeStepNext DEF Live
<1>23. \A u \in Slots : NodeAt(p, u)' = NodeAt(p, u)
  <2>1. \A u \in Lower : Up(u) = e => NodeAt(p, u) = NoPage
    <3> SUFFICES ASSUME NEW u \in Lower, Up(u) = e PROVE NodeAt(p, u) = NoPage
      OBVIOUS
    <3>1. Hang(p, u) = NoPage
      BY <1>21 DEF Hang, Down
    <3> QED BY <3>1, NodeStep DEF Live
  <2>2. \A u \in Lower : Up(u) = e => NodeAt(p, u)' = NoPage
    <3> SUFFICES ASSUME NEW u \in Lower, Up(u) = e PROVE NodeAt(p, u)' = NoPage
      OBVIOUS
    <3>1. Hang(p, u)' = NoPage
      BY <1>22 DEF Hang, Down
    <3> QED BY <3>1, NodeStepNext DEF Live
  <2>3. NoPage \notin gone[p] /\ NoPage \notin gone'[p]
    BY <1>6, <1>12, <1>17
  <2>4. \A u \in Slots : u # e => NodeAt(p, u)' = NodeAt(p, u)
    BY ONLY p \in Procs, <2>1, <2>2, <2>3, <1>19, <1>20, TreeEdit
  <2> QED BY <2>4, <1>21, <1>22
<1>24. ASSUME NEW va \in IndexPath PROVE FrameAt(p, va)' = FrameAt(p, va)
  <2>1. SlotOf(va) \in Slots /\ va[3] \in Index
    BY PathFacts
  <2>2. NodeAt(p, SlotOf(va))' = NodeAt(p, SlotOf(va))
    BY <2>1, <1>23
  <2>3. ASSUME NEW t, t # NoPage, NodeAt(p, SlotOf(va)) = t
        PROVE /\ pte'[t][va[3]].present = pte[t][va[3]].present
              /\ pte[t][va[3]].present => Live(p, pte[t][va[3]].frame)' = Live(p, pte[t][va[3]].frame)
    <3>1. t \in Pages
      BY <2>3, <2>1, <1>1, NodeType
    <3>2. PICK g : g = pte[t][va[3]].frame
      OBVIOUS
    <3>3. pte[t][va[3]].present => g \in Frames
      BY <3>1, <3>2, <2>1, <1>1 DEF PteFrames
    <3>4. g # v => (Live(p, g)' = Live(p, g))
      BY <1>6, <1>17 DEF Live
    <3> QED BY <3>2, <3>3, <3>4, <1>12, <1>16, NoPageFacts DEF Live
  <2> QED BY <2>2, <2>3, FrameStays
<1>25. PteFrames'
  BY <1>1, <1>16 DEF PteFrames
<1>26. at'[p] \in {"idle", "unwind"} /\ hand'[p] = {} /\ PoolTypes' /\ InHand(p) = {} /\ InHand(p)' = {}
  BY <1>1, <1>2, <1>3, <1>16 DEF PoolTypes, Places, InHand
<1>27. OnlyBy(p)
  <2>1. ASSUME NEW y \in Pages, \A s \in Slots : NodeAt(p, s) # y PROVE node'[y] = node[y] /\
                 pte'[y] = pte[y]
    <3>1. y # x
      BY <2>1, <1>11, <1>13
    <3> QED BY <3>1, <1>1, <1>14, <1>16 DEF TreeTypes
  <2>2. \A b \in Actors : b # p => at'[b] = at[b] /\ hand'[b] = hand[b]
    BY <1>1, <1>16 DEF PoolTypes
  <2>3. \A r \in Procs : r # p => walk'[r] = walk[r] /\ gone'[r] = gone[r] /\ root'[r] = root[r]
    BY <1>1, <1>16 DEF TreeTypes
  <2> QED BY <2>1, <2>2, <2>3, <1>16 DEF OnlyBy
<1>28. /\ TreePages(p)' \cap InHand(p)' = {}
       /\ TreePages(p)' \cup InHand(p)' = TreePages(p) \cup InHand(p)
  BY <1>23, <1>26, HandsEmpty
<1>29. \A q \in Procs : \A va \in IndexPath : FrameAt(q, va)' = FrameAt(q, va)
  BY <1>24, <1>27, OthersAfter
<1>30. frames' \subseteq Frames
  BY <1>1, <1>16 DEF TreeTypes
<1>31. SameMap(p)
  <2>1. \A va \in IndexPath : SlotOf(va) \in Slots
    BY PathFacts
  <2> QED BY <2>1, <1>16, <1>23, <1>24 DEF SameMap, Cell
<1>32. CASE Len(m) = 1
  <2>1. frames' = frames \ {f} /\ walk' = [walk EXCEPT ![p] = NoWalk] /\ at'[p] = "idle"
    BY <1>1, <1>16, <1>32 DEF PoolTypes
  <2>2. NoWalk.root = NoPage /\ NoWalk.frame = NoPage /\ NoWalk.op = "none" /\ walk'[p] = NoWalk
    BY <2>1, <1>1 DEF NoWalk, TreeTypes
  <2>3. TreeTypes'
    BY <2>1, <1>1, <1>16, <1>18, <1>30, WalkTypes DEF TreeTypes
  <2>4. f \in Frames /\ f # NoPage
    BY <1>1, <1>3, <1>5, NoPageFacts DEF Phase
  <2>5. FrameInv'
    <3>1. \A q \in Procs : \A va \in IndexPath : FrameAt(q, va) # f
      BY <1>1, <1>5, <2>4 DEF FrameInv
    <3>2. \A q \in Procs : walk'[q].frame = IF walk[q].frame = f THEN NoPage ELSE walk[q].frame
      BY <1>1, <1>5, <2>1, <2>2, <2>4 DEF FrameInv, TreeTypes
    <3> QED BY <3>1, <3>2, <1>1, <1>29, <2>1, <2>4, FrameDropped
  <2>6. Phase(p)' /\ Victim(p)' /\ Chain(p)'
    BY <1>17, <1>26, <2>1, <2>2 DEF Phase, Victim, Chain
  <2> QED BY <1>2, <1>16, <1>23, <1>25, <1>26, <1>27, <1>28, <1>31, <2>1, <2>3, <2>5, <2>6, QuietStep
<1>33. CASE Len(m) # 1
  <2>1. frames' = frames /\ walk' = [walk EXCEPT ![p].made = Front(m)] /\ at'[p] = "unwind"
    BY <1>1, <1>16, <1>33 DEF PoolTypes
  <2>2. PICK c1 : c1 = NodeAt(p, S1)
    OBVIOUS
  <2>3. e = S2(p) /\ m = <<c1, v>> /\ Only(c1, a) /\ x = c1 /\ i = a
    BY <1>7, <1>10, <1>13, <1>33, <2>2
  <2>4. c1 \in Pages
    BY <1>14, <2>3
  <2>5. Front(m) = <<c1>>
    BY <2>3, <2>4, <1>12, ShortSeqs
  <2>6. <<c1>> \in BoundedSeq(Pages, 3)
    <3>1. <<c1>> \in Seq(Pages) /\ Len(<<c1>>) <= 3
      BY <2>4
    <3> QED BY <3>1, MadeSeqs
  <2>7. walk'[p] = [walk[p] EXCEPT !.made = <<c1>>] /\ walk'[p] \in Walks
    BY <1>1, <2>1, <2>5, <2>6 DEF TreeTypes, Walks
  <2>8. /\ walk'[p].op = "set" /\ walk'[p].va = walk[p].va /\ walk'[p].frame = walk[p].frame
        /\ walk'[p].root = walk[p].root /\ walk'[p].made = <<c1>>
    BY <1>1, <1>3, <2>7 DEF TreeTypes, Walks
  <2>9. TreeTypes'
    BY <1>1, <1>16, <1>18, <2>1, <2>7 DEF TreeTypes
  <2>10. FrameInv'
    <3>1. \A q \in Procs : walk'[q].frame = walk[q].frame
      BY <1>1, <2>1, <2>8 DEF TreeTypes
    <3> QED BY <3>1, <1>1, <1>29, <2>1, FrameInvStays
  <2>11. Phase(p)' /\ Victim(p)'
    BY <1>1, <1>3, <1>16, <1>17, <1>26, <2>1, <2>8 DEF Phase, Victim
  <2>12. Chain(p)'
    <3>1. PICK s3, va : s3 = S3(p) /\ va = walk[p].va
      OBVIOUS
    <3>2. S3(p)' = s3 /\ walk'[p].va = va
      BY <2>8, <3>1 DEF S3
    <3>3. NodeAt(p, S3(p))' = NoPage /\ FrameAt(p, walk[p].va)' = NoPage
      BY <3>1, <3>2, <1>4, <1>8, <1>9, <1>23, <1>24
    <3>4. NodeAt(p, S1)' = c1
      BY <1>9, <1>23, <2>2
    <3>5. node'[c1] = EmptyNode /\ pte'[c1] = EmptyTable
      <4>1. node[c1] = [EmptyNode EXCEPT ![a] = node[c1][a]] /\ pte[c1] = EmptyTable
        BY <2>3 DEF Only
      <4>2. node'[c1] = [node[c1] EXCEPT ![a] = NoPage]
        BY <1>18, <2>3
      <4>3. node'[c1] \in [Index -> Pages \cup {NoPage}]
        BY <1>18, <2>4
      <4>4. \A j \in Index : node'[c1][j] = NoPage
        <5> SUFFICES ASSUME NEW j \in Index PROVE node'[c1][j] = NoPage
          OBVIOUS
        <5>1. CASE j = a
          BY <5>1, <1>18, <2>3
        <5>2. CASE j # a
          <6>1. node[c1][j] = NoPage
            BY <4>1, <5>2, <1>8 DEF EmptyNode
          <6> QED BY <6>1, <5>2, <1>18, <2>3, <2>4
        <5> QED BY <5>1, <5>2
      <4>5. node'[c1] = EmptyNode
        BY <4>3, <4>4 DEF EmptyNode
      <4> QED BY <4>1, <4>5, <1>16
    <3>6. Fresh(c1)'
      BY <3>5, <1>14, <2>3 DEF Fresh
    <3>7. Growing(p)'
      BY <2>8, <3>4, <3>5, <1>14, <2>3 DEF Growing, Fresh
    <3>8. walk'[p].made # <<>>
      BY <2>8
    <3> QED BY <3>3, <3>7, <3>8, <2>1 DEF Chain
  <2> QED BY <1>2, <1>16, <1>23, <1>25, <1>26, <1>27, <1>28, <1>31, <2>9, <2>10, <2>11, <2>12, QuietStep
<1> QED BY <1>32, <1>33

-----------------------------------------------------------------------------
(* The first of the entries that are left is one of them.                  *)
LEMMA FirstOf ==
  ASSUME NEW left \in SUBSET Index, left # {}
  PROVE  Min(left) \in left
<1>1. left \in SUBSET Nat
  BY TablesAssumption
<1> QED BY <1>1, LeastGreatest

(* The first live page a node points to, if there is one.                  *)
LEMMA FirstNodeIs ==
  ASSUME NEW p \in Procs, NEW q
  PROVE  \/ FirstNode(p, q) = NoPage /\ \A i \in Index : Live(p, Down(q, i)) = NoPage
         \/ \E i \in Index : FirstNode(p, q) = Live(p, Down(q, i)) /\ FirstNode(p, q) # NoPage
<1> DEFINE left == {i \in Index : Down(q, i) \notin gone[p] \cup {NoPage}}
<1>1. CASE left = {}
  BY <1>1 DEF FirstNode, Live
<1>2. CASE left # {}
  <2>1. PICK i : i = Min(left)
    OBVIOUS
  <2>2. left \in SUBSET Index
    OBVIOUS
  <2>3. i \in left
    BY <1>2, <2>1, <2>2, FirstOf
  <2>4. q # NoPage /\ Down(q, i) = node[q][i]
    BY <2>3 DEF Down
  <2>5. FirstNode(p, q) = node[q][i]
    BY <1>2, <2>1 DEF FirstNode
  <2> QED BY <2>3, <2>4, <2>5 DEF Live
<1> QED BY <1>1, <1>2

(* The first frame a page table maps, if there is one.                     *)
LEMMA FirstFrameIs ==
  ASSUME TreeTypes, PteFrames, NEW p \in Procs, NEW i \in Index, NEW j \in Index
  PROVE  \/ /\ FirstFrame(p, LivePt(p, i, j)) = NoPage
            /\ \A k \in Index : FrameAt(p, <<i, j, k>>) = NoPage
         \/ \E k \in Index : /\ FirstFrame(p, LivePt(p, i, j)) = FrameAt(p, <<i, j, k>>)
                             /\ FirstFrame(p, LivePt(p, i, j)) \in Frames
<1>1. PICK t : t = LivePt(p, i, j)
  OBVIOUS
<1>2. ASSUME NEW k \in Index
      PROVE FrameAt(p, <<i, j, k>>) = IF t = NoPage \/
              ~pte[t][k].present THEN NoPage ELSE Live(p, pte[t][k].frame)
  BY <1>1 DEF FrameAt
<1> DEFINE left == {k \in Index : pte[t][k].present /\ pte[t][k].frame \notin gone[p]}
<1>3. CASE t = NoPage \/ left = {}
  <2>1. FirstFrame(p, t) = NoPage
    BY <1>3 DEF FirstFrame
  <2>2. \A k \in Index : FrameAt(p, <<i, j, k>>) = NoPage
    BY <1>2, <1>3 DEF Live
  <2> QED BY <1>1, <2>1, <2>2
<1>4. CASE t # NoPage /\ left # {}
  <2>1. PICK k : k = Min(left)
    OBVIOUS
  <2>2. left \in SUBSET Index
    OBVIOUS
  <2>3. k \in left
    BY <1>4, <2>1, <2>2, FirstOf
  <2>4. FirstFrame(p, t) = pte[t][k].frame
    BY <1>4, <2>1 DEF FirstFrame
  <2>5. FrameAt(p, <<i, j, k>>) = pte[t][k].frame
    BY <1>2, <1>4, <2>3 DEF Live
  <2>6. t \in Pages
    <3>1. <<3, i, j>> \in Slots
      BY DEF Slots
    <3>2. NodeAt(p, <<3, i, j>>) = t
      BY <1>1 DEF NodeAt
    <3> QED BY <3>1, <3>2, <1>4, NodeType
  <2>7. pte[t][k].frame \in Frames
    BY <2>3, <2>6 DEF PteFrames
  <2> QED BY <1>1, <2>3, <2>4, <2>5, <2>7
<1> QED BY <1>3, <1>4

(* The first of five.                                                      *)
LEMMA FirstOfFive ==
  ASSUME NEW a, NEW b, NEW c, NEW d, NEW e, e # NoPage
  PROVE  LET path == <<a, b, c, d, e>>
         IN path[Min({i \in 1..5 : path[i] # NoPage})] =
              IF a # NoPage THEN a ELSE IF b # NoPage THEN b ELSE IF c # NoPage THEN c
              ELSE IF d # NoPage THEN d ELSE e
<1>1. PICK path : path = <<a, b, c, d, e>>
  OBVIOUS
<1>2. path[1] = a /\ path[2] = b /\ path[3] = c /\ path[4] = d /\ path[5] = e
  BY <1>1
<1> DEFINE S == {i \in 1..5 : path[i] # NoPage}
<1>3. S \in SUBSET Nat /\ 5 \in S
  BY <1>2
<1>4. PICK m : m = Min(S)
  OBVIOUS
<1>5. m \in S /\ \A n \in S : m <= n
  BY <1>3, <1>4, LeastGreatest
<1>6. path[m] = IF a # NoPage THEN a ELSE IF b # NoPage THEN b ELSE IF c # NoPage THEN c
              ELSE IF d # NoPage THEN d ELSE e
  <2>1. m \in 1..5 /\ path[m] # NoPage
    BY <1>5
  <2>2. \A n \in 1..5 : n < m => path[n] = NoPage
    BY <1>5, <2>1
  <2>3. m = 1 \/ m = 2 \/ m = 3 \/ m = 4 \/ m = 5
    BY <2>1
  <2>4. CASE m = 1
    BY <2>1, <2>4, <1>2
  <2>5. CASE m = 2
    <3>1. a = NoPage
      BY <2>2, <2>5, <1>2
    <3> QED BY <3>1, <2>1, <2>5, <1>2
  <2>6. CASE m = 3
    <3>1. a = NoPage /\ b = NoPage
      BY <2>2, <2>6, <1>2
    <3> QED BY <3>1, <2>1, <2>6, <1>2
  <2>7. CASE m = 4
    <3>1. a = NoPage /\ b = NoPage /\ c = NoPage
      BY <2>2, <2>7, <1>2
    <3> QED BY <3>1, <2>1, <2>7, <1>2
  <2>8. CASE m = 5
    <3>1. a = NoPage /\ b = NoPage /\ c = NoPage /\ d = NoPage
      BY <2>2, <2>8, <1>2
    <3> QED BY <3>1, <2>1, <2>8, <1>2
  <2> QED BY <2>3, <2>4, <2>5, <2>6, <2>7, <2>8
<1> QED BY <1>1, <1>4, <1>6

(* pml4_destroy frees a frame of the tree, or a node with nothing below.   *)
LEMMA NextIs ==
  ASSUME MemInv, NEW p \in Procs, walk[p].op = "destroy", walk[p].root \notin gone[p]
  PROVE  \/ \E va \in IndexPath : NextFreed(p) = FrameAt(p, va) /\ NextFreed(p) \in Frames
         \/ \E s \in Slots : NextFreed(p) = NodeAt(p, s) /\ NextFreed(p) \in Pages /\ Leaf(p, s)
<1>1. TreeTypes /\ PteFrames /\ Phase(p)
  BY DEF MemInv, Trees, PteFrames
<1>2. PICK r : r = walk[p].root
  OBVIOUS
<1>3. r \in Pages /\ r # NoPage /\ Top(p) = r
  BY <1>1, <1>2, NoPageFacts DEF Phase, Top, Live
<1>4. PICK pdp : pdp = IF Pdp(r) \in gone[p] THEN NoPage ELSE Pdp(r)
  OBVIOUS
<1>5. pdp = LivePdp(p)
  BY <1>3, <1>4 DEF LivePdp, Live, Pdp
<1>6. PICK pd : pd = FirstNode(p, pdp)
  OBVIOUS
<1>7. PICK pt : pt = FirstNode(p, pd)
  OBVIOUS
<1>8. PICK ff : ff = FirstFrame(p, pt)
  OBVIOUS
<1>9. NextFreed(p) = IF ff # NoPage THEN ff ELSE IF pt # NoPage THEN pt ELSE IF pd # NoPage THEN pd
                     ELSE IF pdp # NoPage THEN pdp ELSE r
  <2>1. NextFreed(p) = <<ff, pt, pd, pdp, r>>[Min({i \in 1..5 : <<ff, pt, pd, pdp, r>>[i] # NoPage})]
    BY <1>2, <1>4, <1>6, <1>7, <1>8 DEF NextFreed
  <2> QED BY <2>1, <1>3, FirstOfFive
<1>10. 0 \in Index /\ S1 \in Slots /\ TopSlot \in Slots /\ NodeAt(p, S1) = pdp /\ NodeAt(p, TopSlot) = r
  BY <1>3, <1>5, TablesAssumption, PathFacts, SlotFacts, NodeStep DEF NodeAt, S1
<1>11. \A i \in Index : Live(p, Down(pdp, i)) = LivePd(p, i) /\ <<2, i, 0>> \in Slots /\
         NodeAt(p, <<2, i, 0>>) = LivePd(p, i)
  BY <1>5, <1>10 DEF LivePd, Slots, NodeAt
<1>12. \A i, j \in Index : <<3, i, j>> \in Slots /\ NodeAt(p, <<3, i, j>>) = LivePt(p, i, j)
  BY DEF Slots, NodeAt
<1>13. \A u \in Lower : \/ u = S1
                        \/ \E i \in Index : u = <<2, i, 0>>
                        \/ \E i, j \in Index : u = <<3, i, j>>
  <2> SUFFICES ASSUME NEW u \in Lower
               PROVE \/ u = S1
                     \/ \E i \in Index : u = <<2, i, 0>>
                     \/ \E i, j \in Index : u = <<3, i, j>>
    OBVIOUS
  <2>1. u \in Slots /\ u[1] \in 1..3 /\ u[2] \in Index /\ u[3] \in Index /\ u = <<u[1], u[2], u[3]>>
    BY SlotFacts
  <2>2. (u[1] < 2 => u[2] = 0) /\ (u[1] < 3 => u[3] = 0)
    BY <2>1 DEF Slots
  <2>3. CASE u[1] = 1
    BY <2>1, <2>2, <2>3 DEF S1
  <2>4. CASE u[1] = 2
    BY <2>1, <2>2, <2>4
  <2>5. CASE u[1] = 3
    BY <2>1, <2>5
  <2> QED BY <2>1, <2>3, <2>4, <2>5
<1>14. ASSUME NEW i \in Index, pd = LivePd(p, i), pd # NoPage
       PROVE  \/ \E va \in IndexPath : NextFreed(p) = FrameAt(p, va) /\ NextFreed(p) \in Frames
              \/ \E s \in Slots : NextFreed(p) = NodeAt(p, s) /\ NextFreed(p) \in Pages /\ Leaf(p, s)
  <2>1. \A j \in Index : Live(p, Down(pd, j)) = LivePt(p, i, j)
    BY <1>14 DEF LivePt
  <2>2. CASE pt = NoPage
    <3>1. \A j \in Index : LivePt(p, i, j) = NoPage
      BY <2>1, <2>2, <1>7, FirstNodeIs
    <3>2. ff = NoPage
      BY <2>2, <1>8 DEF FirstFrame
    <3>3. NextFreed(p) = NodeAt(p, <<2, i, 0>>)
      BY <3>2, <2>2, <1>9, <1>11, <1>14
    <3>4. Leaf(p, <<2, i, 0>>)
      <4>1. ASSUME NEW u \in Lower, Up(u) = <<2, i, 0>> PROVE NodeAt(p, u) = NoPage
        <5>1. u[1] = 3
          BY <4>1, SlotFacts DEF Up
        <5>2. PICK k \in Index, j \in Index : u = <<3, k, j>>
          BY <5>1, <1>13 DEF S1
        <5>3. k = i
          BY <4>1, <5>2 DEF Up
        <5> QED BY <5>2, <5>3, <3>1, <1>12
      <4> QED BY <4>1 DEF Leaf
    <3>5. NextFreed(p) \in Pages
      BY <3>3, <1>1, <1>11, <1>14, NodeType
    <3> QED BY <3>3, <3>4, <3>5, <1>11
  <2>3. CASE pt # NoPage
    <3>1. PICK j \in Index : pt = LivePt(p, i, j)
      BY <2>1, <2>3, <1>7, FirstNodeIs
    <3>2. CASE ff = NoPage
      <4>1. \A k \in Index : FrameAt(p, <<i, j, k>>) = NoPage
        <5>1. FirstFrame(p, LivePt(p, i, j)) = NoPage
          BY <3>1, <3>2, <1>8
        <5>2. NoPage \notin Frames
          BY NoPageFacts
        <5> QED BY <5>1, <5>2, <1>1, FirstFrameIs
      <4>2. NextFreed(p) = NodeAt(p, <<3, i, j>>)
        BY <3>1, <3>2, <2>3, <1>9, <1>12
      <4>3. Leaf(p, <<3, i, j>>)
        <5>1. \A u \in Lower : Up(u) # <<3, i, j>>
          <6> SUFFICES ASSUME NEW u \in Lower, Up(u) = <<3, i, j>> PROVE FALSE
            OBVIOUS
          <6>1. Up(u)[1] = u[1] - 1 /\ u[1] \in 1..3
            BY SlotFacts
          <6>2. Up(u)[1] = 3
            OBVIOUS
          <6> QED BY <6>1, <6>2
        <5> QED BY <4>1, <5>1 DEF Leaf
      <4>4. NextFreed(p) \in Pages
        BY <4>2, <3>1, <2>3, <1>1, <1>12, NodeType
      <4> QED BY <4>2, <4>3, <4>4, <1>12
    <3>3. CASE ff # NoPage
      <4>1. PICK k \in Index : ff = FrameAt(p, <<i, j, k>>) /\ ff \in Frames
        BY <3>1, <3>3, <1>1, <1>8, FirstFrameIs
      <4>2. <<i, j, k>> \in IndexPath
        BY DEF IndexPath
      <4> QED BY <4>1, <4>2, <3>3, <1>9
    <3> QED BY <3>2, <3>3
  <2> QED BY <2>2, <2>3
<1>15. CASE pd = NoPage
  <2>1. \A i \in Index : LivePd(p, i) = NoPage
    BY <1>6, <1>11, <1>15, FirstNodeIs
  <2>2. pt = NoPage /\ ff = NoPage
    <3>1. \A i \in Index : Down(pd, i) = NoPage
      BY <1>15 DEF Down
    <3>2. pt = NoPage
      BY <3>1, <1>7, FirstNodeIs DEF Live
    <3> QED BY <3>2, <1>8 DEF FirstFrame
  <2>3. CASE pdp # NoPage
    <3>1. NextFreed(p) = NodeAt(p, S1)
      BY <2>2, <2>3, <1>9, <1>10, <1>15
    <3>2. Leaf(p, S1)
      <4>1. ASSUME NEW u \in Lower, Up(u) = S1 PROVE NodeAt(p, u) = NoPage
        <5>1. u[1] = 2
          BY <4>1, SlotFacts DEF Up, S1
        <5>2. PICK i \in Index : u = <<2, i, 0>>
          BY <5>1, <1>13 DEF S1
        <5> QED BY <5>2, <2>1, <1>11
      <4> QED BY <4>1 DEF Leaf, S1
    <3>3. NextFreed(p) \in Pages
      BY <3>1, <2>3, <1>1, <1>10, NodeType
    <3> QED BY <3>1, <3>2, <3>3, <1>10
  <2>4. CASE pdp = NoPage
    <3>1. NextFreed(p) = NodeAt(p, TopSlot)
      BY <2>2, <2>4, <1>9, <1>10, <1>15
    <3>2. Leaf(p, TopSlot)
      <4>1. ASSUME NEW u \in Lower, Up(u) = TopSlot PROVE NodeAt(p, u) = NoPage
        <5>1. u[1] = 1
          BY <4>1, SlotFacts DEF Up, TopSlot
        <5>2. u = S1
          BY <5>1, <1>13
        <5> QED BY <5>2, <2>4, <1>10
      <4> QED BY <4>1 DEF Leaf, TopSlot
    <3> QED BY <3>1, <3>2, <1>3, <1>10
  <2> QED BY <2>3, <2>4
<1>16. CASE pd # NoPage
  <2>1. PICK i \in Index : pd = LivePd(p, i)
    BY <1>6, <1>11, <1>16, FirstNodeIs
  <2> QED BY <2>1, <1>14, <1>16
<1> QED BY <1>15, <1>16

-----------------------------------------------------------------------------
(* pml4_destroy gives a frame away: it is gone from the tree.              *)
LEMMA FrameGone ==
  ASSUME MemInv, NEW p \in Procs, node' = node, pte' = pte, NEW f \in Frames, gone'[p] = gone[p] \cup {f},
         root'[p] = root[p], walk'[p] = walk[p]
  PROVE  /\ \A s \in Slots : NodeAt(p, s)' = NodeAt(p, s)
         /\ \A va \in IndexPath : FrameAt(p, va)' = IF FrameAt(p, va) = f THEN NoPage ELSE FrameAt(p, va)
<1>1. TreeTypes /\ PteFrames
  BY DEF MemInv, Trees, PteFrames
<1>2. \A q : q # f => Live(p, q)' = Live(p, q)
  BY DEF Live
<1>3. f \notin Pages /\ f # NoPage
  BY NoPageFacts
<1>4. Top(p)' = Top(p)
  <2>1. PICK r : r = IF root[p] # NoPage THEN root[p] ELSE walk[p].root
    OBVIOUS
  <2>2. r # f
    BY <2>1, <1>1, <1>3 DEF TreeTypes, Walks
  <2> QED BY <2>1, <2>2 DEF Top, Live
<1>5. \A s \in Slots : NodeAt(p, s)' = NodeAt(p, s)
  <2> DEFINE e == <<4, 0, 0>>
  <2>1. \A s \in Slots : s # e
    <3> SUFFICES ASSUME NEW s \in Slots, s = e PROVE FALSE
      OBVIOUS
    <3>1. s[1] \in 0..3
      BY SlotFacts
    <3> QED BY <3>1
  <2>2. \A u \in Lower : Up(u) # e
    BY <2>1, SlotFacts
  <2>3. \A u \in Lower : \A y : u # e /\ Up(u) # e /\ y # NoPage /\ NodeAt(p, Up(u)) = y =>
             Cut(gone'[p], node'[y][Idx(u)]) = Cut(gone[p], node[y][Idx(u)])
    <3> SUFFICES ASSUME NEW u \in Lower, NEW y, y # NoPage, NodeAt(p, Up(u)) = y
                 PROVE Cut(gone'[p], node'[y][Idx(u)]) = Cut(gone[p], node[y][Idx(u)])
      OBVIOUS
    <3>1. Hang(p, u) = node[y][Idx(u)] /\ Hang(p, u) \in Pages \cup {NoPage}
      BY <1>1, NodeType DEF Hang, Down
    <3>2. node[y][Idx(u)] # f
      BY <3>1, <1>3
    <3> QED BY <3>2 DEF Cut
  <2>4. NoPage \notin gone[p] /\ NoPage \notin gone'[p]
    BY <1>1, <1>3, NoPageFacts DEF TreeTypes
  <2>5. \A s \in Slots : s # e => NodeAt(p, s)' = NodeAt(p, s)
    <3>1. \A u \in Lower : Up(u) = e => NodeAt(p, u) = NoPage
      BY <2>2
    <3>2. \A u \in Lower : Up(u) = e => NodeAt(p, u)' = NoPage
      BY <2>2
    <3> HIDE DEF e
    <3> QED BY ONLY p \in Procs, <1>4, <2>3, <2>4, <3>1, <3>2, TreeEdit
  <2> QED BY <2>1, <2>5
<1>6. ASSUME NEW va \in IndexPath
      PROVE FrameAt(p, va)' = IF FrameAt(p, va) = f THEN NoPage ELSE FrameAt(p, va)
  <2>1. SlotOf(va) \in Slots
    BY PathFacts
  <2>2. PICK t : t = NodeAt(p, SlotOf(va))
    OBVIOUS
  <2>3. NodeAt(p, SlotOf(va))' = t
    BY <2>1, <2>2, <1>5
  <2>4. FrameAt(p, va) = IF t = NoPage \/
          ~pte[t][va[3]].present THEN NoPage ELSE Live(p, pte[t][va[3]].frame)
    BY <2>2, FrameIs
  <2>5. FrameAt(p, va)' = IF t = NoPage \/
          ~pte[t][va[3]].present THEN NoPage ELSE Live(p, pte[t][va[3]].frame)'
    BY <2>3, FrameIsNext
  <2> QED BY <2>4, <2>5, <1>3 DEF Live
<1> QED BY <1>5, <1>6

(* A step of pml4_destroy, which frees the first leaf, keeps MemInv.       *)
LEMMA DestroyKeeps ==
  ASSUME MemInv, NEW p \in Procs, UNCHANGED <<heapVars, load>>, DestroyNext(p)
  PROVE  MemInv'
<1>1. p \in Actors /\ PoolTypes /\ TreeTypes /\ Phase(p) /\ FrameInv /\ PteFrames /\ Chain(p)
  BY ActorFacts DEF MemInv, Trees, PteFrames
<1>2. at[p] = "destroy" /\ walk[p].root \notin gone[p]
  BY DEF DestroyNext
<1>3. walk[p].op = "destroy" /\ walk[p].frame = NoPage /\ hand[p] = {} /\ root[p] = NoPage
  BY <1>1, <1>2, AtFacts DEF Phase
<1>4. PICK q : q = NextFreed(p)
  OBVIOUS
<1>5. /\ used' = used /\ poolLock' = poolLock
      /\ root' = root /\ node' = node /\ pte' = pte /\ walk' = walk
      /\ running' = running /\ cr3' = cr3 /\ tlb' = tlb
      /\ arena' = arena /\ load' = load /\ UNCHANGED heapVars
      /\ IF q \in Frames
         THEN frames' = frames \ {q} /\ gone' = [gone EXCEPT ![p] = gone[p] \cup {q}] /\
                hand' = hand /\ at' = at
         ELSE /\ frames' = frames /\ gone' = gone /\ hand' = [hand EXCEPT ![p] = {q}]
              /\ at' = [at EXCEPT ![p] = "fill"]
  BY <1>4 DEF DestroyNext, Goto, heapVars
<1>6. CASE q \in Frames
  <2>1. frames' = frames \ {q} /\ gone' = [gone EXCEPT ![p] = gone[p] \cup {q}] /\ hand' = hand /\ at' = at
    BY <1>5, <1>6
  <2>2. PICK va \in IndexPath : FrameAt(p, va) = q
    <3>1. q \notin Pages
      BY <1>6, NoPageFacts
    <3> QED BY <3>1, <1>2, <1>3, <1>4, NextIs
  <2>3. gone'[p] = gone[p] \cup {q}
    BY <2>1, <1>1 DEF TreeTypes
  <2>4. /\ \A s \in Slots : NodeAt(p, s)' = NodeAt(p, s)
        /\ \A x \in IndexPath : FrameAt(p, x)' = IF FrameAt(p, x) = q THEN NoPage ELSE FrameAt(p, x)
    BY <2>3, <1>5, <1>6, FrameGone
  <2>5. OnlyBy(p)
    BY <2>1, <1>1, <1>5 DEF OnlyBy, TreeTypes
  <2>6. TreeTypes' /\ PoolTypes' /\ PteFrames'
    BY <2>1, <1>1, <1>5, <1>6 DEF TreeTypes, PoolTypes, PteFrames
  <2>7. Phase(p)' /\ Victim(p)' /\ Chain(p)'
    BY <2>1, <1>1, <1>2, <1>3, <1>5 DEF Phase, Victim, Chain
  <2>8. FrameInv'
    <3>1. q # NoPage
      BY <1>6, NoPageFacts
    <3>2. \A r \in Procs : \A x \in IndexPath :
            FrameAt(r, x)' = IF FrameAt(r, x) = q THEN NoPage ELSE FrameAt(r, x)
      <4> SUFFICES ASSUME NEW r \in Procs, r # p, NEW x \in IndexPath
                   PROVE FrameAt(r, x)' = IF FrameAt(r, x) = q THEN NoPage ELSE FrameAt(r, x)
        BY <2>4
      <4>1. FrameAt(r, x)' = FrameAt(r, x)
        BY <2>5, OthersAfter
      <4>2. FrameAt(r, x) # q
        BY <2>2, <3>1, <1>1 DEF FrameInv
      <4> QED BY <4>1, <4>2
    <3>3. \A r \in Procs : walk[r].frame # q
      BY <2>2, <3>1, <1>1 DEF FrameInv
    <3> QED BY <3>2, <3>3, <2>1, <1>1, <1>5, <1>6, FrameDropped
  <2>9. InHand(p) = {} /\ InHand(p)' = {}
    BY <2>1, <1>2 DEF InHand
  <2>10. /\ TreePages(p)' \cap InHand(p)' = {}
         /\ TreePages(p)' \cup InHand(p)' = TreePages(p) \cup InHand(p)
    BY <2>4, <2>9, HandsEmpty
  <2>11. at[p] # "flip" /\ at'[p] \notin {"flip", "fill", "clear"}
    BY <1>2, <2>1
  <2> QED BY <1>5, <2>4, <2>5, <2>6, <2>7, <2>8, <2>10, <2>11, QuietStep
<1>7. CASE q \notin Frames
  <2>1. /\ frames' = frames /\ gone' = gone /\ hand' = [hand EXCEPT ![p] = {q}]
        /\ at' = [at EXCEPT ![p] = "fill"]
    BY <1>5, <1>7
  <2>2. PICK s \in Slots : q = NodeAt(p, s) /\ q \in Pages /\ Leaf(p, s)
    BY <1>2, <1>3, <1>4, <1>7, NextIs
  <2>3. Chain(p)'
    BY <1>3, <1>5 DEF Chain
  <2>4. UNCHANGED <<heapVars, load, used, poolLock, tableVars>>
    BY <2>1, <1>5 DEF tableVars
  <2>5. q # NoPage
    BY <2>2, NoPageFacts
  <2> QED BY <1>2, <2>1, <2>2, <2>3, <2>4, <2>5, HandOver
<1> QED BY <1>6, <1>7

(* Every step of a process.                                                *)
LEMMA TableKeeps ==
  ASSUME MemInv, NEW p \in Procs, UNCHANGED <<heapVars, load>>,
         TableStep(p) \/ \E va \in Vas : UseStep(p, va)
  PROVE  MemInv'
<1>1. CASE Switch(p)
  BY <1>1, SwitchKeeps
<1>2. CASE Create(p)
  BY <1>2, CreateKeeps
<1>3. CASE Cleanup(p)
  BY <1>3, CleanupKeeps
<1>4. CASE ActivateBase(p)
  BY <1>4, ActivateKeeps
<1>5. ASSUME NEW va \in Vas, NEW f \in Frames \ frames, SetPage(p, va, f) PROVE MemInv'
  BY <1>5, SetPageKeeps
<1>6. ASSUME NEW va \in Vas, ClearPage(p, va) PROVE MemInv'
  BY <1>6, ClearPageKeeps
<1>7. CASE Walk(p)
  BY <1>7, WalkMisses, WalkWrites
<1>8. CASE GotPage(p)
  <2>1. CASE Created(p)
    BY <1>8, <2>1, CreateFailed, CreateSucceeds
  <2>2. CASE Grown(p)
    BY <1>8, <2>2, GrownKeeps
  <2>3. CASE Failed(p)
    BY <1>8, <2>3, FailedFirst, FailedLater
  <2> QED BY <1>8, <2>1, <2>2, <2>3 DEF GotPage
<1>9. CASE Unwind(p)
  BY <1>9, UnwindKeeps
<1>10. CASE FillNode(p)
  BY <1>10, FillKeeps
<1>11. CASE ClearNode(p)
  BY <1>11, ClearKeeps
<1>12. CASE Unlink(p)
  BY <1>12, UnlinkKeeps
<1>13. CASE Run(p) /\ GetScan(p, 1) /\ UNCHANGED tableVars
  BY <1>13, ScanKeeps
<1>14. CASE Run(p) /\ GetFlip(p) /\ UNCHANGED tableVars
  BY <1>14, FlipKeeps
<1>15. CASE DestroyNext(p)
  BY <1>15, DestroyKeeps
<1>16. CASE Destroyed(p)
  BY <1>16, DestroyedKeeps
<1>17. ASSUME NEW va \in Vas, UseStep(p, va) PROVE MemInv'
  BY <1>17, UseKeeps
<1> QED BY <1>1, <1>2, <1>3, <1>4, <1>5, <1>6, <1>7, <1>8, <1>9, <1>10, <1>11, <1>12, <1>13,
             <1>14, <1>15, <1>16, <1>17
        DEF TableStep

(* A process moves nobody else.                                            *)
LEMMA OnlyItself ==
  ASSUME PoolTypes, NEW p \in Procs, TableStep(p) \/ \E va \in Vas : UseStep(p, va)
  PROVE  \A a \in Actors : a # p => at'[a] = at[a] /\ hand'[a] = hand[a]
<1> DEFINE Others == \A a \in Actors : a # p => at'[a] = at[a] /\ hand'[a] = hand[a]
<1>0. at \in [Actors -> Places] /\ hand \in [Actors -> SUBSET Pages]
  BY DEF PoolTypes
<1>1. (at' = at \/ \E place : at' = [at EXCEPT ![p] = place]) /\
        (hand' = hand \/ \E H : hand' = [hand EXCEPT ![p] = H]) => Others
  BY <1>0
<1>2. CASE Switch(p) \/ Create(p) \/ Cleanup(p) \/ ActivateBase(p)
  BY <1>1, <1>2 DEF Switch, Create, Cleanup, ActivateBase, Start, Goto, poolVars
<1>3. ASSUME NEW va \in Vas, ClearPage(p, va) \/ \E f \in Frames \ frames : SetPage(p, va, f) PROVE Others
  BY <1>1, <1>3 DEF ClearPage, SetPage, Start, Goto, poolVars
<1>4. CASE Walk(p) \/ Unwind(p) \/ FillNode(p) \/ Unlink(p)
  BY <1>0, <1>4 DEF Walk, Unwind, FillNode, Unlink, FreeFill, Done, Goto
<1>5. CASE GotPage(p)
  <2>1. hand' = [hand EXCEPT ![p] = {}] /\ (Created(p) \/ Grown(p) \/ Failed(p))
    BY <1>5 DEF GotPage
  <2>2. ASSUME Created(p) PROVE \E place : at' = [at EXCEPT ![p] = place]
    BY <2>2 DEF Created, Done, Goto
  <2>3. ASSUME Grown(p) PROVE \E place : at' = [at EXCEPT ![p] = place]
    BY <2>3 DEF Grown, Goto
  <2>4. ASSUME Failed(p) PROVE \E place : at' = [at EXCEPT ![p] = place]
    BY <2>4 DEF Failed, Done, Goto
  <2>5. \E place : at' = [at EXCEPT ![p] = place]
    BY ONLY <2>1, <2>2, <2>3, <2>4
  <2> QED BY <1>1, <2>1, <2>5
<1>6. CASE ClearNode(p)
  BY <1>0, <1>6 DEF ClearNode, FreeBit, Goto
<1>7. CASE GetScan(p, 1) \/ GetFlip(p)
  BY <1>0, <1>7 DEF GetScan, GetFlip, Goto
<1>8. CASE DestroyNext(p) \/ Destroyed(p)
  BY <1>0, <1>8 DEF DestroyNext, Destroyed, Done, Goto
<1>9. ASSUME NEW va \in Vas, UseStep(p, va) PROVE Others
  BY <1>1, <1>9 DEF UseStep, SetDirty, SetAccessed, Access, poolVars
<1> QED BY <1>2, <1>3, <1>4, <1>5, <1>6, <1>7, <1>8, <1>9 DEF TableStep

-----------------------------------------------------------------------------
(* A translation that the processor has is the one in the tree of the      *)
(* process that runs, whose entry has the bits that the processor set.     *)
Cached(e) ==
  /\ FrameAt(running, e.va) = e.frame
  /\ Cell(running, e.va).accessed
  /\ e.dirty => Cell(running, e.va).dirty

(* The processor uses the tree of the process that runs; the kernel's own  *)
(* tables map no user address.                                             *)
CacheInv ==
  /\ root[running] # NoPage => cr3 = root[running]
  /\ root[running] = NoPage /\ cr3 # BasePml4 => at[running] = "activate" /\ walk[running].root = cr3
  /\ cr3 = BasePml4 => tlb = {}
  /\ \A e \in tlb : Cached(e)

(* An address that is mapped is found by the walk that the processor does. *)
LEMMA EntryIs ==
  ASSUME NEW p \in Procs, NEW va, FrameAt(p, va) # NoPage
  PROVE  /\ Top(p) = (IF root[p] # NoPage THEN root[p] ELSE walk[p].root)
         /\ Entry(Top(p), va) = Cell(p, va) /\ Mapped(Top(p), va)
         /\ GetPage(Top(p), va) = FrameAt(p, va)
<1>1. \A q : Live(p, q) # NoPage => Live(p, q) = q
  BY DEF Live
<1>2. \A q, i : Down(q, i) # NoPage => q # NoPage
  BY DEF Down
<1>3. PICK t : t = LivePt(p, va[1], va[2])
  OBVIOUS
<1>4. t # NoPage /\ pte[t][va[3]].present /\ FrameAt(p, va) = Live(p, pte[t][va[3]].frame)
  BY <1>3 DEF FrameAt
<1>5. t = Down(LivePd(p, va[1]), va[2]) /\ LivePd(p, va[1]) # NoPage
  <2>1. t = Live(p, Down(LivePd(p, va[1]), va[2]))
    BY <1>3 DEF LivePt
  <2>2. t = Down(LivePd(p, va[1]), va[2])
    BY <2>1, <1>1, <1>4
  <2> QED BY <2>2, <1>2, <1>4
<1>6. LivePd(p, va[1]) = Down(LivePdp(p), va[1]) /\ LivePdp(p) # NoPage
  BY <1>1, <1>2, <1>5 DEF LivePd
<1>7. LivePdp(p) = Down(Top(p), 0) /\ Top(p) # NoPage
  BY <1>1, <1>2, <1>6 DEF LivePdp
<1>8. Top(p) = (IF root[p] # NoPage THEN root[p] ELSE walk[p].root)
  BY <1>1, <1>7 DEF Top
<1>9. Pt(Top(p), va) = t
  BY <1>5, <1>6, <1>7 DEF Pt, Pd, Pdp
<1>10. NodeAt(p, SlotOf(va)) = t
  BY <1>3 DEF NodeAt, SlotOf
<1>11. Entry(Top(p), va) = pte[t][va[3]]
  BY <1>4, <1>9 DEF Entry
<1>12. GetPage(Top(p), va) = pte[t][va[3]].frame /\ Mapped(Top(p), va)
  BY <1>4, <1>11 DEF GetPage, Mapped
<1> QED BY <1>1, <1>4, <1>8, <1>10, <1>11, <1>12 DEF Cell

(* The map, address by address.                                            *)
MapCell(p, va) ==
  IF root[p] # NoPage /\ FrameAt(p, va) # NoPage
  THEN [frame |-> FrameAt(p, va), dirty |-> Cell(p, va).dirty]
  ELSE NotMapped

(* AddressMap is the map of the entries.                                   *)
LEMMA MapIs == AddressMap = [p \in Procs |-> [va \in Vas |-> MapCell(p, va)]]
<1>1. ASSUME NEW p \in Procs, NEW va \in Vas
      PROVE  MapCell(p, va) = IF root[p] # NoPage /\ FrameAt(p, va) # NoPage
                              THEN [frame |-> FrameAt(p, va), dirty |-> Entry(root[p], va).dirty]
                              ELSE NotMapped
  BY EntryIs DEF MapCell
<1> QED BY <1>1 DEF AddressMap

(* The same of the state after a step.                                     *)
LEMMA MapIsNext == (AddressMap = [p \in Procs |-> [va \in Vas |-> MapCell(p, va)]])'
BY MapIs, PTL

(* A step that leaves the map of p as it is.                               *)
MapKept(p) == root'[p] = root[p] /\ (root[p] = NoPage \/ SameMap(p))

(* Its entries stay.                                                       *)
LEMMA CellsKept ==
  ASSUME NEW p \in Procs, MapKept(p)
  PROVE  \A va \in Vas : MapCell(p, va)' = MapCell(p, va)
BY PathFacts DEF MapKept, SameMap, MapCell, NotMapped

(* No entry of the map changes.                                             *)
LEMMA MapSame ==
  ASSUME \A p \in Procs : \A va \in Vas : MapCell(p, va)' = MapCell(p, va)
  PROVE  AddressMap' = AddressMap
<1>1. [p \in Procs |-> [va \in Vas |-> MapCell(p, va)']] = [p \in Procs |-> [va \in Vas |-> MapCell(p, va)]]
  OBVIOUS
<1> QED BY <1>1, MapIs, MapIsNext

(* No process's map changes.                                               *)
LEMMA MapStays ==
  ASSUME \A p \in Procs : MapKept(p)
  PROVE  AddressMap' = AddressMap
<1>1. \A p \in Procs : \A va \in Vas : MapCell(p, va)' = MapCell(p, va)
  BY CellsKept
<1> QED BY <1>1, MapSame

(* One address of the map changes.                                         *)
LEMMA MapEdit ==
  ASSUME NEW p \in Procs, NEW va \in Vas, NEW x,
         \A r \in Procs : \A w \in Vas : MapCell(r, w)' = IF r = p /\ w = va THEN x ELSE MapCell(r, w)
  PROVE  AddressMap' = [AddressMap EXCEPT ![p][va] = x]
<1>1. [r \in Procs |-> [w \in Vas |-> MapCell(r, w)']]
      = [[r \in Procs |-> [w \in Vas |-> MapCell(r, w)]] EXCEPT ![p][va] = x]
  OBVIOUS
<1> QED BY <1>1, MapIs, MapIsNext

(* The map of p is emptied.                                                *)
LEMMA MapCleared ==
  ASSUME NEW p \in Procs, \A r \in Procs : r # p => MapKept(r), root'[p] = NoPage
  PROVE  Maps!Clear(p)
<1>1. \A r \in Procs : r # p => \A va \in Vas : MapCell(r, va)' = MapCell(r, va)
  BY CellsKept
<1>2. \A va \in Vas : MapCell(p, va)' = NotMapped
  BY DEF MapCell, NotMapped
<1>3. [r \in Procs |-> [va \in Vas |-> MapCell(r, va)']]
      = [[r \in Procs |-> [va \in Vas |-> MapCell(r, va)]] EXCEPT ![p] = [va \in Vas |-> NotMapped]]
  BY <1>1, <1>2
<1>4. AddressMap' = [AddressMap EXCEPT ![p] = [va \in Vas |-> NotMapped]]
  BY <1>3, MapIs, MapIsNext
<1> QED BY <1>4 DEF Maps!Clear, Maps!Nothing

-----------------------------------------------------------------------------
(* A step of process p is a step of p only.                                *)
LEMMA OnlyItsOwn ==
  ASSUME MemInv, NEW p \in Procs, UNCHANGED <<heapVars, load>>,
         TableStep(p) \/ \E va \in Vas : UseStep(p, va)
  PROVE  OnlyBy(p)
<1>0. PoolTypes /\ TreeTypes
  BY DEF MemInv, Trees
<1>1. \A a \in Actors : a # p => at'[a] = at[a] /\ hand'[a] = hand[a]
  BY <1>0, OnlyItself
<1>2. load' = load /\ arena' = arena
  BY DEF heapVars
<1> DEFINE Edited == /\ walk' = walk \/ \E w : walk' = [walk EXCEPT ![p] = w]
                     /\ gone' = gone \/ \E g : gone' = [gone EXCEPT ![p] = g]
                     /\ root' = root \/ \E r : root' = [root EXCEPT ![p] = r]
                     /\ node' = node /\ pte' = pte
<1>3. ASSUME Edited PROVE OnlyBy(p)
  BY <1>0, <1>1, <1>2, <1>3 DEF OnlyBy, TreeTypes
<1>4. CASE Switch(p) \/ Create(p) \/ Cleanup(p) \/ ActivateBase(p)
  <2>1. Edited
    BY <1>4 DEF Switch, Create, Cleanup, ActivateBase, Start, poolVars
  <2> QED BY <1>3, <2>1
<1>5. ASSUME NEW va \in Vas, NEW f \in Frames \ frames, SetPage(p, va, f) PROVE OnlyBy(p)
  <2>1. Edited
    BY <1>5 DEF SetPage, Start
  <2> QED BY <1>3, <2>1
<1>6. ASSUME NEW va \in Vas, ClearPage(p, va) PROVE OnlyBy(p)
  BY <1>6, ClearPageKeeps
<1>7. CASE Walk(p)
  <2>1. CASE Pt(root[p], walk[p].va) = NoPage
    <3>1. Edited
      BY <1>7, <2>1 DEF Walk
    <3> QED BY <1>3, <3>1
  <2>2. CASE Pt(root[p], walk[p].va) # NoPage
    BY <1>7, <2>2, WalkWrites
  <2> QED BY <2>1, <2>2
<1>8. CASE GotPage(p)
  <2>1. CASE Created(p) \/ Failed(p)
    <3>1. Edited
      BY <1>8, <2>1 DEF GotPage, Created, Failed, Done
    <3> QED BY <1>3, <3>1
  <2>2. CASE Grown(p)
    BY <1>8, <2>2, GrownKeeps
  <2> QED BY <1>8, <2>1, <2>2 DEF GotPage
<1>9. CASE Unwind(p)
  <2>1. Edited
    BY <1>9 DEF Unwind, tableVars
  <2> QED BY <1>3, <2>1
<1>10. CASE FillNode(p)
  BY <1>10, FillKeeps
<1>11. CASE ClearNode(p)
  <2>1. Edited
    BY <1>11 DEF ClearNode
  <2> QED BY <1>3, <2>1
<1>12. CASE Unlink(p)
  BY <1>12, UnlinkKeeps
<1>13. CASE UNCHANGED tableVars
  <2>1. Edited
    BY <1>13 DEF tableVars
  <2> QED BY <1>3, <2>1
<1>14. CASE DestroyNext(p) \/ Destroyed(p)
  <2>1. Edited
    BY <1>14 DEF DestroyNext, Destroyed, Done
  <2> QED BY <1>3, <2>1
<1>15. ASSUME NEW va \in Vas, UseStep(p, va) PROVE OnlyBy(p)
  BY <1>15, UseKeeps
<1> QED BY <1>4, <1>5, <1>6, <1>7, <1>8, <1>9, <1>10, <1>11, <1>12, <1>13, <1>14, <1>15 DEF TableStep

(* What the processor has stays current when the tree of the process that  *)
(* runs keeps its map.                                                     *)
LEMMA CacheStays ==
  ASSUME MemInv, CacheInv, NEW r \in Procs, r = running, UNCHANGED <<running, root, cr3, tlb>>,
         at[r] = "activate" => at'[r] = "activate" /\ walk'[r] = walk[r],
         root[r] # NoPage \/ at[r] = "activate" => SameMap(r)
  PROVE  CacheInv'
<1>1. tlb \subseteq [va : Vas, frame : Frames, dirty : BOOLEAN]
  BY DEF MemInv, Trees, TreeTypes
<1>2. ASSUME NEW e \in tlb PROVE Cached(e)'
  <2>1. FrameAt(r, e.va) = e.frame /\ Cell(r, e.va).accessed /\ (e.dirty => Cell(r, e.va).dirty)
    BY <1>2 DEF CacheInv, Cached
  <2>2. e.va \in IndexPath /\ e.frame # NoPage
    BY <1>1, <1>2, PathFacts, NoPageFacts
  <2>3. SameMap(r)
    BY <1>2 DEF CacheInv
  <2>4. FrameAt(r, e.va)' = e.frame /\ Cell(r, e.va)' = Cell(r, e.va)
    BY <2>1, <2>2, <2>3 DEF SameMap
  <2>5. running' = r
    OBVIOUS
  <2>6. FrameAt(running, e.va)' = FrameAt(r, e.va)' /\ Cell(running, e.va)' = Cell(r, e.va)'
    BY <2>5
  <2> QED BY <2>1, <2>4, <2>6 DEF Cached
<1>3. \A e \in tlb' : Cached(e)'
  BY <1>2
<1> QED BY <1>3 DEF CacheInv

(* A step of p that no map shows.                                          *)
LEMMA Stutters ==
  ASSUME MemInv, CacheInv, NEW p \in Procs, OnlyBy(p), UNCHANGED <<running, root, cr3, tlb>>,
         at[p] # "activate", root[p] = NoPage \/ SameMap(p)
  PROVE  CacheInv' /\ AddressMap' = AddressMap
<1>1. \A r \in Procs : r # p => SameMap(r) /\ at'[r] = at[r] /\ walk'[r] = walk[r]
  BY OthersMap, ActorFacts DEF OnlyBy
<1>2. \A r \in Procs : MapKept(r)
  BY <1>1 DEF MapKept
<1>3. running \in Procs
  BY DEF MemInv, Trees, TreeTypes
<1>4. PICK r \in Procs : r = running
  BY <1>3
<1>5. at[r] = "activate" => at'[r] = "activate" /\ walk'[r] = walk[r]
  BY <1>1
<1>6. root[r] # NoPage \/ at[r] = "activate" => SameMap(r)
  BY <1>1
<1>7. CacheInv'
  BY <1>4, <1>5, <1>6, CacheStays
<1> QED BY <1>2, <1>7, MapStays

(* ... because it leaves the tables as they are.                           *)
LEMMA QuietTables ==
  ASSUME MemInv, CacheInv, NEW p \in Procs, OnlyBy(p),
           UNCHANGED <<running, root, cr3, tlb, node, pte, gone>>,
         at[p] # "activate", walk'[p].root = walk[p].root
  PROVE  CacheInv' /\ AddressMap' = AddressMap
<1>1. Top(p)' = Top(p)
  BY DEF Top, Live
<1>2. SameMap(p)
  BY <1>1, TreeQuietMap
<1> QED BY <1>2, Stutters

-----------------------------------------------------------------------------
(* What a step of a process is for the processor and for the maps.         *)
Shown == CacheInv' /\ (Maps!Next \/ AddressMap' = AddressMap)

(* Another process gets the processor.                                     *)
LEMMA SwitchShown ==
  ASSUME MemInv, CacheInv, NEW p \in Procs, OnlyBy(p), Switch(p)
  PROVE  Shown
<1>1. /\ running' = p /\ cr3' = (IF root[p] = NoPage THEN BasePml4 ELSE root[p]) /\ tlb' = {}
      /\ root' = root /\ node' = node /\ pte' = pte /\ walk' = walk /\ gone' = gone
  BY DEF Switch
<1>2. CacheInv'
  BY <1>1, NoPageFacts DEF CacheInv
<1>3. Top(p)' = Top(p)
  BY <1>1 DEF Top, Live
<1>4. SameMap(p)
  BY <1>1, <1>3, TreeQuietMap
<1>5. \A r \in Procs : MapKept(r)
  BY <1>1, <1>4, OthersMap DEF MapKept
<1> QED BY <1>2, <1>5, MapStays DEF Shown

(* process_cleanup gives the root up: the map of p is empty from then on.  *)
LEMMA CleanupShown ==
  ASSUME MemInv, CacheInv, NEW p \in Procs, OnlyBy(p), Cleanup(p)
  PROVE  Shown
<1>0. PoolTypes /\ TreeTypes /\ p \in Actors
  BY ActorFacts DEF MemInv, Trees
<1>1. PICK r, w : r = root[p] /\ w = [NoWalk EXCEPT !.op = "destroy", !.root = root[p]]
  OBVIOUS
<1>2. /\ running = p /\ running' = p /\ cr3' = cr3 /\ tlb' = tlb /\ r # NoPage
      /\ root' = [root EXCEPT ![p] = NoPage] /\ walk' = [walk EXCEPT ![p] = w]
      /\ at' = [at EXCEPT ![p] = "activate"]
      /\ node' = node /\ pte' = pte /\ gone' = gone /\ at[p] = "idle"
  BY <1>1 DEF Cleanup, Start, Goto, Run
<1>3. root'[p] = NoPage /\ walk'[p].root = r /\ at'[p] = "activate"
  BY <1>0, <1>1, <1>2 DEF TreeTypes, PoolTypes, NoWalk
<1>4. Top(p)' = Top(p)
  BY <1>1, <1>2, <1>3 DEF Top, Live
<1>5. SameMap(p)
  BY <1>2, <1>4, TreeQuietMap
<1>6. cr3 = r
  BY <1>1, <1>2 DEF CacheInv
<1>7. tlb \subseteq [va : Vas, frame : Frames, dirty : BOOLEAN]
  BY <1>0 DEF TreeTypes
<1>8. ASSUME NEW e \in tlb PROVE Cached(e)'
  <2>1. FrameAt(p, e.va) = e.frame /\ Cell(p, e.va).accessed /\ (e.dirty => Cell(p, e.va).dirty)
    BY <1>2, <1>8 DEF CacheInv, Cached
  <2>2. e.va \in IndexPath /\ e.frame # NoPage
    BY <1>7, <1>8, PathFacts, NoPageFacts
  <2>3. FrameAt(p, e.va)' = e.frame /\ Cell(p, e.va)' = Cell(p, e.va)
    BY <2>1, <2>2, <1>5 DEF SameMap
  <2>4. FrameAt(running, e.va)' = FrameAt(p, e.va)' /\ Cell(running, e.va)' = Cell(p, e.va)'
    BY <1>2
  <2> QED BY <2>1, <2>3, <2>4 DEF Cached
<1>9. CacheInv'
  <2>1. \A e \in tlb' : Cached(e)'
    BY <1>2, <1>8
  <2>2. cr3' = BasePml4 => tlb' = {}
    BY <1>2 DEF CacheInv
  <2> QED BY <2>1, <2>2, <1>2, <1>3, <1>6 DEF CacheInv
<1>10. \A q \in Procs : q # p => MapKept(q)
  BY OthersMap DEF MapKept, OnlyBy
<1>11. Maps!Clear(p)
  BY <1>3, <1>10, MapCleared
<1> QED BY <1>9, <1>11 DEF Shown, Maps!Next

(* pml4_activate (NULL).                                                   *)
LEMMA ActivateShown ==
  ASSUME MemInv, CacheInv, NEW p \in Procs, OnlyBy(p), ActivateBase(p)
  PROVE  Shown
<1>1. /\ running = p /\ running' = p /\ cr3' = BasePml4 /\ tlb' = {} /\ root' = root /\ at[p] = "activate"
  BY DEF ActivateBase, Run
<1>2. root[p] = NoPage
  <2>1. walk[p].op = "destroy" /\ Phase(p)
    BY <1>1, AtFacts DEF MemInv, Trees
  <2> QED BY <2>1 DEF Phase
<1>3. CacheInv'
  BY <1>1, <1>2 DEF CacheInv
<1>4. \A r \in Procs : MapKept(r)
  BY <1>1, <1>2, OthersMap DEF MapKept
<1> QED BY <1>3, <1>4, MapStays DEF Shown

(* pml4_create has its page: the process has an empty tree, and the        *)
(* processor has nothing of it.                                            *)
LEMMA CreateShown ==
  ASSUME MemInv, CacheInv, NEW p \in Procs, OnlyBy(p), UNCHANGED <<heapVars, load>>,
         GotPage(p), Created(p), hand[p] # {}
  PROVE  Shown
<1>1. TreeTypes /\ Phase(p) /\ PoolTypes
  BY DEF MemInv, Trees
<1>2. at[p] = "got" /\ walk[p].op = "create" /\ root[p] = NoPage
  BY <1>1 DEF GotPage, Created, Phase
<1>3. PICK q \in Pages : hand[p] = {q}
  BY <1>1, <1>2 DEF Phase
<1>4. Min(hand[p]) = q
  BY <1>3, MinOne, NoPageFacts
<1>5. /\ running = p /\ running' = p /\ root' = [root EXCEPT ![p] = q] /\ cr3' = q /\ tlb' = tlb
      /\ node' = node /\ pte' = pte /\ gone' = gone
  BY <1>3, <1>4 DEF GotPage, Created, Run
<1>6. root'[p] = q /\ q # NoPage /\ q # BasePml4
  BY <1>1, <1>5, NoPageFacts DEF TreeTypes
<1>7. tlb = {}
  BY <1>2, <1>5 DEF CacheInv
<1>8. CacheInv'
  BY <1>5, <1>6, <1>7 DEF CacheInv
<1>9. Top(p) = NoPage
  BY <1>2, AtFacts
<1>10. gone[p] = {}
  BY <1>2, AtFacts
<1>11. \A s \in Slots : NodeAt(p, s) = NoPage
  BY <1>1, <1>9, NoTree
<1>12. ASSUME NEW va \in IndexPath PROVE FrameAt(p, va) = NoPage
  <2>1. SlotOf(va) \in Slots
    BY PathFacts
  <2> QED BY <2>1, <1>11, FrameIs
<1>13. SameMap(p)
  BY <1>3, CreateSucceeds
<1>14. \A r \in Procs : \A va \in Vas : MapCell(r, va)' = MapCell(r, va)
  <2>1. ASSUME NEW r \in Procs, r # p, NEW va \in Vas PROVE MapCell(r, va)' = MapCell(r, va)
    <3>1. MapKept(r)
      BY <2>1, OthersMap DEF MapKept, OnlyBy
    <3> QED BY <3>1, CellsKept
  <2>2. ASSUME NEW va \in Vas PROVE MapCell(p, va)' = MapCell(p, va)
    <3>1. FrameAt(p, va)' = NoPage /\ FrameAt(p, va) = NoPage
      BY <1>12, <1>13, PathFacts DEF SameMap
    <3> QED BY <3>1 DEF MapCell, NotMapped
  <2> QED BY <2>1, <2>2
<1> QED BY <1>8, <1>14, MapSame DEF Shown

-----------------------------------------------------------------------------
(* One entry of a page table of p is written: what the map and the other   *)
(* entries say.                                                            *)
LEMMA OneEntry ==
  ASSUME MemInv, NEW p \in Procs, NEW va \in IndexPath, NEW t, NEW e \in Ptes,
         t = NodeAt(p, SlotOf(va)), t # NoPage, pte' = [pte EXCEPT ![t][va[3]] = e], node' = node,
         gone[p] = {}, gone'[p] = gone[p], Top(p)' = Top(p), e.present => e.frame \in Frames
  PROVE  /\ \A x \in IndexPath : x # va =>
              FrameAt(p, x)' = FrameAt(p, x) /\ (FrameAt(p, x) # NoPage => Cell(p, x)' = Cell(p, x))
         /\ FrameAt(p, va)' = IF e.present THEN e.frame ELSE NoPage
         /\ Cell(p, va)' = e
<1>1. /\ \A s \in Slots : NodeAt(p, s)' = NodeAt(p, s)
      /\ \A x \in IndexPath : x # va => FrameAt(p, x)' = FrameAt(p, x)
      /\ FrameAt(p, va)' = IF e.present THEN Live(p, e.frame) ELSE NoPage
  BY EntryWritten
<1>2. TreeTypes /\ Injective
  BY DEF MemInv, Trees
<1>3. SlotOf(va) \in Slots /\ va[3] \in Index
  BY PathFacts
<1>4. t \in Pages
  BY <1>2, <1>3, NodeType
<1>5. pte'[t][va[3]] = e /\ \A q \in Pages : \A i \in Index : q # t \/ i # va[3] => pte'[q][i] = pte[q][i]
  BY <1>2, <1>3, <1>4 DEF TreeTypes
<1>6. NodeAt(p, SlotOf(va))' = t
  BY <1>1, <1>3
<1>7. Cell(p, va)' = e
  BY <1>5, <1>6 DEF Cell
<1>8. ASSUME NEW x \in IndexPath, x # va, FrameAt(p, x) # NoPage PROVE Cell(p, x)' = Cell(p, x)
  <2>1. SlotOf(x) \in Slots /\ x[3] \in Index
    BY PathFacts
  <2>2. PICK q : q = NodeAt(p, SlotOf(x))
    OBVIOUS
  <2>3. q # NoPage
    BY <1>8, <2>2, FrameIs
  <2>4. q \in Pages
    BY <1>2, <2>1, <2>2, <2>3, NodeType
  <2>5. q # t \/ x[3] # va[3]
    <3>1. ASSUME q = t PROVE SlotOf(x) = SlotOf(va)
      BY <3>1, <1>2, <1>3, <2>1, <2>2, <2>3 DEF Injective
    <3> QED BY <3>1, <1>8, PathFacts
  <2>6. NodeAt(p, SlotOf(x))' = q
    BY <1>1, <2>1, <2>2
  <2> QED BY <1>5, <2>1, <2>2, <2>4, <2>5, <2>6 DEF Cell
<1>9. Live(p, e.frame) = e.frame
  BY DEF Live
<1> QED BY <1>1, <1>7, <1>8, <1>9

(* The map of one address changes, in a tree that is in use.               *)
LEMMA EntryShown ==
  ASSUME MemInv, NEW p \in Procs, OnlyBy(p), NEW va \in Vas, NEW e \in Ptes, root[p] # NoPage, root' = root,
         \A x \in IndexPath : x # va =>
           FrameAt(p, x)' = FrameAt(p, x) /\ (FrameAt(p, x) # NoPage => Cell(p, x)' = Cell(p, x)),
         FrameAt(p, va)' = IF e.present THEN e.frame ELSE NoPage,
         Cell(p, va)' = e, e.present => e.frame \in Frames
  PROVE  AddressMap' = [AddressMap EXCEPT ![p][va] =
                         IF e.present THEN [frame |-> e.frame, dirty |-> e.dirty] ELSE NotMapped]
<1>1. PICK x : x = IF e.present THEN [frame |-> e.frame, dirty |-> e.dirty] ELSE NotMapped
  OBVIOUS
<1>2. MapCell(p, va)' = x
  BY <1>1, NoPageFacts DEF MapCell, NotMapped
<1>3. ASSUME NEW w \in Vas, w # va PROVE MapCell(p, w)' = MapCell(p, w)
  <2>1. FrameAt(p, w)' = FrameAt(p, w) /\ (FrameAt(p, w) # NoPage => Cell(p, w)' = Cell(p, w))
    BY <1>3, PathFacts
  <2> QED BY <2>1 DEF MapCell, NotMapped
<1>4. ASSUME NEW r \in Procs, r # p, NEW w \in Vas PROVE MapCell(r, w)' = MapCell(r, w)
  <2>1. MapKept(r)
    BY <1>4, OthersMap DEF MapKept
  <2> QED BY <2>1, CellsKept
<1>5. \A r \in Procs : \A w \in Vas : MapCell(r, w)' = IF r = p /\ w = va THEN x ELSE MapCell(r, w)
  BY <1>2, <1>3, <1>4
<1> QED BY <1>1, <1>5, MapEdit

(* What the maps hold.                                                     *)
LEMMA MapAt ==
  ASSUME MemInv, NEW p \in Procs, NEW va \in Vas
  PROVE  /\ AddressMap[p][va] = MapCell(p, va)
         /\ MapCell(p, va) # NotMapped <=> root[p] # NoPage /\ FrameAt(p, va) # NoPage
         /\ MapCell(p, va) # NotMapped => MapCell(p, va).frame = FrameAt(p, va)
                                          /\ MapCell(p, va).dirty = Cell(p, va).dirty
BY MapIs DEF MapCell, NotMapped

(* The processor drops what it has of va, and gets what the new entry of   *)
(* va says, if anything.                                                   *)
LEMMA CacheEdit ==
  ASSUME MemInv, CacheInv, NEW p \in Procs, running = p, running' = p, root' = root, cr3' = cr3,
         root[p] # NoPage, NEW va \in Vas,
         \A x \in IndexPath : x # va =>
           FrameAt(p, x)' = FrameAt(p, x) /\ (FrameAt(p, x) # NoPage => Cell(p, x)' = Cell(p, x)),
         \A e \in tlb' : \/ e \in tlb /\ e.va # va
                         \/ e.va = va /\ FrameAt(p, va)' = e.frame
                            /\ Cell(p, va)'.accessed /\ (e.dirty => Cell(p, va)'.dirty)
  PROVE  CacheInv'
<1>0. tlb \subseteq [va : Vas, frame : Frames, dirty : BOOLEAN] /\ root \in [Procs -> Pages \cup {NoPage}]
  BY DEF MemInv, Trees, TreeTypes
<1>1. ASSUME NEW e \in tlb' PROVE Cached(e)'
  <2>1. CASE e \in tlb /\ e.va # va
    <3>1. FrameAt(p, e.va) = e.frame /\ Cell(p, e.va).accessed /\ (e.dirty => Cell(p, e.va).dirty)
      BY <2>1 DEF CacheInv, Cached
    <3>2. e.va \in IndexPath /\ e.frame # NoPage
      BY <1>0, <2>1, PathFacts, NoPageFacts
    <3>3. FrameAt(p, e.va)' = e.frame /\ Cell(p, e.va)' = Cell(p, e.va)
      BY <2>1, <3>1, <3>2
    <3>4. FrameAt(running, e.va)' = FrameAt(p, e.va)' /\ Cell(running, e.va)' = Cell(p, e.va)'
      OBVIOUS
    <3> QED BY <3>1, <3>3, <3>4 DEF Cached
  <2>2. CASE e.va = va /\ FrameAt(p, va)' = e.frame /\ Cell(p, va)'.accessed /\
               (e.dirty => Cell(p, va)'.dirty)
    <3>1. FrameAt(running, e.va)' = FrameAt(p, va)' /\ Cell(running, e.va)' = Cell(p, va)'
      BY <2>2
    <3> QED BY <2>2, <3>1 DEF Cached
  <2> QED BY <1>1, <2>1, <2>2
<1>2. cr3 = root[p] /\ cr3 # BasePml4
  BY <1>0, NoPageFacts DEF CacheInv
<1>3. \A e \in tlb' : Cached(e)'
  BY <1>1
<1> QED BY <1>2, <1>3 DEF CacheInv

-----------------------------------------------------------------------------
(* pml4_set_page writes its entry: the page is mapped from then on.        *)
LEMMA SetShown ==
  ASSUME MemInv, CacheInv, NEW p \in Procs, OnlyBy(p), Walk(p), Pt(root[p], walk[p].va) # NoPage
  PROVE  Shown
<1>1. PICK va, t, f, e : /\ va = walk[p].va /\ t = Pt(root[p], va) /\ f = walk[p].frame
                         /\ e = [frame |-> f, present |-> TRUE, accessed |-> FALSE, dirty |-> FALSE]
  OBVIOUS
<1>2. /\ running = p /\ running' = p /\ root' = root /\ node' = node /\ walk' = [walk EXCEPT ![p] = NoWalk]
      /\ pte' = [pte EXCEPT ![t][va[3]] = e]
      /\ gone' = gone /\ cr3' = cr3 /\ tlb' = tlb /\ at[p] = "walk" /\ t # NoPage
  BY <1>1 DEF Walk, Done, Run
<1>3. TreeTypes /\ Phase(p) /\ FrameInv /\ Chain(p)
  BY DEF MemInv, Trees
<1>4. walk[p].op = "set" /\ gone[p] = {} /\ Top(p) = root[p] /\ root[p] \in Pages
  BY <1>2, AtFacts
<1>5. va \in Vas /\ va \in IndexPath /\ f \in Frames /\ e \in Ptes /\ e.frame = f /\ e.present /\ ~e.dirty
  BY <1>1, <1>3, <1>4, PathFacts DEF Phase, Ptes
<1>6. root[p] # NoPage /\ f # NoPage
  BY <1>4, <1>5, NoPageFacts
<1>7. Top(p)' = Top(p)
  BY <1>2, <1>6 DEF Top, Live
<1>8. t = NodeAt(p, SlotOf(va))
  BY <1>1, <1>4, <1>5, WalkIs
<1>9. /\ \A x \in IndexPath : x # va =>
            FrameAt(p, x)' = FrameAt(p, x) /\ (FrameAt(p, x) # NoPage => Cell(p, x)' = Cell(p, x))
      /\ FrameAt(p, va)' = f /\ Cell(p, va)' = e
  BY <1>2, <1>4, <1>5, <1>7, <1>8, OneEntry
<1>10. FrameAt(p, va) = NoPage
  BY <1>1, <1>3, <1>4 DEF Chain
<1>11. CacheInv'
  <2>1. ASSUME NEW e1 \in tlb PROVE e1.va # va
    <3>1. FrameAt(p, e1.va) = e1.frame /\ e1.frame \in Frames
      BY <1>2, <1>3, <2>1 DEF CacheInv, Cached, TreeTypes
    <3> QED BY <3>1, <1>10, NoPageFacts
  <2>2. tlb' = tlb
    BY <1>2
  <2> QED BY <2>1, <2>2, <1>2, <1>5, <1>6, <1>9, CacheEdit
<1>12. AddressMap' = [AddressMap EXCEPT ![p][va] = [frame |-> f, dirty |-> FALSE]]
  <2>1. AddressMap' = [AddressMap EXCEPT ![p][va] =
                         IF e.present THEN [frame |-> e.frame, dirty |-> e.dirty] ELSE NotMapped]
    BY <1>2, <1>5, <1>6, <1>9, EntryShown
  <2>2. e.dirty = FALSE
    BY <1>1
  <2> QED BY <2>1, <2>2, <1>5
<1>13. AddressMap[p][va] = NotMapped
  BY <1>5, <1>10, MapAt
<1>14. \A q \in Procs, w \in Vas : AddressMap[q][w] # NotMapped => AddressMap[q][w].frame # f
  <2> SUFFICES ASSUME NEW q \in Procs, NEW w \in Vas, AddressMap[q][w] # NotMapped
               PROVE AddressMap[q][w].frame # f
    OBVIOUS
  <2>1. AddressMap[q][w].frame = FrameAt(q, w)
    BY MapAt
  <2>2. FrameAt(q, w) # f
    BY <1>1, <1>3, <1>6, PathFacts DEF FrameInv
  <2> QED BY <2>1, <2>2
<1>15. Maps!MapPage(p, va, f)
  BY <1>12, <1>13, <1>14 DEF Maps!MapPage, Maps!Set
<1> QED BY <1>5, <1>11, <1>15 DEF Shown, Maps!Next

(* What a step of p on an entry of its own tree does.                      *)
LEMMA OwnEntryIs ==
  ASSUME MemInv, NEW p \in Procs, OnlyBy(p), NEW va \in Vas, AtEntry(p, va), NEW e \in Ptes,
           SetEntry(p, va, e),
         UNCHANGED <<root, node, walk, gone>>, e.present => e.frame \in Frames
  PROVE  /\ \A x \in IndexPath : x # va =>
              FrameAt(p, x)' = FrameAt(p, x) /\ (FrameAt(p, x) # NoPage => Cell(p, x)' = Cell(p, x))
         /\ FrameAt(p, va)' = IF e.present THEN e.frame ELSE NoPage
         /\ Cell(p, va)' = e
         /\ AddressMap' = [AddressMap EXCEPT ![p][va] =
                            IF e.present THEN [frame |-> e.frame, dirty |-> e.dirty] ELSE NotMapped]
<1>1. /\ va \in IndexPath /\ gone[p] = {} /\ Top(p) = root[p] /\ root[p] # NoPage
      /\ Pt(root[p], va) = NodeAt(p, SlotOf(va)) /\ NodeAt(p, SlotOf(va)) \in Pages
  BY AtEntryFacts DEF AtEntry
<1>2. PICK t : t = NodeAt(p, SlotOf(va))
  OBVIOUS
<1>3. pte' = [pte EXCEPT ![t][va[3]] = e] /\ t # NoPage
  BY <1>1, <1>2, NoPageFacts DEF SetEntry
<1>4. Top(p)' = Top(p)
  BY DEF Top, Live
<1>5. /\ \A x \in IndexPath : x # va =>
            FrameAt(p, x)' = FrameAt(p, x) /\ (FrameAt(p, x) # NoPage => Cell(p, x)' = Cell(p, x))
      /\ FrameAt(p, va)' = IF e.present THEN e.frame ELSE NoPage
      /\ Cell(p, va)' = e
  BY <1>1, <1>2, <1>3, <1>4, OneEntry
<1> QED BY <1>1, <1>5, EntryShown

(* What the map and the entry say of each other.                           *)
LEMMA MappedIs ==
  ASSUME MemInv, NEW p \in Procs, NEW va \in Vas, AtEntry(p, va)
  PROVE  /\ root[p] # NoPage /\ running = p /\ Entry(root[p], va) \in Ptes
         /\ Entry(root[p], va).present => Entry(root[p], va).frame \in Frames
         /\ AddressMap[p][va] = IF Entry(root[p], va).present
                                THEN [frame |-> Entry(root[p], va).frame, dirty |-> Entry(root[p], va).dirty]
                                ELSE NotMapped
         /\ AddressMap[p][va] # NotMapped <=> Entry(root[p], va).present
         /\ AddressMap \in [Procs -> [Vas -> {NotMapped} \cup [frame : Frames, dirty : BOOLEAN]]]
<1>1. /\ running = p /\ Entry(root[p], va) = Cell(p, va)
      /\ Entry(root[p], va) \in Ptes
      /\ Entry(root[p], va).present => Entry(root[p], va).frame \in Frames
      /\ FrameAt(p, va) = IF Entry(root[p], va).present THEN Entry(root[p], va).frame ELSE NoPage
  BY AtEntryFacts DEF Mapped, Cell
<1>2. root[p] # NoPage
  BY DEF AtEntry
<1>3. AddressMap[p][va] = IF Entry(root[p], va).present
                          THEN [frame |-> Entry(root[p], va).frame, dirty |-> Entry(root[p], va).dirty]
                          ELSE NotMapped
  <2>1. PICK c : c = Cell(p, va)
    OBVIOUS
  <2>2. AddressMap[p][va] = IF FrameAt(p, va) # NoPage THEN [frame |-> FrameAt(p, va), dirty |-> c.dirty]
                            ELSE NotMapped
    BY <1>2, <2>1, MapAt DEF MapCell
  <2>3. FrameAt(p, va) # NoPage <=> c.present
    BY <1>1, <2>1, NoPageFacts
  <2>4. c.present => FrameAt(p, va) = c.frame
    BY <1>1, <2>1
  <2>5. Entry(root[p], va) = c
    BY <1>1, <2>1
  <2> QED BY <2>2, <2>3, <2>4, <2>5
<1>4. AddressMap[p][va] # NotMapped <=> Entry(root[p], va).present
  BY <1>1, <1>2, MapAt, NoPageFacts
<1>5. ASSUME NEW r \in Procs, NEW w \in Vas
      PROVE  MapCell(r, w) \in {NotMapped} \cup [frame : Frames, dirty : BOOLEAN]
  <2> SUFFICES ASSUME root[r] # NoPage, FrameAt(r, w) # NoPage
               PROVE FrameAt(r, w) \in Frames /\ Cell(r, w).dirty \in BOOLEAN
    BY DEF MapCell
  <2>1. TreeTypes /\ PteFrames /\ w \in IndexPath
    BY PathFacts DEF MemInv, Trees, PteFrames
  <2>2. PICK t : t = NodeAt(r, SlotOf(w))
    OBVIOUS
  <2>3. t # NoPage /\ pte[t][w[3]].present /\ FrameAt(r, w) = Live(r, pte[t][w[3]].frame)
    BY <2>1, <2>2, FrameIs
  <2>4. t \in Pages /\ w[3] \in Index
    BY <2>1, <2>2, <2>3, NodeType, PathFacts
  <2>5. pte[t][w[3]] \in Ptes
    BY <2>1, <2>4 DEF TreeTypes
  <2> QED BY <2>1, <2>2, <2>3, <2>4, <2>5 DEF PteFrames, Live, Cell, Ptes
<1>6. AddressMap \in [Procs -> [Vas -> {NotMapped} \cup [frame : Frames, dirty : BOOLEAN]]]
  BY <1>5, MapIs
<1> QED BY <1>1, <1>2, <1>3, <1>4, <1>6

-----------------------------------------------------------------------------
(* pml4_clear_page unmaps a page, and flushes what the processor has of it. *)
LEMMA ClearShown ==
  ASSUME MemInv, CacheInv, NEW p \in Procs, OnlyBy(p), NEW va \in Vas, ClearPage(p, va)
  PROVE  Shown
<1>1. PICK old : old = Entry(root[p], va)
  OBVIOUS
<1>2. PICK e : e = [old EXCEPT !.present = FALSE, !.frame = NoPage]
  OBVIOUS
<1>3. /\ AtEntry(p, va) /\ old.present /\ SetEntry(p, va, e) /\ tlb' = Flushed(p, va)
      /\ root' = root /\ node' = node /\ walk' = walk /\ gone' = gone /\ running' = running /\ cr3' = cr3
  BY <1>1, <1>2 DEF ClearPage, Mapped
<1>4. /\ root[p] # NoPage /\ running = p /\ old \in Ptes
      /\ AddressMap[p][va] # NotMapped
  BY <1>1, <1>3, MappedIs
<1>5. e \in Ptes /\ ~e.present
  BY <1>2, <1>4 DEF Ptes
<1>6. /\ \A x \in IndexPath : x # va =>
            FrameAt(p, x)' = FrameAt(p, x) /\ (FrameAt(p, x) # NoPage => Cell(p, x)' = Cell(p, x))
      /\ AddressMap' = [AddressMap EXCEPT ![p][va] = NotMapped]
  BY <1>3, <1>5, OwnEntryIs
<1>7. tlb' = {x \in tlb : x.va # va}
  BY <1>3, <1>4 DEF Flushed, CacheInv
<1>8. CacheInv'
  <2>1. \A x \in tlb' : x \in tlb /\ x.va # va
    BY <1>7
  <2> QED BY <2>1, <1>3, <1>4, <1>6, CacheEdit
<1>9. Maps!UnmapPage(p, va)
  BY <1>4, <1>6 DEF Maps!UnmapPage
<1> QED BY <1>8, <1>9 DEF Shown, Maps!Next

(* A bit of an entry is written; the frame stays.                          *)
LEMMA BitShown ==
  ASSUME MemInv, CacheInv, NEW p \in Procs, OnlyBy(p), NEW va \in Vas, AtEntry(p, va),
         NEW old, old = Entry(root[p], va),
         NEW e \in Ptes, SetEntry(p, va, e), e.present = old.present, e.frame = old.frame,
         UNCHANGED <<root, node, walk, gone, running, cr3>>,
         \A x \in tlb' : \/ x \in tlb /\ x.va # va
                         \/ x.va = va /\ x.frame = e.frame /\ e.present /\ e.accessed /\
                              (x.dirty => e.dirty)
  PROVE  Shown
<1>1. /\ root[p] # NoPage /\ running = p /\ old \in Ptes /\ (old.present => old.frame \in Frames)
      /\ AddressMap[p][va] = IF old.present THEN [frame |-> old.frame, dirty |-> old.dirty] ELSE NotMapped
      /\ AddressMap[p][va] # NotMapped <=> old.present
      /\ AddressMap \in [Procs -> [Vas -> {NotMapped} \cup [frame : Frames, dirty : BOOLEAN]]]
  BY MappedIs
<1>2. e.present => e.frame \in Frames
  BY <1>1
<1>3. /\ \A x \in IndexPath : x # va =>
            FrameAt(p, x)' = FrameAt(p, x) /\ (FrameAt(p, x) # NoPage => Cell(p, x)' = Cell(p, x))
      /\ FrameAt(p, va)' = IF e.present THEN e.frame ELSE NoPage
      /\ Cell(p, va)' = e
      /\ AddressMap' = [AddressMap EXCEPT ![p][va] =
                         IF e.present THEN [frame |-> e.frame, dirty |-> e.dirty] ELSE NotMapped]
  BY <1>2, OwnEntryIs
<1>4. CacheInv'
  <2>1. \A x \in tlb' : \/ x \in tlb /\ x.va # va
                        \/ x.va = va /\ FrameAt(p, va)' = x.frame
                           /\ Cell(p, va)'.accessed /\ (x.dirty => Cell(p, va)'.dirty)
    BY <1>3
  <2> QED BY <2>1, <1>1, <1>3, CacheEdit
<1>5. CASE old.present
  <2>1. AddressMap' = [AddressMap EXCEPT ![p][va] = [frame |-> AddressMap[p][va].frame, dirty |-> e.dirty]]
    BY <1>1, <1>3, <1>5
  <2>2. Maps!Mark(p, va, e.dirty) /\ e.dirty \in BOOLEAN
    BY <1>1, <1>5, <2>1 DEF Maps!Mark, Maps!Set, Ptes
  <2> QED BY <1>4, <2>2 DEF Shown, Maps!Next
<1>6. CASE ~old.present
  <2>1. PICK m : m = AddressMap
    OBVIOUS
  <2>2. m \in [Procs -> [Vas -> {NotMapped} \cup [frame : Frames, dirty : BOOLEAN]]] /\ m[p][va] = NotMapped
    BY <1>1, <1>6, <2>1
  <2>3. [m EXCEPT ![p][va] = NotMapped] = m
    BY <2>2
  <2>4. AddressMap' = AddressMap
    BY <1>3, <1>6, <2>1, <2>3
  <2> QED BY <1>4, <2>4 DEF Shown
<1> QED BY <1>1, <1>5, <1>6 DEF Ptes

(* The kernel resets bits, with a flush; the processor sets them.          *)
LEMMA UseShown ==
  ASSUME MemInv, CacheInv, NEW p \in Procs, OnlyBy(p), NEW va \in Vas, UseStep(p, va)
  PROVE  Shown
<1>1. PICK old : old = Entry(root[p], va)
  OBVIOUS
<1>2. ASSUME AtEntry(p, va)
      PROVE  old \in Ptes /\ root[p] # NoPage /\ running = p /\ cr3 = root[p]
             /\ Flushed(p, va) = {x \in tlb : x.va # va}
  BY <1>1, <1>2, MappedIs DEF CacheInv, Flushed
<1>3. CASE SetDirty(p, va, FALSE)
  <2>1. PICK e : e = [old EXCEPT !.dirty = FALSE]
    OBVIOUS
  <2>2. /\ AtEntry(p, va) /\ SetEntry(p, va, e) /\ tlb' = Flushed(p, va)
        /\ UNCHANGED <<root, node, walk, gone, running, cr3>>
    BY <1>1, <1>3, <2>1 DEF SetDirty
  <2>3. e \in Ptes /\ e.present = old.present /\ e.frame = old.frame
    BY <1>2, <2>1, <2>2 DEF Ptes
  <2>4. \A x \in tlb' : x \in tlb /\ x.va # va
    BY <1>2, <2>2
  <2> QED BY <1>1, <2>2, <2>3, <2>4, BitShown
<1>4. CASE SetAccessed(p, va, FALSE)
  <2>1. PICK e : e = [old EXCEPT !.accessed = FALSE]
    OBVIOUS
  <2>2. /\ AtEntry(p, va) /\ SetEntry(p, va, e) /\ tlb' = Flushed(p, va)
        /\ UNCHANGED <<root, node, walk, gone, running, cr3>>
    BY <1>1, <1>4, <2>1 DEF SetAccessed
  <2>3. e \in Ptes /\ e.present = old.present /\ e.frame = old.frame
    BY <1>2, <2>1, <2>2 DEF Ptes
  <2>4. \A x \in tlb' : x \in tlb /\ x.va # va
    BY <1>2, <2>2
  <2> QED BY <1>1, <2>2, <2>3, <2>4, BitShown
<1>5. ASSUME NEW write \in BOOLEAN, Access(p, va, write) PROVE Shown
  <2>1. PICK e : e = [old EXCEPT !.accessed = TRUE, !.dirty = @ \/ write]
    OBVIOUS
  <2>2. PICK c : c = [va |-> va, frame |-> GetPage(root[p], va), dirty |-> old.dirty \/ write]
    OBVIOUS
  <2>3. /\ AtEntry(p, va) /\ SetEntry(p, va, e) /\ tlb' = {x \in tlb : x.va # va} \cup {c} /\ old.present
        /\ UNCHANGED <<root, node, walk, gone, running, cr3>>
    BY <1>1, <1>5, <2>1, <2>2 DEF Access, Mapped
  <2>4. old \in Ptes
    BY <1>2, <2>3
  <2>5. e \in Ptes /\ e.present = old.present /\ e.frame = old.frame /\ e.accessed /\
          e.dirty = (old.dirty \/ write)
    BY <2>1, <2>4 DEF Ptes
  <2>6. c.va = va /\ c.frame = old.frame /\ c.dirty = (old.dirty \/ write)
    BY <1>1, <2>2, <2>3 DEF GetPage, Mapped
  <2>7. \A x \in tlb' : \/ x \in tlb /\ x.va # va
                        \/ x.va = va /\ x.frame = e.frame /\ e.present /\ e.accessed /\ (x.dirty => e.dirty)
    BY <2>3, <2>5, <2>6
  <2> QED BY <1>1, <2>3, <2>5, <2>7, BitShown
<1> QED BY <1>3, <1>4, <1>5 DEF UseStep

-----------------------------------------------------------------------------
(* Every step of a process.                                                *)
LEMMA TableShown ==
  ASSUME MemInv, CacheInv, NEW p \in Procs, UNCHANGED <<heapVars, load>>,
         TableStep(p) \/ \E va \in Vas : UseStep(p, va)
  PROVE  Shown
<1>0. OnlyBy(p) /\ TreeTypes /\ PoolTypes /\ Phase(p)
  BY OnlyItsOwn DEF MemInv, Trees
<1>1. ASSUME CacheInv' /\ AddressMap' = AddressMap PROVE Shown
  BY <1>1 DEF Shown
<1>2. NoWalk.root = NoPage
  BY DEF NoWalk
<1>3. CASE Switch(p)
  BY <1>0, <1>3, SwitchShown
<1>4. CASE Create(p)
  <2>1. /\ UNCHANGED <<running, root, cr3, tlb, node, pte, gone>> /\ at[p] = "idle"
        /\ walk' = [walk EXCEPT ![p] = [NoWalk EXCEPT !.op = "create"]]
    BY <1>4 DEF Create, Start
  <2>2. walk'[p].root = walk[p].root
    BY <2>1, <1>0, <1>2, AtFacts DEF TreeTypes, NoWalk
  <2> QED BY <1>0, <1>1, <2>1, <2>2, QuietTables
<1>5. CASE Cleanup(p)
  BY <1>0, <1>5, CleanupShown
<1>6. CASE ActivateBase(p)
  BY <1>0, <1>6, ActivateShown
<1>7. ASSUME NEW va \in Vas, NEW f \in Frames \ frames, SetPage(p, va, f) PROVE Shown
  <2>1. /\ UNCHANGED <<running, root, cr3, tlb, node, pte, gone>> /\ at[p] = "idle"
        /\ walk' = [walk EXCEPT ![p] = [NoWalk EXCEPT !.op = "set", !.va = va, !.frame = f]]
    BY <1>7 DEF SetPage, Start
  <2>2. walk'[p].root = walk[p].root
    BY <2>1, <1>0, <1>2, AtFacts DEF TreeTypes, NoWalk
  <2> QED BY <1>0, <1>1, <2>1, <2>2, QuietTables
<1>8. ASSUME NEW va \in Vas, ClearPage(p, va) PROVE Shown
  BY <1>0, <1>8, ClearShown
<1>9. CASE Walk(p)
  <2>1. CASE Pt(root[p], walk[p].va) = NoPage
    <3>1. UNCHANGED <<running, root, cr3, tlb, node, pte, gone, walk>> /\ at[p] = "walk"
      BY <1>9, <2>1 DEF Walk
    <3> QED BY <1>0, <1>1, <3>1, QuietTables
  <2>2. CASE Pt(root[p], walk[p].va) # NoPage
    BY <1>0, <1>9, <2>2, SetShown
  <2> QED BY <2>1, <2>2
<1>10. CASE GotPage(p)
  <2>0. at[p] = "got" /\ UNCHANGED <<running, tlb, pte, gone>>
    BY <1>10 DEF GotPage
  <2>1. CASE Created(p) /\ hand[p] # {}
    BY <1>0, <1>10, <2>1, CreateShown
  <2>2. CASE Created(p) /\ hand[p] = {}
    <3>1. UNCHANGED <<root, cr3, node>> /\ walk' = [walk EXCEPT ![p] = NoWalk] /\ walk[p].op = "create"
      BY <2>2 DEF Created, Done
    <3>2. walk'[p].root = walk[p].root
      BY <3>1, <1>0, <1>2, AtFacts DEF TreeTypes
    <3> QED BY <1>0, <1>1, <2>0, <3>1, <3>2, QuietTables
  <2>3. CASE Grown(p)
    <3>1. UNCHANGED <<root, cr3>> /\ SameMap(p)
      BY <1>10, <2>3, GrownKeeps DEF Grown
    <3> QED BY <1>0, <1>1, <2>0, <3>1, Stutters
  <2>4. CASE Failed(p)
    <3>1. UNCHANGED <<root, cr3, node>> /\
            (walk' = walk \/ walk' = [walk EXCEPT ![p] = NoWalk]) /\ walk[p].op = "set"
      BY <2>4 DEF Failed, Done
    <3>2. walk'[p].root = walk[p].root
      BY <3>1, <1>0, <1>2, AtFacts DEF TreeTypes
    <3> QED BY <1>0, <1>1, <2>0, <3>1, <3>2, QuietTables
  <2> QED BY <1>10, <2>1, <2>2, <2>3, <2>4 DEF GotPage
<1>11. CASE Unwind(p)
  <2>1. UNCHANGED <<running, root, cr3, tlb, node, pte, gone, walk>> /\ at[p] = "unwind"
    BY <1>11 DEF Unwind, tableVars
  <2> QED BY <1>0, <1>1, <2>1, QuietTables
<1>12. CASE FillNode(p)
  <2>1. UNCHANGED <<running, root, cr3, tlb>> /\ at[p] = "fill" /\ SameMap(p)
    BY <1>12, FillKeeps DEF FillNode, FreeFill
  <2> QED BY <1>0, <1>1, <2>1, Stutters
<1>13. CASE ClearNode(p)
  <2>1. UNCHANGED <<running, root, cr3, tlb>> /\ at[p] = "clear" /\ SameMap(p)
    BY <1>13, ClearKeeps DEF ClearNode, FreeBit
  <2> QED BY <1>0, <1>1, <2>1, Stutters
<1>14. CASE Unlink(p)
  <2>1. UNCHANGED <<running, root, cr3, tlb>> /\ at[p] = "unlink" /\ SameMap(p)
    BY <1>14, UnlinkKeeps DEF Unlink
  <2> QED BY <1>0, <1>1, <2>1, Stutters
<1>15. CASE (GetScan(p, 1) \/ GetFlip(p)) /\ UNCHANGED tableVars
  <2>1. UNCHANGED <<running, root, cr3, tlb, node, pte, gone, walk>> /\ at[p] \in {"get", "flip"}
    BY <1>15 DEF GetScan, GetFlip, tableVars
  <2> QED BY <1>0, <1>1, <2>1, QuietTables
<1>16. CASE DestroyNext(p) \/ Destroyed(p)
  <2>1. UNCHANGED <<running, root, cr3, tlb>> /\ at[p] = "destroy"
    BY <1>16 DEF DestroyNext, Destroyed
  <2>2. root[p] = NoPage
    BY <2>1, <1>0, AtFacts DEF Phase
  <2> QED BY <1>0, <1>1, <2>1, <2>2, Stutters
<1>17. ASSUME NEW va \in Vas, UseStep(p, va) PROVE Shown
  BY <1>0, <1>17, UseShown
<1> QED BY <1>3, <1>4, <1>5, <1>6, <1>7, <1>8, <1>9, <1>10, <1>11, <1>12, <1>13, <1>14, <1>15, <1>16, <1>17
        DEF TableStep

(* Nothing of the trees changes, and no process moves.                     *)
LEMMA ElsewhereShown ==
  ASSUME MemInv, CacheInv, UNCHANGED tableVars, \A p \in Procs : at'[p] = at[p]
  PROVE  Shown
<1>1. UNCHANGED <<running, root, cr3, tlb, node, pte, gone, walk>>
  BY DEF tableVars
<1>2. \A p \in Procs : SameMap(p)
  <2>1. \A p \in Procs : Top(p)' = Top(p)
    BY <1>1 DEF Top, Live
  <2> QED BY <1>1, <2>1, TreeQuietMap
<1>3. AddressMap' = AddressMap
  BY <1>1, <1>2, MapStays DEF MapKept
<1>4. PICK r \in Procs : r = running
  BY DEF MemInv, Trees, TreeTypes
<1>5. CacheInv'
  BY <1>1, <1>2, <1>4, CacheStays
<1> QED BY <1>3, <1>5 DEF Shown
=============================================================================
