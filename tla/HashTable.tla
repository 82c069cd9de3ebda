----------------------------- MODULE HashTable -----------------------------
(***************************************************************************)
(* The hash table of lib/kernel/hash.c: buckets that are lists, a count of *)
(* elements, and a number of buckets, always a power of two, that follows  *)
(* the count.  A change of that number allocates new buckets and moves     *)
(* every element; where the allocation fails the table stays as it is.     *)
(*                                                                         *)
(* An element is one of Elements; Key says which are equal to less, and    *)
(* Hash what the table's hash function computes for a key.                 *)
(***************************************************************************)
EXTENDS KernelLists, FiniteSetsExt

CONSTANTS Elements, Key, Hash, NoElement,
          MinBuckets,    \* the smallest number of buckets (4 in the code)
          BestPerBucket  \* BEST_ELEMS_PER_BUCKET (2 in the code)

ASSUME HashAssumption ==
  /\ NoElement \notin Elements
  /\ DOMAIN Key = Elements
  /\ \A e \in Elements : Hash[Key[e]] \in Nat
  /\ {MinBuckets, BestPerBucket} \subseteq Nat \ {0}

VARIABLES buckets,  \* the lists
          elemCnt,  \* elem_cnt
          result    \* what the last call returned

hashVars == <<buckets, elemCnt, result>>

EmptyBuckets(n) == [i \in 1..n |-> <<>>]

(* hash_init, where its allocation succeeds.                               *)
TableInit ==
  /\ buckets = EmptyBuckets(MinBuckets)
  /\ elemCnt = 0
  /\ result = NoElement

(* find_bucket in a table of n buckets.                                    *)
BucketOf(e, n) == (Hash[Key[e]] % n) + 1

(* The elements of the table.                                              *)
Members(bs) == UNION {Elems(bs[i]) : i \in DOMAIN bs}

(* find_elem: the first element of the bucket that is equal to e.          *)
Found(bs, e) ==
  LET bucket == bs[BucketOf(e, Len(bs))]
      equal == {k \in DOMAIN bucket : Key[bucket[k]] = Key[e]}
  IN IF equal = {} THEN NoElement ELSE bucket[Min(equal)]

(* list_push_front of e to bucket i.                                       *)
PushedInto(bs, i, e) == [bs EXCEPT ![i] = <<e>> \o @]

InsertElem(bs, e) == PushedInto(bs, BucketOf(e, Len(bs)), e)

RemoveElem(bs, e) == [i \in DOMAIN bs |-> Without(bs[i], {e})]

(* The power of two that rehash wants: about one bucket for every          *)
(* BestPerBucket elements.                                                 *)
PowerOfTwo(m) == \A d \in 2..m : m % d = 0 => d % 2 = 0

WantedBuckets(cnt) ==
  LET n == Max({cnt \div BestPerBucket, MinBuckets})
  IN Max({m \in 1..n : PowerOfTwo(m)})

(* rehash goes through the old buckets, and through each from its front,   *)
(* and puts every element in front of its bucket in a table of cnt.        *)
MovedFrom(bucket, new, cnt) ==
  LET after[k \in 0..Len(bucket)] ==
        IF k = 0 THEN new
        ELSE PushedInto(after[k - 1], BucketOf(bucket[k], cnt), bucket[k])
  IN after[Len(bucket)]

MovedAll(bs, n, cnt) ==
  LET after[i \in 0..Len(bs)] ==
        IF i = 0 THEN EmptyBuckets(n) ELSE MovedFrom(bs[i], after[i - 1], cnt)
  IN after[Len(bs)]

(* Variant: find_bucket still looks in a table of the old size.            *)
MovedByOld(bs, n) == MovedAll(bs, n, Len(bs))

Moved(bs, n) == MovedAll(bs, n, n)

(* rehash of a table with cnt elements; its malloc may fail.               *)
Rehash(bs, cnt, allocated) ==
  LET n == WantedBuckets(cnt)
  IN IF n = Len(bs) \/ ~allocated THEN bs ELSE Moved(bs, n)

HashInsert(e) ==
  LET old == Found(buckets, e)
      cnt == IF old = NoElement THEN elemCnt + 1 ELSE elemCnt
      new == IF old = NoElement THEN InsertElem(buckets, e) ELSE buckets IN
  /\ result' = old
  /\ elemCnt' = cnt
  /\ \E allocated \in BOOLEAN : buckets' = Rehash(new, cnt, allocated)

(* Variant: the equal element stays counted.                               *)
ReplacedCntOld(old) == elemCnt + 1

ReplacedCnt(old) == IF old = NoElement THEN elemCnt + 1 ELSE elemCnt

HashReplace(e) ==
  LET old == Found(buckets, e)
      cnt == ReplacedCnt(old) IN
  /\ result' = old
  /\ elemCnt' = cnt
  /\ \E allocated \in BOOLEAN :
       buckets' = Rehash(InsertElem(RemoveElem(buckets, old), e), cnt, allocated)

HashFind(e) == result' = Found(buckets, e) /\ UNCHANGED <<buckets, elemCnt>>

HashDelete(e) ==
  LET found == Found(buckets, e) IN
  /\ result' = found
  /\ IF found = NoElement THEN UNCHANGED <<buckets, elemCnt>>
     ELSE /\ elemCnt' = elemCnt - 1
          /\ \E allocated \in BOOLEAN :
               buckets' = Rehash(RemoveElem(buckets, found), elemCnt - 1, allocated)

(* hash_clear: every list is emptied, and the buckets stay.                *)
HashClear ==
  /\ buckets' = EmptyBuckets(Len(buckets))
  /\ elemCnt' = 0
  /\ result' = NoElement

HashStep ==
  \/ \E e \in Elements :
       \/ e \notin Members(buckets) /\ (HashInsert(e) \/ HashReplace(e))
       \/ HashFind(e) \/ HashDelete(e)
  \/ HashClear

=============================================================================
