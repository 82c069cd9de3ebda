---------------------------- MODULE KernelLists ----------------------------
(***************************************************************************)
(* The operations of lib/kernel/list.c that the scheduler and the          *)
(* synchronisation primitives use, on sequences.  A list of threads is the *)
(* sequence of the threads its elements are embedded in.  A comparison     *)
(* function of the code is a key: a function from elements to integers,    *)
(* where less(a, b) of the code is key[a] > key[b] (the kernel always      *)
(* passes a "more" function, so that lists run from high to low).          *)
(***************************************************************************)
EXTENDS Integers, Sequences, FiniteSets

Elems(q) == {q[i] : i \in DOMAIN q}

NoDuplicates(q) == \A i, j \in DOMAIN q : q[i] = q[j] => i = j

(* list_insert_ordered passes over the elements up to the first one that   *)
(* the new element precedes: equal keys stay in FIFO order.                *)
Passed(q, e, key) ==
  {i \in DOMAIN q : \A j \in 1..i : ~(key[e] > key[q[j]])}

InsertOrdered(q, e, key) ==
  LET p == Cardinality(Passed(q, e, key))
  IN  SubSeq(q, 1, p) \o <<e>> \o SubSeq(q, p + 1, Len(q))

(* The elements at the positions I of q, the higher key first and equal    *)
(* keys in the order of q: an element goes where as many precede it as     *)
(* must come before it.                                                    *)
Before(q, key, i, j) ==
  \/ key[q[i]] > key[q[j]]
  \/ key[q[i]] = key[q[j]] /\ i < j

Place(q, I, key, j) == Cardinality({i \in I : Before(q, key, i, j)}) + 1

Arranged(q, I, key) ==
  [r \in 1..Cardinality(I) |-> q[CHOOSE j \in I : Place(q, I, key, j) = r]]

(* list_sort, a stable merge sort.                                         *)
Sorted(q, key) == Arranged(q, DOMAIN q, key)

(* A scan of the list that calls list_remove for every member of S.        *)
Without(q, S) ==
  Arranged(q, {i \in DOMAIN q : q[i] \notin S}, [e \in Elems(q) |-> 0])
=============================================================================
