--------------------------- MODULE MCKernelMemory ---------------------------
(* A small instance of KernelMemory for TLC. *)
EXTENDS KernelMemory, TLC

CONSTANTS h1, h2, p1, p2

(* Two addresses that have only the first two levels in common.            *)
TwoVas == {<<0, 0, 0>>, <<1, 0, 1>>}

(* Two threads on the heap; two processes, of which one tree fills the     *)
(* pool; a process that uses its memory and whose tree leaves a page; a    *)
(* thread and a process on one pool; a hash table.                         *)
Load(actors, pages, blocks, touched) ==
  [actors |-> actors, pages |-> pages, blocks |-> blocks, touched |-> touched,
   hashing |-> FALSE]

HeapLoad == Load({h1, h2}, 3, 3, {})
TreesLoad == Load({p1, p2}, 4, 0, {})
LargeTreeLoad == Load({p1}, 5, 0, {<<0, 0, 0>>})
BothLoad == Load({h1, p1}, 3, 1, {})
HashLoad == [Load({}, 5, 0, {}) EXCEPT !.hashing = TRUE]
FiveLoads == {HeapLoad, TreesLoad, LargeTreeLoad, BothLoad, HashLoad}

(* Six elements, two of them with the same key, and five keys of which     *)
(* three collide in the smallest table.                                    *)
KeyOf6 == [e \in 1..6 |-> IF e = 6 THEN 5 ELSE e]
HashOf5 == <<1, 3, 5, 2, 4>>

(* Threads are alike, and so are processes.                                *)
Alike == Permutations({h1, h2}) \cup Permutations({p1, p2})
=============================================================================
