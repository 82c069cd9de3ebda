------------------------------ MODULE ListSort ------------------------------
(***************************************************************************)
(* list_sort of lib/kernel/list.c as it works: passes over the list that   *)
(* merge adjacent runs in place, until one run is left.  A pointer into    *)
(* the list is a position, its tail the position after the last.  A loop   *)
(* is the function from the number of its rounds to what they have done; a *)
(* loop that has ended stays as it is.  The scheduler's modules use Sorted *)
(* of KernelLists in place of all this.                                    *)
(***************************************************************************)
EXTENDS KernelLists, FiniteSetsExt

Less(q, key, i, j) == key[q[i]] > key[q[j]]

(* find_end_of_run from a, ending not after b.                             *)
EndOfRun(q, key, a, b) ==
  Min({i \in (a + 1)..b : i = b \/ Less(q, key, i, i - 1)})

(* list_splice of the element at from, to stand before the one at to.      *)
Spliced(q, to, from) ==
  [i \in DOMAIN q |-> CASE i = to -> q[from]
                        [] i \in (to + 1)..from -> q[i - 1]
                        [] OTHER -> q[i]]

(* Variant: of equal elements the later one goes first.                    *)
StaysNotAbove(q, key, a0, a1b0) == key[q[a0]] > key[q[a1b0]]

(* The element at a0 stays where it is: the other run's is not less.       *)
Stays(q, key, a0, a1b0) == ~Less(q, key, a1b0, a0)

(* inplace_merge of the runs that meet at a1b0, before b1.                 *)
MergeRound(m, key, b1) ==
  IF m.a0 = m.a1b0 \/ m.a1b0 = b1 THEN m
  ELSE IF Stays(m.list, key, m.a0, m.a1b0) THEN [m EXCEPT !.a0 = @ + 1]
  ELSE [list |-> Spliced(m.list, m.a0, m.a1b0), a0 |-> m.a0 + 1, a1b0 |-> m.a1b0 + 1]

Merging(q, key, a0, a1b0, b1) ==
  LET after[n \in 0..(b1 - a0)] ==
        IF n = 0 THEN [list |-> q, a0 |-> a0, a1b0 |-> a1b0]
        ELSE MergeRound(after[n - 1], key, b1)
  IN  after

Merged(q, key, a0, a1b0, b1) == Merging(q, key, a0, a1b0, b1)[b1 - a0].list

(* One pass, and how many runs it leaves.                                  *)
PassRound(p, key) ==
  LET end == Len(p.list) + 1
      a1b0 == EndOfRun(p.list, key, p.a0, end)
      b1 == EndOfRun(p.list, key, a1b0, end) IN
  IF p.a0 = end THEN p
  ELSE IF a1b0 = end THEN [list |-> p.list, a0 |-> end, runs |-> p.runs + 1]
  ELSE [list |-> Merged(p.list, key, p.a0, a1b0, b1), a0 |-> b1, runs |-> p.runs + 1]

Passing(q, key) ==
  LET after[n \in 0..Len(q)] ==
        IF n = 0 THEN [list |-> q, a0 |-> 1, runs |-> 0]
        ELSE PassRound(after[n - 1], key)
  IN  after

Pass(q, key) == Passing(q, key)[Len(q)]

(* Passes follow as long as there is more than one run.                    *)
SortRound(s, key) == IF s.runs > 1 THEN Pass(s.list, key) ELSE s

Sorting(q, key) ==
  LET after[n \in 0..Len(q)] ==
        IF n = 0 THEN Pass(q, key) ELSE SortRound(after[n - 1], key)
  IN  after

MergeSorted(q, key) == Sorting(q, key)[Len(q)].list

(* The passes come to an end, and the list comes out as Sorted of          *)
(* KernelLists says.                                                       *)
SortsStably(q, key) ==
  /\ Sorting(q, key)[Len(q)].runs <= 1
  /\ MergeSorted(q, key) = Sorted(q, key)

(* So it does for every list of up to five elements and three keys.        *)
ShortListsSorted ==
  \A n \in 0..5 : \A key \in [1..n -> 1..3] :
    SortsStably([i \in 1..n |-> i], key)

=============================================================================
