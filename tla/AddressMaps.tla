---------------------------- MODULE AddressMaps ----------------------------
(***************************************************************************)
(* What the page tables promise: a partial map from addresses to frames    *)
(* for each process, changed at one address by a single step, or emptied   *)
(* at once.  No frame is in it twice.                                      *)
(***************************************************************************)
CONSTANTS Proc, Va, Frame, Unmapped

VARIABLE map

Nothing == [va \in Va |-> Unmapped]

Init == map = [p \in Proc |-> Nothing]

Set(p, va, f, dirty) == map' = [map EXCEPT ![p][va] = [frame |-> f, dirty |-> dirty]]

(* A fresh frame at an address without one.                                *)
MapPage(p, va, f) ==
  /\ map[p][va] = Unmapped
  /\ \A q \in Proc, w \in Va : map[q][w] # Unmapped => map[q][w].frame # f
  /\ Set(p, va, f, FALSE)

UnmapPage(p, va) == map[p][va] # Unmapped /\ map' = [map EXCEPT ![p][va] = Unmapped]

(* A store of the process, or the kernel, sets or resets the dirty bit.    *)
Mark(p, va, dirty) == map[p][va] # Unmapped /\ Set(p, va, map[p][va].frame, dirty)

Clear(p) == map' = [map EXCEPT ![p] = Nothing]

Next ==
  \E p \in Proc :
    \/ Clear(p)
    \/ \E va \in Va :
         \/ UnmapPage(p, va)
         \/ \E f \in Frame : MapPage(p, va, f)
         \/ \E b \in BOOLEAN : Mark(p, va, b)

Spec == Init /\ [][Next]_map

=============================================================================
