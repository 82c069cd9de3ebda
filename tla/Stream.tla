------------------------------- MODULE Stream -------------------------------
(***************************************************************************)
(* What a line of characters promises: the n-th byte that comes out is the *)
(* n-th that went in, and no more than Capacity are on their way.          *)
(***************************************************************************)
EXTENDS Integers

CONSTANT Capacity

VARIABLES sent,       \* bytes that went in
          delivered   \* number, in the order of sending, of the last one out

Init == sent = 0 /\ delivered = 0

Send ==
  /\ sent - delivered < Capacity
  /\ sent' = sent + 1
  /\ UNCHANGED delivered

Deliver ==
  /\ delivered < sent
  /\ delivered' = delivered + 1
  /\ UNCHANGED sent

Spec == Init /\ [][Send \/ Deliver]_<<sent, delivered>>

FairSpec == Spec /\ WF_<<sent, delivered>>(Deliver)
=============================================================================
