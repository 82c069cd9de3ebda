------------------------------- MODULE Mutex -------------------------------
(***************************************************************************)
(* What a set of locks promises its clients: a lock has at most one owner, *)
(* it is taken only while it is free, and only its owner gives it back.    *)
(* Any thread may take a free lock: lock.holder and the wake-up order of   *)
(* synch.c promise nothing about who is next.                              *)
(***************************************************************************)
CONSTANTS Threads, Locks, None

VARIABLE owner

Init == owner = [l \in Locks |-> None]

Acquire(t, l) == owner[l] = None /\ owner' = [owner EXCEPT ![l] = t]
Release(t, l) == owner[l] = t /\ owner' = [owner EXCEPT ![l] = None]

(* Every step gives a lock another owner.                                  *)
Next ==
  /\ owner' # owner
  /\ \E t \in Threads, l \in Locks : Acquire(t, l) \/ Release(t, l)

Spec == Init /\ [][Next]_owner
=============================================================================
