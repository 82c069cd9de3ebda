----------------------------- MODULE MCLockUses -----------------------------
(* Two uses of synch.c in one run: semaphores without locks, by threads    *)
(* that change their priorities at will, and a lock among threads of one   *)
(* priority that nobody changes, two of which lose the processor anywhere  *)
(* and one only outside synch.c.                                           *)
EXTENDS PriorityLocks, TLC

CONSTANTS t1, t2, t3, l1, e1, e2, Anywhere

Threads3 == {t1, t2, t3}
Equal3 == t1 :> 1 @@ t2 :> 1 @@ t3 :> 1
Addr3 == t1 :> 1 @@ t2 :> 3 @@ t3 :> 2
Order1 == l1 :> 1

VARIABLE use

EventClient(t) ==
  \/ \E e \in Events : EventDown(t, e) \/ EventUp(t, e)
  \/ \E p \in NewPrios : SetPriority(t, p)
LockClient(t) == \E l \in Locks : AcquireTest(t, l) \/ ReleaseStart(t, l)

Timer(t) == (use = "locks" => t \in Anywhere \/ pc[t] = "run") /\ Preempt(t)

EitherInit == Init /\ use \in {"events", "locks"}
EitherNext ==
  /\ \/ \E t \in Threads : LockCode(t) \/ Timer(t)
     \/ use = "events" /\ \E t \in Threads : EventClient(t)
     \/ use = "events" /\ \E e \in Events : InterruptUp(e)
     \/ use = "locks" /\ \E t \in Threads : LockClient(t)
     \/ IdleLoop \/ Halted
  /\ UNCHANGED use
EitherSpec == EitherInit /\ [][EitherNext]_<<vars, use>> /\ Fairness
=============================================================================
