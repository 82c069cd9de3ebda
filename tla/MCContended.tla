---------------------------- MODULE MCContended ----------------------------
(* Two uses of synch.c in one run: two nested locks among threads of three *)
(* priorities that also call thread_set_priority, each with a priority of  *)
(* its own (a bound), and a condition among threads of one priority.       *)
EXTENDS Monitor, TLC

CONSTANTS t1, t2, t3, l1, l2, e1, e2, e3, e4

Threads3 == {t1, t2, t3}
Locks2 == {l1, l2}
Order2 == l1 :> 1 @@ l2 :> 2
Base3 == t1 :> 1 @@ t2 :> 2 @@ t3 :> 3
Equal3 == t1 :> 1 @@ t2 :> 1 @@ t3 :> 1
Addr3 == t1 :> 1 @@ t2 :> 3 @@ t3 :> 2
New3 == t1 :> 1 @@ t2 :> 2 @@ t3 :> 2   \* what it gives thread_set_priority
Waiter3 == t1 :> e1 @@ t2 :> e2 @@ t3 :> e3

VARIABLE use   \* what the threads do with synch.c

Nested == INSTANCE PriorityLocks WITH Events <- {e4}
Equals == INSTANCE Monitor WITH BasePrio <- Equal3
OneLock == INSTANCE Monitor WITH Locks <- {l1}, Sliced <- {t1, t2}

ContendedInit ==
  \/ use = "locks" /\ MonitorInit
  \/ use = "condition" /\ Equals!MonitorInit

UseLocks ==
  /\ use = "locks" /\ Nested!Next
  /\ \A t \in Threads : pc'[t] = "set_raise" => initPrio'[t] = New3[t]
  /\ UNCHANGED <<cond, stage>>

(* Threads that wait for a signal nobody is left to send stay asleep.      *)
AllWait == (\A t \in Threads : k.status[t] = Blocked) /\ UNCHANGED monitorVars

UseCondition == use = "condition" /\ (OneLock!MonitorNext \/ AllWait)

ContendedNext == (UseLocks \/ UseCondition) /\ UNCHANGED use
ContendedSpec == ContendedInit /\ [][ContendedNext]_<<monitorVars, use>>
=============================================================================
