------------------------------ MODULE Monitor ------------------------------
(***************************************************************************)
(* Condition variables of threads/synch.c over the locks of PriorityLocks: *)
(* one lock, one condition.  cond_wait puts a semaphore of its own on the  *)
(* condition's list, releases the lock, sleeps on the semaphore and        *)
(* acquires the lock again, in that order and with interrupts on, so the   *)
(* timer may strike between any two of these.                              *)
(*                                                                         *)
(* The semaphore lives on the stack of the waiting thread: here it is one  *)
(* event per thread, Waiter[t], whose sema_init finds it as the last wait  *)
(* left it (WaiterState).                                                  *)
(***************************************************************************)
EXTENDS PriorityLocks

CONSTANTS Lock,    \* the monitor's lock
          Waiter   \* the semaphore_elem of each thread's cond_wait

ASSUME MonitorAssumption ==
  /\ Lock \in Locks
  /\ Waiter \in [Threads -> Events]
  /\ \A t, u \in Threads : Waiter[t] = Waiter[u] => t = u

VARIABLES cond,    \* condition.waiters, as the threads that wait
          stage    \* where each thread is in cond_wait or cond_broadcast

monitorVars == <<vars, cond, stage>>

Stages == {"none", "release", "sleep", "reacquire", "broadcast"}

(* sema_more compares the priorities of the first sleepers on the two      *)
(* semaphores; where nobody sleeps yet it reads the list head's null       *)
(* pointer as priority 0.                                                  *)
SemaKey ==
  [t \in Threads |-> IF sema[Waiter[t]].waiters = <<>> THEN 0
                     ELSE prio[Head(sema[Waiter[t]].waiters)]]

SignalOrder == Sorted(cond, SemaKey)

MonitorInit ==
  /\ Init
  /\ cond = <<>>
  /\ stage = [t \in Threads |-> "none"]

Enter(t, s) == stage' = [stage EXCEPT ![t] = s]

(* cond_wait up to its call of lock_release, which starts.                 *)
CondWait(t) ==
  /\ stage[t] = "none"
  /\ ReleaseStart(t, Lock)
  /\ cond' = InsertOrdered(cond, t, SemaKey)
  /\ Enter(t, "release")

(* The lock is released: sema_down of the thread's own semaphore.          *)
CondSleep(t) ==
  /\ stage[t] = "release"
  /\ EventDown(t, Waiter[t])
  /\ Enter(t, "sleep")
  /\ UNCHANGED cond

(* Variant: the waiter goes on without the lock.                           *)
CondReacquireNot(t) ==
  /\ stage[t] = "sleep" /\ At(t, "run")
  /\ Enter(t, "reacquire")
  /\ UNCHANGED <<vars, cond>>

CondReacquire(t) ==
  /\ stage[t] = "sleep"
  /\ AcquireTest(t, Lock)
  /\ Enter(t, "reacquire")
  /\ UNCHANGED cond

(* Back from lock_acquire, cond_wait returns.                              *)
CondReturn(t) ==
  /\ stage[t] = "reacquire" /\ At(t, "run")
  /\ Enter(t, "none")
  /\ UNCHANGED <<vars, cond>>

(* Variant: a signal that takes the waiter from the list and does not up   *)
(* its semaphore while it is not asleep.                                   *)
SignalAsleep(t) ==
  /\ At(t, "run") /\ holder[Lock] = t /\ cond # <<>>
  /\ cond' = Tail(SignalOrder)
  /\ IF stage[Head(SignalOrder)] = "sleep"
     THEN SemaUp(Waiter[Head(SignalOrder)]) ELSE UNCHANGED <<k, sema>>
  /\ UNCHANGED <<prioVars, holder, pc, arg, walk, fault>>

(* cond_signal with somebody on the list: sort it, then wake the first.    *)
SignalFirst(t) ==
  /\ At(t, "run") /\ holder[Lock] = t /\ cond # <<>>
  /\ cond' = Tail(SignalOrder)
  /\ SemaUp(Waiter[Head(SignalOrder)])
  /\ UNCHANGED <<prioVars, holder, pc, arg, walk, fault>>

CondSignal(t) == stage[t] = "none" /\ SignalFirst(t) /\ UNCHANGED stage

(* cond_broadcast: cond_signal until the list is empty.                    *)
CondBroadcast(t) ==
  /\ stage[t] \in {"none", "broadcast"}
  /\ \/ /\ SignalFirst(t)
        /\ Enter(t, "broadcast")
     \/ /\ At(t, "run") /\ stage[t] = "broadcast" /\ cond = <<>>
        /\ Enter(t, "none")
        /\ UNCHANGED <<vars, cond>>

(* Threads that use the lock without the condition, and everything that    *)
(* goes on inside synch.c.                                                 *)
Other(t) ==
  /\ \/ LockCode(t)
     \/ stage[t] = "none" /\ (\E l \in Locks : AcquireTest(t, l) \/ ReleaseStart(t, l))
     \/ t \in Sliced /\ Preempt(t)
  /\ UNCHANGED <<cond, stage>>

MonitorNext ==
  \/ \E t \in Threads :
       \/ CondWait(t) \/ CondSleep(t) \/ CondReacquire(t) \/ CondReturn(t)
       \/ CondSignal(t) \/ CondBroadcast(t)
       \/ Other(t)
  \/ IdleLoop /\ UNCHANGED <<cond, stage>>
  \/ Halted /\ UNCHANGED <<cond, stage>>

MonitorSpec == MonitorInit /\ [][MonitorNext]_monitorVars

-----------------------------------------------------------------------------
MonitorTypeOK ==
  /\ TypeOK
  /\ cond \in Seq(Threads)
  /\ stage \in [Threads -> Stages]

(* Asleep on its own semaphore, or about to be: in cond_wait after the     *)
(* release of the lock has begun and before the wait is over.              *)
Waiting(t) ==
  \/ stage[t] = "release"
  \/ stage[t] = "sleep" /\ pc[t] = "retry"

(* Mesa semantics without lost or doubled signals: a waiting thread is on  *)
(* the condition's list and its semaphore is 0, or it has been signalled   *)
(* exactly once and its semaphore is 1; this holds in the window between   *)
(* lock_release and sema_down too.  A thread that is not waiting is not on *)
(* the list and leaves its semaphore at 0 for the next sema_init.          *)
WaiterState ==
  /\ NoDuplicates(cond)
  /\ \A t \in Threads :
       sema[Waiter[t]].value =
         IF Waiting(t) /\ t \notin Elems(cond) THEN 1 ELSE 0
  /\ \A t \in Elems(cond) : Waiting(t)

(* cond_wait and cond_broadcast hold the lock when they return, and nobody *)
(* else does; in between cond_wait does not hold it.                       *)
LockOnReturn ==
  \A t \in Threads :
    /\ stage[t] = "broadcast" => holder[Lock] = t
    /\ stage[t] = "reacquire" /\ pc[t] = "run" => holder[Lock] = t
    /\ stage[t] \in {"release", "sleep"} => holder[Lock] # t

(* The order that cond_signal takes from list_sort is the one that the     *)
(* merge sort of list.c gives.                                             *)
SignalSorts == SortsStably(cond, SemaKey)

(* All four, over the scheduler and the lock that the condition uses.      *)
MonitorInv == MonitorTypeOK /\ WaiterState /\ LockOnReturn /\ SignalSorts

(* A broadcast leaves nobody who waited when it began: the list is empty   *)
(* when it ends, although other threads may run between its signals.       *)
BroadcastWakesAll ==
  [][\A t \in Threads : stage[t] = "broadcast" /\ stage'[t] = "none"
       => \A u \in Threads : Waiting(u) => sema[Waiter[u]].value = 1]_monitorVars

=============================================================================
