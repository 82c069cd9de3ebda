---------------------------- MODULE ThreadSched ----------------------------
(***************************************************************************)
(* threads/thread.c: the ready list and the switch between threads, as     *)
(* operators on a scheduler state                                          *)
(*   k = [cur |-> running thread, status |-> [Threads -> ...],             *)
(*        ready |-> ready_list].                                           *)
(* Every function modelled here runs with interrupts off from its first    *)
(* access to its last, so each is atomic on this one-processor machine.    *)
(* A thread that is switched out resumes at its own program counter, which *)
(* the modules that use these operators keep.                              *)
(***************************************************************************)
EXTENDS KernelLists

CONSTANTS Threads,   \* the kernel threads other than the idle thread
          Idle       \* idle_thread: never in the ready list

ASSUME ThreadsAssumption == IsFiniteSet(Threads) /\ Idle \notin Threads

Running == "THREAD_RUNNING"
Ready   == "THREAD_READY"
Blocked == "THREAD_BLOCKED"
Dying   == "THREAD_DYING"
Status  == {Running, Ready, Blocked, Dying}

(* next_thread_to_run and schedule: pop the front of the ready list, or    *)
(* run the idle thread.  The idle thread's own status is not kept.         *)
Schedule(k) ==
  IF k.ready = <<>>
  THEN [k EXCEPT !.cur = Idle]
  ELSE [k EXCEPT !.cur = Head(k.ready),
                 !.ready = Tail(k.ready),
                 !.status[Head(k.ready)] = Running]

(* thread_block: the running thread leaves the processor; its caller has   *)
(* put it on some wait list.                                               *)
Block(k) ==
  IF k.cur = Idle THEN Schedule(k)
  ELSE Schedule([k EXCEPT !.status[k.cur] = Blocked])

(* thread_unblock: into the ready list by priority, without preempting.    *)
Unblock(k, prio, t) ==
  [k EXCEPT !.ready = InsertOrdered(k.ready, t, prio),
            !.status[t] = Ready]

(* Variant: a thread that yields goes to the front of the ready list.      *)
YieldFirst(k, prio) ==
  IF k.cur = Idle THEN Schedule(k)
  ELSE Schedule([k EXCEPT !.ready = <<k.cur>> \o @, !.status[k.cur] = Ready])

(* thread_yield and do_schedule(THREAD_READY).                             *)
Yield(k, prio) ==
  IF k.cur = Idle THEN Schedule(k)
  ELSE Schedule(Unblock(k, prio, k.cur))

(* thread_comp_ready: yield if the front of the ready list has a higher    *)
(* priority.  On an empty list the code reads the list head's null prev    *)
(* pointer as priority 0 and does not yield.                               *)
CompReady(k, prio) ==
  IF k.cur # Idle /\ k.ready # <<>> /\ prio[k.cur] < prio[Head(k.ready)]
  THEN Yield(k, prio) ELSE k

(* A state in which every thread is ready and the idle thread is about to  *)
(* give up the processor, in the order q of the ready list.                *)
AllReady(q) ==
  [cur |-> Idle, status |-> [t \in Threads |-> Ready], ready |-> q]

SchedTypeOK(k) ==
  k \in [cur : Threads \cup {Idle}, status : [Threads -> Status],
         ready : Seq(Threads)]
=============================================================================
