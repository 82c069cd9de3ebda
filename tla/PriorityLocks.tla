--------------------------- MODULE PriorityLocks ---------------------------
(***************************************************************************)
(* Kernel threads that take and release locks under the priority scheduler *)
(* with priority donation: threads/synch.c (semaphores and locks) over     *)
(* threads/thread.c (ready list, donation).                                *)
(*                                                                         *)
(* A section that runs with interrupts off is one step.  lock_acquire and  *)
(* lock_release run with interrupts on, so they are cut into steps at      *)
(* every access to data that another thread writes, and the timer may take *)
(* the processor between any two steps (Preempt).  The only place where a  *)
(* thread resumes with interrupts off is inside the loop of sema_down      *)
(* ("retry"), so the timer cannot strike there.                          *)
(***************************************************************************)
EXTENDS ThreadSched, ListSort

CONSTANTS Locks,
          Events,     \* semaphores that start at 0, to wait for an event
          MaxUnits,   \* bound: clients up an event only below this value
          None,       \* NULL
          Prios,      \* the priorities that exist
          BasePrio,   \* priority each thread is created with
          NewPrios,   \* arguments clients give thread_set_priority
          TryLocks,   \* locks that clients also take with lock_try_acquire
          Sliced,     \* bound: threads that may run long enough to lose
                      \* the processor at the end of their time slice
          Order,      \* clients nest lock_acquire in increasing Order
          Addr        \* order of the pages of the thread structures

MaxDepth == 8         \* the bound of the loop in dona_priority

ASSUME LocksAssumption ==
  /\ None \notin Threads \cup Locks \cup Events \cup {Idle}
  /\ Locks \cap Events = {}
  /\ MaxUnits \in Nat \ {0}
  /\ Prios \subseteq Nat
  /\ BasePrio \in [Threads -> Prios]
  /\ NewPrios \subseteq Prios
  /\ TryLocks \subseteq Locks
  /\ Sliced \subseteq Threads
  /\ Order \in [Locks -> Nat]
  /\ Addr \in [Threads -> Nat]

VARIABLES
  k,          \* scheduler state (ThreadSched)
  prio,       \* thread.priority, the effective one
  initPrio,   \* thread.init_priority
  waitLock,   \* thread.wait_lock
  dona,       \* thread.dona, the donors in list order
  sema,       \* value and waiters of each event and lock.semaphore
  holder,     \* lock.holder
  pc,         \* where each thread is in the code of synch.c
  arg,        \* the lock or semaphore that code works on
  walk,       \* locals of lock_acquire and dona_priority: the thread it
              \* looks at, depth, and what it has read of the round
  fault       \* what stopped the kernel (NoFault while it runs)

prioVars == <<prio, initPrio, waitLock, dona>>
lockVars == <<sema, holder>>
vars == <<k, prioVars, lockVars, pc, arg, walk, fault>>

Semas == Locks \cup Events

NoWalk == [at |-> None, depth |-> 0, to |-> None]

(* A null lock or holder is dereferenced; a dona_elem that is already in a *)
(* list is linked into another one, which cuts the first list; the         *)
(* assertion of thread_yield that it is not in an interrupt handler fails. *)
NoFault    == "none"
NullHolder == "null holder"
LinkedTwice == "dona_elem linked twice"
YieldInIntr == "thread_yield in an interrupt handler"

-----------------------------------------------------------------------------
(* What a dona list is sorted by.  The list links dona_elem, but "more"    *)
(* computes the thread from elem, which lies 64 bytes before it: what it   *)
(* compares is the low half of thread.dona.tail.prev, the address of the   *)
(* last donor's dona_elem or, if there is no donor, of the head of the     *)
(* thread's own dona list, which precedes dona_elem in the page.           *)
DonaKey ==
  [t \in Threads |->
     IF dona[t] = <<>> THEN 2 * Addr[t]
     ELSE 2 * Addr[dona[t][Len(dona[t])]] + 1]

(* The second half of refresh_priority: up to the priority of the front of *)
(* the sorted dona list if that is higher.                                 *)
RefreshedDona(t) == Sorted(dona[t], DonaKey)
RefreshedPrio(t) ==
  IF dona[t] # <<>> /\ prio[Head(RefreshedDona(t))] > prio[t]
  THEN prio[Head(RefreshedDona(t))] ELSE prio[t]

(* Variant: sema_down that tests with if, so that a woken thread goes on   *)
(* without looking at the value again.                                     *)
SemaDownIf(t, s) ==
  \/ /\ sema[s].value > 0 \/ pc[t] = "retry"
     /\ sema' = [sema EXCEPT ![s].value = @ - 1]
     /\ pc' = [pc EXCEPT ![t] = IF s \in Locks THEN "acq_own" ELSE "run"]
     /\ arg' = [arg EXCEPT ![t] = IF s \in Locks THEN s ELSE None]
     /\ UNCHANGED k
  \/ /\ sema[s].value = 0 /\ pc[t] # "retry"
     /\ sema' = [sema EXCEPT ![s].waiters = InsertOrdered(@, t, prio)]
     /\ pc' = [pc EXCEPT ![t] = "retry"]
     /\ arg' = [arg EXCEPT ![t] = s]
     /\ k' = Block(k)

(* sema_down up to the test of value in its loop: take a unit, or wait in  *)
(* priority order and let another thread run.                              *)
SemaDown(t, s) ==
  \/ /\ sema[s].value > 0
     /\ sema' = [sema EXCEPT ![s].value = @ - 1]
     /\ pc' = [pc EXCEPT ![t] = IF s \in Locks THEN "acq_own" ELSE "run"]
     /\ arg' = [arg EXCEPT ![t] = IF s \in Locks THEN s ELSE None]
     /\ UNCHANGED k
  \/ /\ sema[s].value = 0
     /\ sema' = [sema EXCEPT ![s].waiters = InsertOrdered(@, t, prio)]
     /\ pc' = [pc EXCEPT ![t] = "retry"]
     /\ arg' = [arg EXCEPT ![t] = s]
     /\ k' = Block(k)

(* The order in which sema_up wakes the waiters, and the variant that      *)
(* trusts the order of arrival.                                            *)
WakeOrderUnsorted(s) == sema[s].waiters
WakeOrder(s) == Sorted(sema[s].waiters, prio)

(* sema_up: wake the front waiter, add a unit, then give up the processor  *)
(* if a higher priority is ready.  The variant reads the front waiter and  *)
(* leaves it in the list.                                                  *)
UppedNoPop(s) == [value |-> sema[s].value + 1, waiters |-> WakeOrder(s)]

Upped(s) ==
  [value |-> sema[s].value + 1,
   waiters |-> IF WakeOrder(s) = <<>> THEN <<>> ELSE Tail(WakeOrder(s))]

WokenBy(s) ==
  IF WakeOrder(s) = <<>> THEN k ELSE Unblock(k, prio, Head(WakeOrder(s)))

(* Variants: only count the unit up; wake but do not yield.                *)
SemaUpSilent(s) ==
  /\ sema' = [sema EXCEPT ![s].value = @ + 1]
  /\ k' = CompReady(k, prio)

SemaUpNoYield(s) ==
  /\ sema' = [sema EXCEPT ![s] = Upped(s)]
  /\ k' = WokenBy(s)

SemaUp(s) ==
  /\ sema' = [sema EXCEPT ![s] = Upped(s)]
  /\ k' = CompReady(WokenBy(s), prio)

-----------------------------------------------------------------------------
Init ==
  /\ \E q \in [1..Cardinality(Threads) -> Threads] :
       /\ NoDuplicates(q)
       /\ \A i, j \in DOMAIN q : i < j => BasePrio[q[i]] >= BasePrio[q[j]]
       /\ k = AllReady(q)
  /\ prio = BasePrio
  /\ initPrio = BasePrio
  /\ waitLock = [t \in Threads |-> None]
  /\ dona = [t \in Threads |-> <<>>]
  /\ sema = [s \in Semas |-> [value |-> IF s \in Locks THEN 1 ELSE 0,
                               waiters |-> <<>>]]
  /\ holder = [l \in Locks |-> None]
  /\ pc = [t \in Threads |-> "run"]
  /\ arg = [t \in Threads |-> None]
  /\ walk = [t \in Threads |-> NoWalk]
  /\ fault = NoFault

(* The running thread is at a label of the code.                           *)
At(t, label) == k.cur = t /\ pc[t] = label /\ fault = NoFault

Goto(t, label) == pc' = [pc EXCEPT ![t] = label]

HeldBy(t) == {l \in Locks : holder[l] = t}

-----------------------------------------------------------------------------
(* lock_acquire(l): test the holder; if there is one, note what the thread *)
(* waits for.                                                              *)
AcquireTest(t, l) ==
  /\ At(t, "run")
  /\ \A m \in HeldBy(t) : Order[m] < Order[l]
  /\ arg' = [arg EXCEPT ![t] = l]
  /\ IF holder[l] = None
     THEN Goto(t, "acq_down") /\ UNCHANGED waitLock
     ELSE Goto(t, "acq_read") /\ waitLock' = [waitLock EXCEPT ![t] = l]
  /\ UNCHANGED <<k, prio, initPrio, dona, lockVars, walk, fault>>

(* Second read of lock->holder, for the address of its dona list.          *)
AcquireRead(t) ==
  /\ At(t, "acq_read")
  /\ IF holder[arg[t]] = None
     THEN fault' = NullHolder /\ UNCHANGED <<pc, walk>>
     ELSE /\ walk' = [walk EXCEPT ![t] = [NoWalk EXCEPT !.at = holder[arg[t]]]]
          /\ Goto(t, "acq_insert")
          /\ UNCHANGED fault
  /\ UNCHANGED <<k, prioVars, lockVars, arg>>

AcquireInsert(t) ==
  /\ At(t, "acq_insert")
  /\ IF \E h \in Threads : t \in Elems(dona[h])
     THEN fault' = LinkedTwice /\ UNCHANGED <<dona, walk, pc>>
     ELSE /\ dona' = [dona EXCEPT ![walk[t].at] = InsertOrdered(@, t, DonaKey)]
          /\ walk' = [walk EXCEPT ![t] = [NoWalk EXCEPT !.at = t]]
          /\ Goto(t, "acq_donate")
          /\ UNCHANGED fault
  /\ UNCHANGED <<k, prio, initPrio, waitLock, lockVars, arg>>

(* One round of the loop of dona_priority: does the thread it looks at     *)
(* wait; who holds the lock it waits for, which is read again; hand the    *)
(* priority on to the holder and look at that.                             *)
DonateTest(t) ==
  /\ At(t, "acq_donate")
  /\ IF walk[t].depth = MaxDepth \/ waitLock[walk[t].at] = None
     THEN walk' = [walk EXCEPT ![t] = NoWalk] /\ Goto(t, "acq_down")
     ELSE Goto(t, "acq_holder") /\ UNCHANGED walk
  /\ UNCHANGED <<k, prioVars, lockVars, arg, fault>>

DonateHolder(t) ==
  LET lock == waitLock[walk[t].at]
  IN  /\ At(t, "acq_holder")
      /\ IF lock = None
         THEN fault' = NullHolder /\ UNCHANGED <<walk, pc>>
         ELSE /\ walk' = [walk EXCEPT ![t].to = holder[lock]]
              /\ Goto(t, "acq_give")
              /\ UNCHANGED fault
      /\ UNCHANGED <<k, prioVars, lockVars, arg>>

DonateGive(t) ==
  LET to == walk[t].to
  IN  /\ At(t, "acq_give")
      /\ IF to = None
         THEN fault' = NullHolder /\ UNCHANGED <<prio, walk, pc>>
         ELSE /\ prio' = [prio EXCEPT ![to] = prio[walk[t].at]]
              /\ walk' = [walk EXCEPT ![t] = [at |-> to, depth |-> @.depth + 1, to |-> None]]
              /\ Goto(t, "acq_donate")
              /\ UNCHANGED fault
      /\ UNCHANGED <<k, initPrio, waitLock, dona, lockVars, arg>>

AcquireDown(t) ==
  /\ At(t, "acq_down")
  /\ SemaDown(t, arg[t])
  /\ UNCHANGED <<prioVars, holder, walk, fault>>

(* A woken waiter runs the loop of sema_down again, interrupts still off.  *)
Retry(t) ==
  /\ At(t, "retry")
  /\ SemaDown(t, arg[t])
  /\ UNCHANGED <<prioVars, holder, walk, fault>>

AcquireOwn(t) ==
  /\ At(t, "acq_own")
  /\ waitLock' = [waitLock EXCEPT ![t] = None]
  /\ holder' = [holder EXCEPT ![arg[t]] = t]
  /\ arg' = [arg EXCEPT ![t] = None]
  /\ Goto(t, "run")
  /\ UNCHANGED <<k, prio, initPrio, dona, sema, walk, fault>>

(* lock_try_acquire(l): sema_try_down, and the holder is set afterwards.   *)
TryAcquire(t, l) ==
  /\ At(t, "run")
  /\ holder[l] # t
  /\ sema[l].value > 0
  /\ sema' = [sema EXCEPT ![l].value = @ - 1]
  /\ arg' = [arg EXCEPT ![t] = l]
  /\ Goto(t, "try_own")
  /\ UNCHANGED <<k, prioVars, holder, walk, fault>>

TryOwn(t) ==
  /\ At(t, "try_own")
  /\ holder' = [holder EXCEPT ![arg[t]] = t]
  /\ arg' = [arg EXCEPT ![t] = None]
  /\ Goto(t, "run")
  /\ UNCHANGED <<k, prioVars, sema, walk, fault>>

-----------------------------------------------------------------------------
(* lock_release(l): no holder, no donors for this lock, the priority       *)
(* without them in two steps, and the semaphore up.                        *)
ReleaseStart(t, l) ==
  /\ At(t, "run")
  /\ holder[l] = t
  /\ holder' = [holder EXCEPT ![l] = None]
  /\ arg' = [arg EXCEPT ![t] = l]
  /\ Goto(t, "rel_remove")
  /\ UNCHANGED <<k, prioVars, sema, walk, fault>>

RemoveWithLock(t) ==
  /\ At(t, "rel_remove")
  /\ dona' = [dona EXCEPT ![t] = Without(@, {u \in Threads : waitLock[u] = arg[t]})]
  /\ Goto(t, "rel_refresh")
  /\ UNCHANGED <<k, prio, initPrio, waitLock, lockVars, arg, walk, fault>>

(* refresh_priority: back to init_priority, and up again for the donors    *)
(* that are left.                                                          *)
RefreshReset(t) ==
  /\ At(t, "rel_refresh")
  /\ prio' = [prio EXCEPT ![t] = initPrio[t]]
  /\ Goto(t, "rel_raise")
  /\ UNCHANGED <<k, initPrio, waitLock, dona, lockVars, arg, walk, fault>>

RefreshRaise(t) ==
  /\ At(t, "rel_raise")
  /\ dona' = [dona EXCEPT ![t] = RefreshedDona(t)]
  /\ prio' = [prio EXCEPT ![t] = RefreshedPrio(t)]
  /\ Goto(t, "rel_up")
  /\ UNCHANGED <<k, initPrio, waitLock, lockVars, arg, walk, fault>>

ReleaseUp(t) ==
  /\ At(t, "rel_up")
  /\ SemaUp(arg[t])
  /\ arg' = [arg EXCEPT ![t] = None]
  /\ Goto(t, "run")
  /\ UNCHANGED <<prioVars, holder, walk, fault>>

(* sema_down and sema_up on a semaphore that is not a lock's.              *)
EventDown(t, e) ==
  /\ At(t, "run")
  /\ SemaDown(t, e)
  /\ UNCHANGED <<prioVars, holder, walk, fault>>

EventUp(t, e) ==
  /\ At(t, "run") /\ sema[e].value < MaxUnits
  /\ SemaUp(e)
  /\ UNCHANGED <<prioVars, holder, pc, arg, walk, fault>>

(* sema_up from the handler of an external interrupt, which strikes where  *)
(* interrupts are on.  thread_comp_ready calls thread_yield there as well, *)
(* whose assertion fails in interrupt context.                             *)
InterruptUp(e) ==
  /\ fault = NoFault /\ sema[e].value < MaxUnits
  /\ k.cur # Idle => pc[k.cur] # "retry"
  /\ sema' = [sema EXCEPT ![e] = Upped(e)]
  /\ k' = WokenBy(e)
  /\ fault' = IF CompReady(k', prio) = k' THEN NoFault ELSE YieldInIntr
  /\ UNCHANGED <<prioVars, holder, pc, arg, walk>>

(* thread_set_priority(p): init_priority, which no other thread looks at,  *)
(* and the two halves of refresh_priority, the second with                 *)
(* thread_comp_ready.                                                      *)
SetPriority(t, p) ==
  /\ At(t, "run")
  /\ initPrio' = [initPrio EXCEPT ![t] = p]
  /\ prio' = [prio EXCEPT ![t] = p]
  /\ Goto(t, "set_raise")
  /\ UNCHANGED <<k, waitLock, dona, lockVars, arg, walk, fault>>

SetRaise(t) ==
  /\ At(t, "set_raise")
  /\ dona' = [dona EXCEPT ![t] = RefreshedDona(t)]
  /\ prio' = [prio EXCEPT ![t] = RefreshedPrio(t)]
  /\ k' = CompReady(k, prio')
  /\ Goto(t, "run")
  /\ UNCHANGED <<initPrio, waitLock, lockVars, arg, walk, fault>>

(* The time slice ends: intr_handler yields on return from the timer.      *)
Preempt(t) ==
  /\ k.cur = t /\ fault = NoFault
  /\ pc[t] # "retry"
  /\ k' = Yield(k, prio)
  /\ UNCHANGED <<prioVars, lockVars, pc, arg, walk, fault>>

(* The loop of idle; with nothing ready it picks itself again.             *)
IdleLoop ==
  /\ k.cur = Idle /\ k.ready # <<>>
  /\ k' = Block(k)
  /\ UNCHANGED <<prioVars, lockVars, pc, arg, walk, fault>>

(* The model does not follow the kernel past a fault.                      *)
Halted == fault # NoFault /\ UNCHANGED vars

LockCode(t) ==
  \/ AcquireRead(t) \/ AcquireInsert(t)
  \/ DonateTest(t) \/ DonateHolder(t) \/ DonateGive(t)
  \/ AcquireDown(t) \/ Retry(t) \/ AcquireOwn(t) \/ TryOwn(t)
  \/ RemoveWithLock(t) \/ RefreshReset(t) \/ RefreshRaise(t) \/ ReleaseUp(t)
  \/ SetRaise(t)

Client(t) ==
  \/ \E l \in Locks : AcquireTest(t, l)
  \/ \E l \in TryLocks : TryAcquire(t, l)
  \/ \E l \in Locks : ReleaseStart(t, l)
  \/ \E e \in Events : EventDown(t, e) \/ EventUp(t, e)
  \/ \E p \in NewPrios : SetPriority(t, p)

Next ==
  \/ \E t \in Threads : LockCode(t) \/ Client(t)
  \/ \E t \in Sliced : Preempt(t)
  \/ \E e \in Events : InterruptUp(e)
  \/ IdleLoop
  \/ Halted

Spec == Init /\ [][Next]_vars

-----------------------------------------------------------------------------
(* Where a thread can be in the code; at some labels arg is a lock.        *)
HasUnit == {"acq_own", "try_own", "rel_remove", "rel_refresh", "rel_raise", "rel_up"}
InRound == {"acq_holder", "acq_give"}
InWalk  == {"acq_insert", "acq_donate"} \cup InRound
InLock  == {"acq_read", "acq_down"} \cup InWalk \cup HasUnit
Labels  == {"run", "retry", "set_raise"} \cup InLock

Walks == [at : Threads, depth : 0..MaxDepth, to : Threads \cup {None}] \cup {NoWalk}

(* The values the variables range over.                                    *)
TypeOK ==
  /\ SchedTypeOK(k)
  /\ prio \in [Threads -> Prios] /\ initPrio \in [Threads -> Prios]
  /\ waitLock \in [Threads -> Locks \cup {None}]
  /\ dona \in [Threads -> Seq(Threads)]
  /\ sema \in [Semas -> [value : Nat, waiters : Seq(Threads)]]
  /\ holder \in [Locks -> Threads \cup {None}]
  /\ pc \in [Threads -> Labels]
  /\ arg \in [Threads -> Semas \cup {None}]
  /\ walk \in [Threads -> Walks]
  /\ fault \in {NoFault, NullHolder, LinkedTwice, YieldInIntr}

(* What the code works on at each label.                                   *)
AtLabels ==
  \A t \in Threads :
    /\ pc[t] = "retry" => arg[t] \in Semas
    /\ pc[t] \in InLock => arg[t] \in Locks
    /\ pc[t] \in InWalk => walk[t] # NoWalk
    /\ pc[t] \in InRound => walk[t].depth < MaxDepth

(* The thread has taken the unit of the lock's semaphore and not given it  *)
(* back, whether or not lock->holder says so at this point.                *)
Owns(t, l) == holder[l] = t \/ (arg[t] = l /\ pc[t] \in HasUnit)

(* Mutual exclusion, including the windows of lock_acquire and             *)
(* lock_release where lock->holder is NULL: the unit is in the semaphore   *)
(* or with exactly one thread.                                             *)
LockExclusive ==
  \A l \in Locks :
    \/ sema[l].value = 1 /\ \A t \in Threads : ~Owns(t, l)
    \/ /\ sema[l].value = 0
       /\ \E t \in Threads : Owns(t, l) /\ \A u \in Threads \ {t} : ~Owns(u, l)

(* lock->holder is NULL while the unit is with a thread that lock->holder  *)
(* does not name yet or no longer names.                                   *)
HolderClear ==
  \A t \in Threads : pc[t] \in HasUnit => holder[arg[t]] = None

(* What every step of the code keeps.                                      *)
LockInv == TypeOK /\ AtLabels /\ HolderClear /\ LockExclusive

(* A unit never lies unused beside a sleeper: while threads wait, each     *)
(* unit is matched by a woken thread that has yet to run its loop again.   *)
Woken(s) == {t \in Threads : pc[t] = "retry" /\ arg[t] = s
                             /\ t \notin Elems(sema[s].waiters)}
NoLostWakeup ==
  \A s \in Semas :
    sema[s].waiters # <<>> => sema[s].value <= Cardinality(Woken(s))

(* thread.elem serves the ready list and the semaphore lists in turn, as   *)
(* thread.h says: it is never in two of them, nor twice in one, and which  *)
(* one it is in is what status says, so the assertion of thread_unblock    *)
(* holds.  A waiter is in the list of the semaphore whose loop it runs.    *)
ElemInOneList ==
  /\ NoDuplicates(k.ready)
  /\ \A s \in Semas : /\ NoDuplicates(sema[s].waiters)
                       /\ \A t \in Elems(sema[s].waiters) : pc[t] = "retry" /\ arg[t] = s
  /\ \A t \in Threads :
       /\ k.status[t] = Running <=> k.cur = t
       /\ k.status[t] = Ready <=> t \in Elems(k.ready)
       /\ k.status[t] = Blocked <=> \E s \in Semas : t \in Elems(sema[s].waiters)

(* priority-sema.c: whoever is woken has the highest priority of the       *)
(* waiters at that time, donations received while waiting included; among  *)
(* equals the one nearer the front of the list.                            *)
WokenFirst(s, t) ==
  \A i, j \in DOMAIN sema[s].waiters :
    sema[s].waiters[i] = t =>
      \/ prio[t] > prio[sema[s].waiters[j]]
      \/ prio[t] = prio[sema[s].waiters[j]] /\ i <= j
WakesHighest ==
  [][\A s \in Semas : \A t \in Elems(sema[s].waiters) \ Elems(sema'[s].waiters) :
       WokenFirst(s, t)]_vars

(* What this module takes for list_sort is what the merge sort of list.c   *)
(* does: its passes end, elements run from high to low and equal ones stay *)
(* in the order they had, for all short lists and for all lists that       *)
(* sema_up and refresh_priority may be about to sort.                      *)
MergeSortAgrees ==
  /\ ShortListsSorted
  /\ \A s \in Semas : SortsStably(sema[s].waiters, prio)
  /\ \A t \in Threads : SortsStably(dona[t], DonaKey)

-----------------------------------------------------------------------------
(* The locks implement Mutex, with the owner that takes and gives back the *)
(* semaphore's unit.                                                       *)
OwnerOf ==
  [l \in Locks |-> IF \E t \in Threads : Owns(t, l)
                   THEN CHOOSE t \in Threads : Owns(t, l) ELSE None]

Abstract == INSTANCE Mutex WITH owner <- OwnerOf

(* synch.c's semaphore-based lock is a mutex: every step of the code takes *)
(* a free lock, gives back an owned one, or leaves ownership alone.        *)
ImplementsMutex == Abstract!Spec

-----------------------------------------------------------------------------
(* The processor executes the code it is in, and the periodic timer ends   *)
(* the time slice of a thread that keeps coming back to where interrupts   *)
(* are on.  Nothing is assumed of clients: one that holds a lock may keep  *)
(* it for ever.                                                            *)
Fairness ==
  /\ WF_vars(\E t \in Threads : LockCode(t))
  /\ WF_vars(IdleLoop)
  /\ \A t \in Sliced : SF_vars(Preempt(t))

(* With round-robin among equals a lock that is released while threads     *)
(* wait for it does not stay free: somebody takes it.                      *)
FreedLockTaken ==
  \A l \in Locks :
    (sema[l].value > 0 /\ sema[l].waiters # <<>>)
      ~> (sema[l].value = 0 \/ fault # NoFault)

(* A high-priority thread really preempts (priority-preempt.c): client     *)
(* code does not run while a thread of higher priority is ready.           *)
HighestRuns ==
  \A t \in Threads :
    At(t, "run") => \A u \in Elems(k.ready) : prio[u] <= prio[t]
=============================================================================
