------------------------------- MODULE Alarm -------------------------------
(***************************************************************************)
(* The alarm clock: timer_sleep and the timer interrupt of devices/timer.c *)
(* with thread_sleep, thread_awake and thread_tick of threads/thread.c.    *)
(*                                                                         *)
(* ticks is only ever compared with wakeup times, so the model keeps the   *)
(* differences: remaining[t] is t->wakeup_time - ticks, and every tick     *)
(* takes one from it.  Priorities do not change here.                      *)
(***************************************************************************)
EXTENDS ThreadSched

CONSTANTS Prio,        \* thread.priority
          Sleeps,      \* arguments clients give timer_sleep
          TimeSlice    \* TIME_SLICE

ASSUME AlarmAssumption ==
  /\ Prio \in [Threads -> Nat]
  /\ Sleeps \subseteq Int
  /\ TimeSlice \in Nat \ {0}

VARIABLES
  k,          \* scheduler state (ThreadSched)
  sleepList,  \* sleep_list
  remaining,  \* wakeup_time - ticks, where a thread has one
  pc,         \* "run", or "sleep": about to call thread_sleep
  slice,      \* thread_ticks
  failed,     \* the assertion of thread_yield has failed in the handler
  noTime      \* history: threads in a timer_sleep of no ticks or less

alarmVars == <<k, sleepList, remaining, pc, slice, failed, noTime>>

AlarmInit ==
  /\ \E q \in [1..Cardinality(Threads) -> Threads] :
       /\ NoDuplicates(q)
       /\ \A i, j \in DOMAIN q : i < j => Prio[q[i]] >= Prio[q[j]]
       /\ k = AllReady(q)
  /\ sleepList = <<>>
  /\ remaining = [t \in Threads |-> 0]
  /\ pc = [t \in Threads |-> "run"]
  /\ slice = 0
  /\ failed = FALSE
  /\ noTime = {}

Runs(t, label) == k.cur = t /\ pc[t] = label /\ ~failed

(* timer_sleep(d) reads the clock.                                         *)
ReadTicks(t, d) ==
  /\ Runs(t, "run")
  /\ remaining' = [remaining EXCEPT ![t] = d]
  /\ pc' = [pc EXCEPT ![t] = "sleep"]
  /\ noTime' = IF d > 0 THEN noTime \ {t} ELSE noTime \cup {t}
  /\ UNCHANGED <<k, sleepList, slice, failed>>

(* thread_sleep: into sleep_list by priority, and block.                   *)
ThreadSleep(t) ==
  /\ Runs(t, "sleep")
  /\ sleepList' = InsertOrdered(sleepList, t, Prio)
  /\ pc' = [pc EXCEPT ![t] = "run"]
  /\ k' = Block(k)
  /\ slice' = 0
  /\ UNCHANGED <<remaining, failed, noTime>>

(* The sleepers that thread_awake removes, in the order of the list, when  *)
(* one tick has passed; a variant that waits for the next tick.            *)
DueLate == {t \in Elems(sleepList) : remaining[t] - 1 < 0}
Due == {t \in Elems(sleepList) : remaining[t] - 1 <= 0}
AwakeOrder == Without(sleepList, Elems(sleepList) \ Due)

(* Those it leaves in the list; variant: it forgets to remove the others.  *)
StillAsleepAll == sleepList
StillAsleep == Without(sleepList, Due)

(* thread_tick: the slice is used up; variant: one tick later.             *)
SliceOverLate == slice >= TimeSlice
SliceOver == slice + 1 >= TimeSlice

(* The scheduler states after each thread_unblock of thread_awake.         *)
Awaken ==
  LET after[n \in 0..Len(AwakeOrder)] ==
        IF n = 0 THEN k ELSE Unblock(after[n-1], Prio, AwakeOrder[n])
  IN  after

(* A tick for a thread that has a wakeup time; below 0 it does not matter. *)
Remaining(t) == IF t \in Elems(sleepList) \ Due \/ pc[t] = "sleep"
              THEN IF remaining[t] > 0 THEN remaining[t] - 1 ELSE 0
              ELSE 0

(* The timer interrupt: one tick, thread_tick, and thread_awake, which     *)
(* calls thread_comp_ready after each thread it unblocks; that yields, and *)
(* fails in the interrupt handler, if a woken thread has priority over the *)
(* interrupted one.  At the end of the time slice the handler yields on    *)
(* return.                                                                 *)
Tick ==
  /\ ~failed
  /\ IF \E n \in DOMAIN Awaken \ {0} : CompReady(Awaken[n], Prio) # Awaken[n]
     THEN failed' = TRUE /\ UNCHANGED <<k, sleepList, remaining, slice, noTime>>
     ELSE /\ sleepList' = StillAsleep
          /\ remaining' = [t \in Threads |-> Remaining(t)]
          /\ noTime' = noTime \ Due
          /\ IF SliceOver
             THEN k' = Yield(Awaken[Len(AwakeOrder)], Prio) /\ slice' = 0
             ELSE k' = Awaken[Len(AwakeOrder)] /\ slice' = slice + 1
          /\ UNCHANGED failed
  /\ UNCHANGED pc

(* A client gives up the processor.                                        *)
ThreadYield(t) ==
  /\ Runs(t, "run")
  /\ k' = Yield(k, Prio)
  /\ slice' = 0
  /\ UNCHANGED <<sleepList, remaining, pc, failed, noTime>>

(* idle blocks again after each interrupt.                                 *)
IdleLoop ==
  /\ k.cur = Idle /\ k.ready # <<>> /\ ~failed
  /\ k' = Block(k)
  /\ slice' = 0
  /\ UNCHANGED <<sleepList, remaining, pc, failed, noTime>>

Halted == failed /\ UNCHANGED alarmVars

AlarmNext ==
  \/ \E t \in Threads :
       \/ \E d \in Sleeps : ReadTicks(t, d)
       \/ ThreadSleep(t)
       \/ ThreadYield(t)
  \/ Tick
  \/ IdleLoop
  \/ Halted

AlarmSpec == AlarmInit /\ [][AlarmNext]_alarmVars

-----------------------------------------------------------------------------
AlarmTypeOK ==
  /\ SchedTypeOK(k)
  /\ sleepList \in Seq(Threads)
  /\ remaining \in [Threads -> Int]
  /\ pc \in [Threads -> {"run", "sleep"}]
  /\ slice \in 0..(TimeSlice - 1)
  /\ failed \in BOOLEAN
  /\ noTime \subseteq Threads

(* elem is in the ready list or in sleep_list according to status, so that *)
(* thread_awake may give it from one to the other while it walks.          *)
SleepersBlocked ==
  /\ NoDuplicates(sleepList) /\ NoDuplicates(k.ready)
  /\ \A t \in Threads :
       /\ k.status[t] = Blocked <=> t \in Elems(sleepList)
       /\ k.status[t] = Ready <=> t \in Elems(k.ready)
       /\ k.status[t] = Running <=> k.cur = t

(* Both: whatever is interrupted, every thread is where its status says.   *)
AlarmInv == AlarmTypeOK /\ SleepersBlocked

-----------------------------------------------------------------------------
(* A sleeper whose time passed between timer_ticks and thread_sleep is     *)
(* awake in the next tick.  A timer_sleep of 0 or less is no sleep for     *)
(* Timers: tests/threads/alarm-zero.c:1 says timer_sleep(0) should return  *)
(* immediately, while thread_sleep blocks the thread until the next tick,  *)
(* and of a negative one alarm-negative.c:1 only wants that it not crash.  *)
DueIn ==
  [t \in Threads |-> IF t \notin Elems(sleepList) \ noTime THEN 0
                     ELSE IF remaining[t] > 0 THEN remaining[t] ELSE 1]

Clock == INSTANCE Timers WITH due <- DueIn

(* Of those that ask for a tick or more nobody wakes early, nobody is      *)
(* overlooked when several are due in the same tick, and a wakeup time     *)
(* that passes between timer_ticks and thread_sleep is not missed.         *)
ImplementsTimers == Clock!Spec

-----------------------------------------------------------------------------
(* The timer is periodic: a tick is possible until the kernel stops, so    *)
(* the first line is weak fairness of Tick.  The processor executes the    *)
(* code of timer_sleep, and idle runs its loop.                            *)
AlarmFairness ==
  /\ []<>failed \/ []<><<Tick>>_alarmVars
  /\ WF_alarmVars(IdleLoop)
  /\ WF_alarmVars(\E t \in Threads : ThreadSleep(t))

FairAlarm == AlarmSpec /\ AlarmFairness

(* Round-robin: a thread that no other has priority over, ready or asleep, *)
(* gets the processor, although none of its equals ever gives it up.       *)
GetsProcessor ==
  \A t \in Threads :
    (\A u \in Threads : Prio[u] <= Prio[t]) /\ k.status[t] # Running
      ~> (k.cur = t \/ failed)

=============================================================================
