---------------------------- MODULE DeviceProofs ----------------------------
(***************************************************************************)
(* Theorems about the devices.                                             *)
(*                                                                         *)
(* The timer, for any threads and any sleeps: AlarmInv is inductive, and   *)
(* the alarm clock wakes each sleeper at its tick.                         *)
(*                                                                         *)
(* The disk, for any number of threads, sectors and spurious interrupts.   *)
(* ChannelInv is inductive: the thread that has the lock is the only one   *)
(* past lock_acquire (OneRequest), so what the drive does follows from     *)
(* where that thread is (DriveFollows).                                    *)
(*                                                                         *)
(* The serial port and the input buffer, for queues of any size and any    *)
(* number of bytes: they agree with their interrupts, and input and output *)
(* come through in order.                                                  *)
(***************************************************************************)
EXTENDS Alarm, DiskChannel, Serial, ThreadSchedProofs

(* f unblocks the first n due sleepers one by one, as Awaken is defined.   *)
AwakenIs(n, f) ==
  f = [i \in 0..n |-> IF i = 0 THEN k ELSE Unblock(f[i-1], Prio, AwakeOrder[i])]

(* The recursive function Awaken exists: it satisfies its own equation.    *)
LEMMA AwakenDef ==
  ASSUME AlarmTypeOK
  PROVE  AwakenIs(Len(AwakeOrder), Awaken)
<1>1. AwakeOrder \in Seq(Threads)
  BY WithoutProperties DEF AlarmTypeOK, AwakeOrder
<1>2. Len(AwakeOrder) \in Nat
  BY <1>1, LenProperties
<1> DEFINE P == {n \in Nat : \E f : AwakenIs(n, f)}
<1>3. 0 \in P
  <2>1. AwakenIs(0, [i \in 0..0 |-> k])
    BY DEF AwakenIs
  <2> QED BY <2>1
<1>4. ASSUME NEW n \in Nat, n \in P PROVE n + 1 \in P
  <2>1. PICK f : AwakenIs(n, f)
    BY <1>4
  <2> DEFINE g == [i \in 0..(n+1) |-> IF i = n + 1 THEN Unblock(f[n], Prio, AwakeOrder[n+1]) ELSE f[i]]
  <2>2. AwakenIs(n + 1, g)
    BY <2>1 DEF AwakenIs
  <2> QED BY <2>2
<1>5. \E f : AwakenIs(Len(AwakeOrder), f)
  <2> HIDE DEF P
  <2>1. Len(AwakeOrder) \in P
    BY <1>2, <1>3, <1>4, SetInduction
  <2> QED BY <2>1 DEF P
<1>6. Awaken = CHOOSE f : AwakenIs(Len(AwakeOrder), f)
  BY DEF Awaken, AwakenIs
<1> QED BY <1>5, <1>6

(* The threads that are due, each once, and the rest of the sleepers.      *)
LEMMA Divided ==
  ASSUME AlarmInv
  PROVE  /\ AwakeOrder \in Seq(Threads) /\ Len(AwakeOrder) \in Nat
         /\ DOMAIN AwakeOrder = 1..Len(AwakeOrder)
         /\ Elems(AwakeOrder) = Due /\ NoDuplicates(AwakeOrder)
         /\ StillAsleep \in Seq(Threads)
         /\ Elems(StillAsleep) = Elems(sleepList) \ Due /\ NoDuplicates(StillAsleep)
<1>1. sleepList \in Seq(Threads) /\ NoDuplicates(sleepList)
  BY DEF AlarmInv, AlarmTypeOK, SleepersBlocked
<1>2. /\ AwakeOrder \in Seq(Threads) /\ NoDuplicates(AwakeOrder)
      /\ Elems(AwakeOrder) = Elems(sleepList) \ (Elems(sleepList) \ Due)
  BY <1>1, WithoutProperties DEF AwakeOrder
<1>3. /\ StillAsleep \in Seq(Threads) /\ NoDuplicates(StillAsleep)
      /\ Elems(StillAsleep) = Elems(sleepList) \ Due
  BY <1>1, WithoutProperties DEF StillAsleep
<1>4. Due \subseteq Elems(sleepList)
  BY DEF Due
<1> QED BY <1>2, <1>3, <1>4, LenProperties

(* thread_awake may unblock them one after the other: each is still        *)
(* blocked when its turn comes.                                            *)
Unblocked(n, j) ==
  /\ SchedTypeOK(j) /\ Placed(j) /\ j.cur = k.cur
  /\ \A t \in Threads : j.status[t] = Blocked <=>
       t \in Elems(sleepList) /\ \A i \in 1..n : AwakeOrder[i] # t

(* After n sleepers are woken, exactly those n have left the blocked.      *)
LEMMA AwakenPlaced ==
  ASSUME AlarmInv
  PROVE  \A n \in 0..Len(AwakeOrder) : Unblocked(n, Awaken[n])
<1> DEFINE N == Len(AwakeOrder)
           P == {n \in Nat : n <= N => Unblocked(n, Awaken[n])}
<1>1. /\ N \in Nat /\ DOMAIN AwakeOrder = 1..N /\ NoDuplicates(AwakeOrder)
      /\ Elems(AwakeOrder) = Due /\ Due \subseteq Elems(sleepList) /\ Elems(sleepList) \subseteq Threads
  <2>1. Due \subseteq Elems(sleepList)
    BY DEF Due
  <2>2. Elems(sleepList) \subseteq Threads
    BY LenProperties DEF AlarmInv, AlarmTypeOK, Elems
  <2> QED BY <2>1, <2>2, Divided
<1>2. AwakenIs(N, Awaken)
  BY AwakenDef DEF AlarmInv
<1>3. 0 \in P
  <2>1. Awaken[0] = k
    BY <1>1, <1>2 DEF AwakenIs
  <2>2. Placed(k) /\ SchedTypeOK(k)
        /\ \A t \in Threads : k.status[t] = Blocked <=> t \in Elems(sleepList)
    BY DEF AlarmInv, AlarmTypeOK, SleepersBlocked, Placed
  <2> QED BY <2>1, <2>2 DEF Unblocked
<1>4. ASSUME NEW n \in Nat, n \in P PROVE n + 1 \in P
  <2> SUFFICES ASSUME n + 1 <= N PROVE Unblocked(n + 1, Awaken[n + 1])
    OBVIOUS
  <2> DEFINE t == AwakeOrder[n + 1]
             j == Awaken[n]
  <2>1. Awaken[n + 1] = Unblock(j, Prio, t)
    BY <1>1, <1>2 DEF AwakenIs
  <2>2. Unblocked(n, j)
    BY <1>1, <1>4
  <2>3. t \in Threads /\ t \in Elems(sleepList) /\ \A i \in 1..n : AwakeOrder[i] # t
    <3>1. n + 1 \in 1..N /\ \A i \in 1..n : i \in 1..N /\ i # n + 1
      BY <1>1
    <3>2. t \in Due
      BY <1>1, <3>1 DEF Elems
    <3> QED BY <1>1, <3>1, <3>2 DEF NoDuplicates
  <2>4. \A u : (\A i \in 1..(n + 1) : AwakeOrder[i] # u) <=> (\A i \in 1..n : AwakeOrder[i] # u) /\ u # t
    <3>1. 1..(n + 1) = (1..n) \cup {n + 1}
      OBVIOUS
    <3> QED BY <3>1
  <2> HIDE DEF t, j, N, P
  <2>5. j.status[t] = Blocked
    BY <2>2, <2>3 DEF Unblocked
  <2>6. SchedTypeOK(Unblock(j, Prio, t))
    BY <2>2, <2>3, UnblockType DEF Unblocked
  <2>7. /\ Placed(Unblock(j, Prio, t)) /\ Unblock(j, Prio, t).cur = j.cur
        /\ \A u \in Threads :
             Unblock(j, Prio, t).status[u] = Blocked <=> j.status[u] = Blocked /\ u # t
    BY <2>2, <2>3, <2>5, UnblockPlaced DEF Unblocked
  <2> QED BY <2>1, <2>2, <2>4, <2>6, <2>7 DEF Unblocked
<1> HIDE DEF P
<1>5. \A n \in Nat : n \in P
  BY <1>3, <1>4, SetInduction
<1> QED BY <1>1, <1>5 DEF P

(* After thread_awake, who stays in sleep_list is who stays blocked.       *)
LEMMA AllAwake ==
  ASSUME AlarmInv
  PROVE  LET j == Awaken[Len(AwakeOrder)]
         IN  /\ SchedTypeOK(j) /\ Placed(j)
             /\ \A t \in Threads : j.status[t] = Blocked <=> t \in Elems(sleepList) \ Due
<1> DEFINE N == Len(AwakeOrder)
           j == Awaken[N]
<1>1. N \in Nat /\ DOMAIN AwakeOrder = 1..N /\ Elems(AwakeOrder) = Due
  BY Divided
<1>2. Unblocked(N, j)
  BY <1>1, AwakenPlaced
<1>3. \A t : (\A i \in 1..N : AwakeOrder[i] # t) <=> t \notin Due
  BY <1>1 DEF Elems
<1> HIDE DEF N, j
<1>4. /\ SchedTypeOK(j) /\ Placed(j)
      /\ \A t \in Threads : j.status[t] = Blocked <=> t \in Elems(sleepList) \ Due
  BY <1>2, <1>3 DEF Unblocked
<1> QED BY <1>4 DEF j, N

-----------------------------------------------------------------------------
(* The invariant holds at boot.                                            *)
LEMMA AlarmInitInv ==
  ASSUME AlarmInit
  PROVE  AlarmInv
<1>1. PICK q \in [1..Cardinality(Threads) -> Threads] : NoDuplicates(q) /\ k = AllReady(q)
  BY DEF AlarmInit
<1>2. SchedTypeOK(k) /\ Placed(k) /\ \A t \in Threads : k.status[t] # Blocked
  BY <1>1, AllReadyPlaced
<1>3. AlarmTypeOK
  <2>1. <<>> \in Seq(Threads) /\ 0 \in 0..(TimeSlice - 1)
    BY AlarmAssumption, EmptySeq
  <2>2. remaining \in [Threads -> Int] /\ pc \in [Threads -> {"run", "sleep"}]
    BY DEF AlarmInit
  <2> QED BY <1>2, <2>1, <2>2 DEF AlarmInit, AlarmTypeOK
<1>4. Elems(sleepList) = {} /\ NoDuplicates(sleepList)
  BY DEF AlarmInit, Elems, NoDuplicates
<1> QED BY <1>2, <1>3, <1>4 DEF AlarmInv, SleepersBlocked, Placed

(* A new scheduler state and list that agree, and types of the rest.       *)
Agree(j, q) ==
  /\ SchedTypeOK(j) /\ Placed(j) /\ q \in Seq(Threads) /\ NoDuplicates(q)
  /\ \A t \in Threads : j.status[t] = Blocked <=> t \in Elems(q)

(* AlarmInv in terms of the agreement of scheduler and sleep_list.         *)
LEMMA AgreeInv == AlarmInv <=> /\ Agree(k, sleepList)
                               /\ remaining \in [Threads -> Int]
                               /\ pc \in [Threads -> {"run", "sleep"}]
                               /\ slice \in 0..(TimeSlice - 1) /\ failed \in BOOLEAN
                               /\ noTime \subseteq Threads
BY DEF AlarmInv, AlarmTypeOK, SleepersBlocked, Agree, Placed

(* And in the next state.                                                  *)
LEMMA AgreeNext ==
  ASSUME Agree(k', sleepList'), remaining' \in [Threads -> Int],
         pc' \in [Threads -> {"run", "sleep"}], slice' \in 0..(TimeSlice - 1), failed' \in BOOLEAN,
         noTime' \subseteq Threads
  PROVE  AlarmInv'
BY DEF AlarmInv, AlarmTypeOK, SleepersBlocked, Agree, Placed

(* Every step keeps the invariant.                                         *)
LEMMA AlarmStepInv ==
  ASSUME AlarmInv, [AlarmNext]_alarmVars
  PROVE  AlarmInv'
<1>0. /\ Agree(k, sleepList) /\ SchedTypeOK(k) /\ Placed(k) /\ remaining \in [Threads -> Int]
      /\ pc \in [Threads -> {"run", "sleep"}] /\ slice \in 0..(TimeSlice - 1) /\ failed \in BOOLEAN
      /\ noTime \subseteq Threads
      /\ TimeSlice \in Nat \ {0} /\ 0 \in 0..(TimeSlice - 1)
  BY AgreeInv, AlarmAssumption DEF Agree
<1>1. ASSUME NEW t \in Threads, NEW d \in Sleeps, ReadTicks(t, d) PROVE AlarmInv'
  <2>1. d \in Int
    BY AlarmAssumption
  <2>2. remaining' \in [Threads -> Int] /\ pc' \in [Threads -> {"run", "sleep"}]
    BY <1>0, <1>1, <2>1 DEF ReadTicks
  <2>3. /\ Agree(k', sleepList') /\ slice' \in 0..(TimeSlice - 1) /\ failed' \in BOOLEAN
        /\ noTime' \subseteq Threads
    BY <1>0, <1>1 DEF ReadTicks
  <2> QED BY <2>2, <2>3, AgreeNext
<1>2. ASSUME NEW t \in Threads, ThreadSleep(t) PROVE AlarmInv'
  <2>1. k.cur = t /\ t \notin Elems(sleepList)
    BY <1>0, <1>2 DEF ThreadSleep, Runs, Agree, Placed, Running, Blocked
  <2>2. /\ sleepList' \in Seq(Threads) /\ NoDuplicates(sleepList')
        /\ Elems(sleepList') = Elems(sleepList) \cup {t}
    BY <1>0, <1>2, <2>1, InsertOrderedProperties DEF ThreadSleep, Agree
  <2>3. /\ SchedTypeOK(k') /\ Placed(k')
        /\ \A u \in Threads : k'.status[u] = Blocked <=> k.status[u] = Blocked \/ u = t
    BY <1>0, <1>2, <2>1, BlockType, BlockPlaced DEF ThreadSleep
  <2>4. Agree(k', sleepList')
    BY <1>0, <2>2, <2>3 DEF Agree
  <2>5. pc' \in [Threads -> {"run", "sleep"}] /\ UNCHANGED <<remaining, failed, noTime>> /\ slice' = 0
    BY <1>0, <1>2 DEF ThreadSleep
  <2> QED BY <1>0, <2>4, <2>5, AgreeNext
<1>3. ASSUME NEW t \in Threads, ThreadYield(t) PROVE AlarmInv'
  <2>1. SchedTypeOK(k') /\ Placed(k') /\ SameBlocked(k', k)
    BY <1>0, <1>3, YieldType, YieldPlaced DEF ThreadYield
  <2>2. UNCHANGED <<sleepList, remaining, pc, failed, noTime>> /\ slice' = 0
    BY <1>3 DEF ThreadYield
  <2>3. Agree(k', sleepList')
    BY <1>0, <2>1, <2>2 DEF Agree, SameBlocked
  <2> QED BY <1>0, <2>2, <2>3, AgreeNext
<1>4. CASE Tick
  <2>0. UNCHANGED pc /\ ~failed
    BY <1>4 DEF Tick
  <2>1. CASE UNCHANGED <<k, sleepList, remaining, slice, noTime>> /\ failed' = TRUE
    <3>1. Agree(k', sleepList')
      BY <1>0, <2>1
    <3> QED BY <1>0, <2>0, <2>1, <3>1, AgreeNext
  <2>2. CASE /\ sleepList' = StillAsleep
             /\ remaining' = [t \in Threads |-> Remaining(t)]
             /\ noTime' = noTime \ Due
             /\ IF SliceOver
                THEN k' = Yield(Awaken[Len(AwakeOrder)], Prio) /\ slice' = 0
                ELSE k' = Awaken[Len(AwakeOrder)] /\ slice' = slice + 1
             /\ UNCHANGED failed
    <3> DEFINE j == Awaken[Len(AwakeOrder)]
    <3>1. /\ SchedTypeOK(j) /\ Placed(j)
          /\ \A t \in Threads : j.status[t] = Blocked <=> t \in Elems(sleepList) \ Due
      BY AllAwake
    <3>2. SchedTypeOK(Yield(j, Prio)) /\ Placed(Yield(j, Prio)) /\ SameBlocked(Yield(j, Prio), j)
      BY <3>1, YieldType, YieldPlaced
    <3>3. /\ sleepList' \in Seq(Threads) /\ NoDuplicates(sleepList')
          /\ Elems(sleepList') = Elems(sleepList) \ Due
      BY <2>2, Divided
    <3>4. k' = j \/ k' = Yield(j, Prio)
      BY <2>2
    <3>5. slice' \in 0..(TimeSlice - 1)
      BY <1>0, <2>2 DEF SliceOver
    <3>6. remaining' \in [Threads -> Int]
      BY <1>0, <2>2 DEF Remaining
    <3> HIDE DEF j
    <3>7. Agree(k', sleepList')
      BY <3>1, <3>2, <3>3, <3>4 DEF Agree, SameBlocked
    <3> QED BY <1>0, <2>0, <2>2, <3>5, <3>6, <3>7, AgreeNext
  <2> QED BY <1>4, <2>1, <2>2 DEF Tick
<1>5. CASE IdleLoop
  <2>1. k' = Block(k) /\ k.cur = Idle /\ UNCHANGED <<sleepList, remaining, pc, failed, noTime>> /\ slice' = 0
    BY <1>5 DEF IdleLoop
  <2>2. SchedTypeOK(k') /\ Placed(k')
        /\ \A t \in Threads : k'.status[t] = Blocked <=> k.status[t] = Blocked \/ t = k.cur
    BY <1>0, <2>1, BlockType, BlockPlaced
  <2>3. Agree(k', sleepList')
    BY <1>0, <2>1, <2>2, ThreadsAssumption DEF Agree
  <2> QED BY <1>0, <2>1, <2>3, AgreeNext
<1>6. CASE UNCHANGED alarmVars
  <2>1. Agree(k', sleepList')
    BY <1>0, <1>6 DEF alarmVars
  <2> QED BY <1>0, <1>6, <2>1, AgreeNext DEF alarmVars
<1> QED BY <1>1, <1>2, <1>3, <1>4, <1>5, <1>6 DEF AlarmNext, Halted

(* Whatever the timer interrupts, a thread is in the one list that its     *)
(* status names.                                                           *)
THEOREM AlarmInvariant == AlarmSpec => []AlarmInv
BY AlarmInitInv, AlarmStepInv, PTL DEF AlarmSpec

-----------------------------------------------------------------------------
(* A thread that is not in sleep_list has no timer running; when the list  *)
(* and the wakeup times stay, so do the timers.                            *)
LEMMA SameTimers ==
  ASSUME Elems(sleepList') = Elems(sleepList),
         \A t \in Elems(sleepList) :
           remaining'[t] = remaining[t] /\ (t \in noTime' <=> t \in noTime)
  PROVE  DueIn' = DueIn
BY DEF DueIn

(* Every step is a step of the abstract alarm clock, or changes no timer.  *)
LEMMA StepTimers ==
  ASSUME AlarmInv, [AlarmNext]_alarmVars
  PROVE  [Clock!Next]_DueIn
<1>0. /\ Agree(k, sleepList) /\ SchedTypeOK(k) /\ Placed(k) /\ remaining \in [Threads -> Int]
      /\ \A t \in Elems(sleepList) : k.cur # t
      /\ Elems(sleepList) \subseteq Threads
  <2>1. Elems(sleepList) \subseteq Threads
    BY LenProperties DEF AlarmInv, AlarmTypeOK, Elems
  <2> QED BY <2>1, AgreeInv DEF Agree, Placed, Running, Blocked
<1>1. ASSUME NEW t \in Threads, NEW d \in Sleeps, ReadTicks(t, d) PROVE UNCHANGED DueIn
  <2>1. \A u \in Elems(sleepList) :
          remaining'[u] = remaining[u] /\ (u \in noTime' <=> u \in noTime)
    BY <1>0, <1>1 DEF ReadTicks, Runs
  <2> QED BY <1>1, <2>1, SameTimers DEF ReadTicks
<1>2. ASSUME NEW t \in Threads, ThreadSleep(t) PROVE [Clock!Next]_DueIn
  <2>1. t \notin Elems(sleepList)
    BY <1>0, <1>2 DEF ThreadSleep, Runs
  <2>2. Elems(sleepList') = Elems(sleepList) \cup {t}
    BY <1>0, <1>2, <2>1, InsertOrderedProperties DEF ThreadSleep, Agree
  <2>3. remaining' = remaining /\ remaining[t] \in Int /\ noTime' = noTime
    BY <1>0, <1>2 DEF ThreadSleep
  <2>4. CASE t \in noTime
    BY <2>1, <2>2, <2>3, <2>4 DEF DueIn
  <2>5. CASE t \notin noTime
    <3>1. DueIn[t] = 0 /\ DueIn'[t] \in Nat \ {0}
      BY <2>1, <2>2, <2>3, <2>5 DEF DueIn
    <3>2. DueIn' = [DueIn EXCEPT ![t] = DueIn'[t]]
      BY <2>2, <2>3, <2>5 DEF DueIn
    <3> QED BY <3>1, <3>2 DEF Clock!Sleep, Clock!Next
  <2> QED BY <2>4, <2>5
<1>3. ASSUME NEW t \in Threads, ThreadYield(t) PROVE UNCHANGED DueIn
  BY <1>3, SameTimers DEF ThreadYield
<1>4. CASE Tick
  <2>1. CASE UNCHANGED <<k, sleepList, remaining, slice, noTime>> /\ failed' = TRUE
    BY <2>1, SameTimers
  <2>2. CASE /\ sleepList' = StillAsleep /\ remaining' = [t \in Threads |-> Remaining(t)]
             /\ noTime' = noTime \ Due
    <3>1. Elems(sleepList') = Elems(sleepList) \ Due
      BY <2>2, Divided
    <3>2. ASSUME NEW t \in Threads
          PROVE  DueIn'[t] = IF DueIn[t] > 0 THEN DueIn[t] - 1 ELSE 0
      <4>1. CASE t \notin Elems(sleepList)
        BY <3>1, <4>1 DEF DueIn
      <4>2. CASE t \in Due
        BY <1>0, <3>1, <4>2 DEF DueIn, Due
      <4>3. CASE t \in Elems(sleepList) \ Due
        <5>1. remaining[t] \in Int /\ remaining[t] > 1
          BY <1>0, <4>3 DEF Due
        <5>2. remaining'[t] = remaining[t] - 1
          BY <2>2, <4>3, <5>1 DEF Remaining
        <5> QED BY <2>2, <3>1, <4>3, <5>1, <5>2 DEF DueIn
      <4> QED BY <4>1, <4>2, <4>3
    <3>3. DueIn' = [t \in Threads |-> DueIn'[t]]
      BY DEF DueIn
    <3> QED BY <3>2, <3>3 DEF Clock!Next, Clock!Tick
  <2> QED BY <1>4, <2>1, <2>2 DEF Tick
<1>5. CASE IdleLoop
  BY <1>5, SameTimers DEF IdleLoop
<1>6. CASE UNCHANGED alarmVars
  BY <1>6, SameTimers DEF alarmVars
<1> QED BY <1>1, <1>2, <1>3, <1>4, <1>5, <1>6 DEF AlarmNext, Halted, Clock!Next

(* Every thread that asks for a tick or more sleeps until the tick it      *)
(* asked for and no longer, however many are due at once and however       *)
(* timer_sleep was interrupted.                                            *)
THEOREM AlarmRefinement == AlarmSpec => ImplementsTimers
<1>1. AlarmInit => Clock!Init
  BY DEF AlarmInit, Clock!Init, DueIn, Elems
<1>2. AlarmInv /\ [AlarmNext]_alarmVars => [Clock!Next]_DueIn
  BY StepTimers
<1> QED BY <1>1, <1>2, AlarmInvariant, PTL DEF AlarmSpec, ImplementsTimers, Clock!Spec

-----------------------------------------------------------------------------
(* No thread has asked for anything and the drive rests.                   *)
LEMMA InitInv == DiskInit => ChannelInv
<1> SUFFICES ASSUME DiskInit PROVE ChannelInv
  OBVIOUS
<1> USE DiskAssumption
<1>1. DiskTypeOK
  <2>1. req \in [Callers -> RequestType]
    BY DEF DiskInit, RequestType, NoRequest, Drive
  <2>2. device \in DeviceType /\ medium \in [Places -> Values]
    BY DEF DiskInit, DeviceType, Drive
  <2>3. completion \in Nat /\ spurious \in 0..MaxSpurious /\ unmade \in [Callers -> Nat]
    BY DEF DiskInit
  <2>4. expecting \in BOOLEAN /\ intrq \in BOOLEAN /\ holder \in Callers \cup {Nobody}
    BY DEF DiskInit
  <2> QED BY <2>1, <2>2, <2>3, <2>4 DEF DiskTypeOK
<1>2. InterruptsOwed
  BY DEF DiskInit, InterruptsOwed, One, Coming
<1>3. TransferMatches /\ OneRequest
  BY DEF DiskInit, TransferMatches, OneRequest, At, NoRequest
<1>4. DriveFollows /\ AnswerComes /\ RequestsGoOn
  BY DEF DiskInit, DriveFollows, DriveAt, Resting, AnswerComes, RequestsGoOn, At, NoRequest
<1> QED BY <1>1, <1>2, <1>3, <1>4 DEF ChannelInv

(* A register of the drive replaced by a value of its type.                *)
LEMMA DeviceSet ==
  ASSUME NEW d \in DeviceType
  PROVE  /\ \A x \in Drive : [d EXCEPT !.drive = x] \in DeviceType
         /\ \A x \in Sectors : [d EXCEPT !.sector = x] \in DeviceType
         /\ [d EXCEPT !.busy = TRUE] \in DeviceType
         /\ [d EXCEPT !.busy = FALSE] \in DeviceType
         /\ [d EXCEPT !.drq = TRUE] \in DeviceType
         /\ [d EXCEPT !.drq = FALSE] \in DeviceType
         /\ \A x \in {"none", "read", "write", "store"} : [d EXCEPT !.command = x] \in DeviceType
         /\ \A x \in Values : [d EXCEPT !.buffer = x] \in DeviceType
BY DEF DeviceType

(* A request that has gone one step on.                                    *)
LEMMA AtSet ==
  ASSUME NEW f \in [Callers -> RequestType], NEW t \in Callers,
         NEW a \in {"select", "sector", "command", "await", "busy", "data", "release", "panic"}
  PROVE  [f EXCEPT ![t].at = a] \in [Callers -> RequestType]
<1>1. f[t] \in RequestType
  OBVIOUS
<1>2. [f[t] EXCEPT !.at = a] \in RequestType
  BY <1>1 DEF RequestType
<1> QED BY <1>2

(* The steps keep the types; a value read is one that was stored.          *)
LEMMA TypeStep == ASSUME ChannelInv, DiskNext PROVE DiskTypeOK'
<1> USE DiskAssumption DEF At, GoTo, threadVars, driverVars, deviceVars
<1>0. DiskTypeOK /\ OneRequest /\ DriveFollows
  BY DEF ChannelInv
<1>1. ASSUME NEW t \in Callers, Acquire(t) PROVE DiskTypeOK'
  BY <1>0, <1>1 DEF DiskTypeOK, RequestType, NoValue, Acquire
<1>2. ASSUME NEW t \in Callers, SelectDevice(t) PROVE DiskTypeOK'
  <2>1. device' \in DeviceType
    BY <1>0, <1>2, DeviceSet DEF DiskTypeOK, RequestType, SelectDevice
  <2>2. req' \in [Callers -> RequestType]
    BY <1>0, <1>2, AtSet DEF DiskTypeOK, SelectDevice
  <2> QED BY <1>0, <1>2, <2>1, <2>2 DEF DiskTypeOK, SelectDevice
<1>3. ASSUME NEW t \in Callers, SelectSector(t) PROVE DiskTypeOK'
  <2>1. device' \in DeviceType
    BY <1>0, <1>3, DeviceSet DEF DiskTypeOK, OneRequest, SelectSector
  <2>2. req' \in [Callers -> RequestType]
    BY <1>0, <1>3, AtSet DEF DiskTypeOK, SelectSector
  <2> QED BY <1>0, <1>3, <2>1, <2>2 DEF DiskTypeOK, SelectSector
<1>4. ASSUME NEW t \in Callers, IssueCommand(t) PROVE DiskTypeOK'
  <2>1. req[t].kind \in {"read", "write"}
    BY <1>0, <1>4 DEF OneRequest, IssueCommand
  <2>2. device' \in DeviceType
    <3> DEFINE d == [device EXCEPT !.busy = TRUE]
    <3>1. d \in DeviceType
      BY <1>0, DeviceSet DEF DiskTypeOK
    <3>2. [d EXCEPT !.command = req[t].kind] \in DeviceType
      BY <2>1, <3>1, DeviceSet
    <3>3. device' = [d EXCEPT !.command = req[t].kind]
      BY <1>0, <1>4 DEF IssueCommand
    <3> QED BY <3>2, <3>3
  <2>3. req' \in [Callers -> RequestType]
    BY <1>0, <1>4, AtSet DEF DiskTypeOK, IssueCommand
  <2> QED BY <1>0, <1>4, <2>2, <2>3 DEF DiskTypeOK, IssueCommand
<1>5. ASSUME NEW t \in Callers, Await(t) PROVE DiskTypeOK'
  BY <1>0, <1>5 DEF DiskTypeOK, RequestType, Await
<1>6. ASSUME NEW t \in Callers, WaitWhileBusy(t) PROVE DiskTypeOK'
  BY <1>0, <1>6 DEF DiskTypeOK, OneRequest, RequestType, Drive, WaitWhileBusy
<1>7. ASSUME NEW t \in Callers, InputSector(t) PROVE DiskTypeOK'
  BY <1>0, <1>7 DEF DiskTypeOK, RequestType, InputSector
<1>8. ASSUME NEW t \in Callers, OutputSector(t) PROVE DiskTypeOK'
  <2>1. req[t].value \in Values
    BY <1>0, <1>8 DEF OneRequest, OutputSector
  <2>2. device' \in DeviceType
    <3> DEFINE d == [device EXCEPT !.buffer = req[t].value]
               e == [d EXCEPT !.drq = FALSE]
    <3>1. e \in DeviceType
      BY <1>0, <2>1, DeviceSet DEF DiskTypeOK
    <3>2. [e EXCEPT !.busy = TRUE] \in DeviceType
      BY <3>1, DeviceSet
    <3>3. device' = [e EXCEPT !.busy = TRUE]
      BY <1>0, <1>8 DEF OutputSector
    <3> QED BY <3>2, <3>3
  <2>3. req' \in [Callers -> RequestType]
    BY <1>0, <1>8 DEF DiskTypeOK, RequestType, OutputSector
  <2> QED BY <1>0, <1>8, <2>2, <2>3 DEF DiskTypeOK, OutputSector
<1>9. ASSUME NEW t \in Callers, Release(t) PROVE DiskTypeOK'
  BY <1>0, <1>9 DEF DiskTypeOK, RequestType, Drive, NoRequest, Release
<1>10. ASSUME NEW t \in Callers, NEW p \in Places, Request(t, "read", p, NoValue)
      PROVE DiskTypeOK'
  BY <1>0, <1>10 DEF DiskTypeOK, RequestType, Places, Request
<1>11. ASSUME NEW t \in Callers, NEW p \in Places, NEW v \in Values, Request(t, "write", p, v)
      PROVE DiskTypeOK'
  BY <1>0, <1>11 DEF DiskTypeOK, RequestType, Places, Request
<1>12. CASE DriveRead
  <2>1. medium[Selected] \in Values
    BY <1>0, <1>12 DEF DiskTypeOK, DeviceType, DriveFollows, Places, Selected, DriveRead
  <2>2. device' \in DeviceType
    <3> DEFINE d == [device EXCEPT !.busy = FALSE]
               e == [d EXCEPT !.drq = TRUE]
    <3>1. e \in DeviceType
      BY <1>0, DeviceSet DEF DiskTypeOK
    <3>2. [e EXCEPT !.buffer = medium[Selected]] \in DeviceType
      BY <2>1, <3>1, DeviceSet
    <3>3. device' = [e EXCEPT !.buffer = medium[Selected]]
      BY <1>0, <1>12 DEF DriveRead
    <3> QED BY <3>2, <3>3
  <2> QED BY <1>0, <1>12, <2>2 DEF DiskTypeOK, DriveRead
<1>13. CASE DriveAsks
  BY <1>0, <1>13 DEF DiskTypeOK, DeviceType, DriveAsks
<1>14. CASE DriveStores
  BY <1>0, <1>14 DEF DiskTypeOK, DeviceType, DriveStores
<1>15. CASE Spurious
  BY <1>0, <1>15 DEF DiskTypeOK, Spurious
<1>16. CASE InterruptHandler
  <2>1. completion' \in Nat
    BY <1>0, <1>16 DEF DiskTypeOK, InterruptHandler
  <2> QED BY <1>0, <1>16, <2>1 DEF DiskTypeOK, InterruptHandler
<1> QED BY <1>1, <1>2, <1>3, <1>4, <1>5, <1>6, <1>7, <1>8, <1>9, <1>10, <1>11, <1>12, <1>13, <1>14,
           <1>15, <1>16 DEF DiskNext, Step, DriveStep

(* Only lock_acquire and lock_release change who is past lock_acquire.     *)
LEMMA RequestStep == ASSUME ChannelInv, DiskNext PROVE OneRequest'
<1> USE DiskAssumption DEF At, GoTo, threadVars, driverVars, deviceVars
<1>0. DiskTypeOK /\ OneRequest
  BY DEF ChannelInv
<1>1. ASSUME NEW t \in Callers, Acquire(t) PROVE OneRequest'
  BY <1>0, <1>1 DEF DiskTypeOK, OneRequest, Acquire
<1>2. ASSUME NEW t \in Callers, SelectDevice(t) PROVE OneRequest'
  BY <1>0, <1>2 DEF OneRequest, SelectDevice
<1>3. ASSUME NEW t \in Callers, SelectSector(t) PROVE OneRequest'
  BY <1>0, <1>3 DEF OneRequest, SelectSector
<1>4. ASSUME NEW t \in Callers, IssueCommand(t) PROVE OneRequest'
  BY <1>0, <1>4 DEF OneRequest, IssueCommand
<1>5. ASSUME NEW t \in Callers, Await(t) PROVE OneRequest'
  BY <1>0, <1>5 DEF OneRequest, Await
<1>6. ASSUME NEW t \in Callers, WaitWhileBusy(t) PROVE OneRequest'
  BY <1>0, <1>6 DEF OneRequest, WaitWhileBusy
<1>7. ASSUME NEW t \in Callers, InputSector(t) PROVE OneRequest'
  BY <1>0, <1>7 DEF DiskTypeOK, RequestType, InputSector
<1>8. ASSUME NEW t \in Callers, OutputSector(t) PROVE OneRequest'
  BY <1>0, <1>8 DEF OneRequest, OutputSector
<1>9. ASSUME NEW t \in Callers, Release(t) PROVE OneRequest'
  BY <1>0, <1>9 DEF DiskTypeOK, OneRequest, NoRequest, Release
<1>10. ASSUME NEW t \in Callers, NEW p \in Places, Request(t, "read", p, NoValue)
      PROVE OneRequest'
  BY <1>0, <1>10 DEF OneRequest, Places, Request
<1>11. ASSUME NEW t \in Callers, NEW p \in Places, NEW v \in Values, Request(t, "write", p, v)
      PROVE OneRequest'
  BY <1>0, <1>11 DEF OneRequest, Places, Request
<1>12. CASE DriveRead
  BY <1>0, <1>12 DEF OneRequest, DriveRead
<1>13. CASE DriveAsks
  BY <1>0, <1>13 DEF OneRequest, DriveAsks
<1>14. CASE DriveStores
  BY <1>0, <1>14 DEF OneRequest, DriveStores
<1>15. CASE Spurious
  BY <1>0, <1>15 DEF OneRequest, Spurious
<1>16. CASE InterruptHandler
  BY <1>0, <1>16 DEF OneRequest, InterruptHandler
<1> QED BY <1>1, <1>2, <1>3, <1>4, <1>5, <1>6, <1>7, <1>8, <1>9, <1>10, <1>11, <1>12, <1>13, <1>14,
           <1>15, <1>16 DEF DiskNext, Step, DriveStep

(* Each step takes the drive from one phase of the request to the next.    *)
LEMMA DriveLemma == ASSUME ChannelInv, DiskNext PROVE DriveFollows' /\ TransferMatches'
<1> USE DiskAssumption DEF At, GoTo, threadVars, driverVars, deviceVars
<1>0. DiskTypeOK /\ OneRequest /\ DriveFollows /\ TransferMatches
  BY DEF ChannelInv
<1>1. ASSUME NEW t \in Callers, Acquire(t) PROVE DriveFollows' /\ TransferMatches'
  BY <1>0, <1>1 DEF OneRequest, DriveFollows, TransferMatches, DriveAt, Resting, Acquire
<1>2. ASSUME NEW t \in Callers, SelectDevice(t) PROVE DriveFollows' /\ TransferMatches'
  <2>1. \A u \in Callers : u # t => req'[u] = req[u] /\ req[u].at \in {"idle", "acquire"}
    BY <1>0, <1>2 DEF OneRequest, SelectDevice
  <2>2. \A u \in Callers : u # t => DriveAt(u)'
    BY <2>1 DEF DriveAt
  <2>3. holder' = t /\ t # Nobody /\ (device.busy => device.sector \in Sectors)'
    BY <1>0, <1>2 DEF OneRequest, DriveFollows, SelectDevice
  <2>4. DriveAt(t)'
    BY <1>0, <1>2 DEF DiskTypeOK, DriveAt, Quiet, DriveIdle, SelectDevice
  <2>5. TransferMatches'
    BY <1>0, <1>2, <2>1 DEF TransferMatches, SelectDevice
  <2> QED BY <2>2, <2>3, <2>4, <2>5 DEF DriveFollows
<1>3. ASSUME NEW t \in Callers, SelectSector(t) PROVE DriveFollows' /\ TransferMatches'
  BY <1>0, <1>3 DEF OneRequest, DriveFollows, TransferMatches, DriveAt, Quiet, Selected,
     SelectSector
<1>4. ASSUME NEW t \in Callers, IssueCommand(t) PROVE DriveFollows' /\ TransferMatches'
  BY <1>0, <1>4 DEF DiskTypeOK, OneRequest, DriveFollows, TransferMatches, DriveAt, Reading, Asking,
     Selected, IssueCommand
<1>5. ASSUME NEW t \in Callers, Await(t) PROVE DriveFollows' /\ TransferMatches'
  <2>1. \A u \in Callers : u # t => req'[u] = req[u] /\ req[u].at \in {"idle", "acquire"}
    BY <1>0, <1>5 DEF OneRequest, Await
  <2>2. \A u \in Callers : u # t => DriveAt(u)'
    BY <2>1 DEF DriveAt
  <2>3. holder' = t /\ t # Nobody /\ (device.busy => device.sector \in Sectors)'
    BY <1>0, <1>5 DEF OneRequest, DriveFollows, Await
  <2>4. UNCHANGED <<device, medium>> /\ req'[t].kind = req[t].kind
        /\ req'[t].drive = req[t].drive /\ req'[t].sector = req[t].sector
    BY <1>0, <1>5 DEF Await
  <2>5. ASSUME req[t].kind = "read" PROVE DriveAt(t)'
    <3>1. req'[t].at = "busy" /\ DriveAt(t)
      BY <1>0, <1>5, <2>5 DEF DiskTypeOK, DriveFollows, Await
    <3> QED BY <1>5, <2>4, <2>5, <3>1 DEF DriveAt, Reading, Selected, Await
  <2>6. ASSUME req[t].kind # "read" PROVE DriveAt(t)'
    <3>1. req'[t].at = "release" /\ DriveAt(t)
      BY <1>0, <1>5, <2>6 DEF DiskTypeOK, DriveFollows, Await
    <3> QED BY <1>5, <2>4, <2>6, <3>1 DEF DriveAt, Resting, Await
  <2>7. TransferMatches'
    BY <1>0, <1>5, <2>1 DEF TransferMatches, Await
  <2> QED BY <2>2, <2>3, <2>5, <2>6, <2>7 DEF DriveFollows
<1>6. ASSUME NEW t \in Callers, WaitWhileBusy(t) PROVE DriveFollows' /\ TransferMatches'
  <2>1. \A u \in Callers : u # t => req'[u] = req[u] /\ req[u].at \in {"idle", "acquire"}
    BY <1>0, <1>6 DEF OneRequest, WaitWhileBusy
  <2>2. \A u \in Callers : u # t => DriveAt(u)'
    BY <2>1 DEF DriveAt
  <2>3. holder' = t /\ t # Nobody /\ (device.busy => device.sector \in Sectors)'
    BY <1>0, <1>6 DEF OneRequest, WaitWhileBusy
  <2>4. DriveAt(t)'
    BY <1>0, <1>6 DEF DiskTypeOK, DriveFollows, DriveAt, Asking, WaitWhileBusy
  <2>5. TransferMatches'
    BY <1>0, <1>6, <2>1 DEF OneRequest, DriveFollows, TransferMatches, DriveAt, Reading, Asking,
       Selected, WaitWhileBusy
  <2> QED BY <2>2, <2>3, <2>4, <2>5 DEF DriveFollows
<1>7. ASSUME NEW t \in Callers, InputSector(t) PROVE DriveFollows' /\ TransferMatches'
  BY <1>0, <1>7 DEF DiskTypeOK, RequestType, InputSector
<1>8. ASSUME NEW t \in Callers, OutputSector(t) PROVE DriveFollows' /\ TransferMatches'
  BY <1>0, <1>8 DEF DiskTypeOK, OneRequest, DriveFollows, TransferMatches, DriveAt, Resting, Selected,
     OutputSector
<1>9. ASSUME NEW t \in Callers, Release(t) PROVE DriveFollows' /\ TransferMatches'
  BY <1>0, <1>9 DEF OneRequest, DriveFollows, TransferMatches, DriveAt, Resting, NoRequest, Release
<1>10. ASSUME NEW t \in Callers, NEW p \in Places, Request(t, "read", p, NoValue)
      PROVE DriveFollows' /\ TransferMatches'
  <2>1. \A u \in Callers : u # t => req'[u] = req[u]
    BY <1>0, <1>10 DEF Request
  <2>2. req'[t].at = "acquire"
    BY <1>0, <1>10 DEF DiskTypeOK, Request
  <2>3. \A u \in Callers : DriveAt(u)'
    BY <1>0, <1>10, <2>1, <2>2 DEF DriveFollows, DriveAt, Resting, Quiet, Reading, Asking,
       Selected, Request
  <2>4. TransferMatches'
    BY <1>0, <1>10, <2>1, <2>2 DEF TransferMatches, Selected, Request
  <2> QED BY <1>0, <1>10, <2>3, <2>4 DEF DriveFollows, Resting, Request
<1>11. ASSUME NEW t \in Callers, NEW p \in Places, NEW v \in Values, Request(t, "write", p, v)
      PROVE DriveFollows' /\ TransferMatches'
  <2>1. \A u \in Callers : u # t => req'[u] = req[u]
    BY <1>0, <1>11 DEF Request
  <2>2. req'[t].at = "acquire"
    BY <1>0, <1>11 DEF DiskTypeOK, Request
  <2>3. \A u \in Callers : DriveAt(u)'
    BY <1>0, <1>11, <2>1, <2>2 DEF DriveFollows, DriveAt, Resting, Quiet, Reading, Asking,
       Selected, Request
  <2>4. TransferMatches'
    BY <1>0, <1>11, <2>1, <2>2 DEF TransferMatches, Selected, Request
  <2> QED BY <1>0, <1>11, <2>3, <2>4 DEF DriveFollows, Resting, Request
<1>12. CASE DriveRead
  BY <1>0, <1>12 DEF DriveFollows, TransferMatches, DriveAt, Resting, Quiet, Reading, Asking,
     Selected, DriveRead
<1>13. CASE DriveAsks
  BY <1>0, <1>13 DEF DriveFollows, TransferMatches, DriveAt, Resting, Quiet, Reading, Asking,
     Selected, DriveAsks
<1>14. CASE DriveStores
  <2>1. Storing /\ device.command = "store"
    BY <1>14 DEF DriveStores, Storing
  <2>2. device' = [device EXCEPT !.busy = FALSE, !.command = "none"]
        /\ req' = req /\ holder' = holder
    BY <1>14 DEF DriveStores
  <2>3. /\ device'.drive = device.drive /\ device'.sector = device.sector
        /\ device'.drq = device.drq /\ ~device'.busy
    BY <1>0, <2>2
  <2>4. ASSUME NEW u \in Callers PROVE DriveAt(u)' /\ ~At(u, "data")
    BY <1>0, <2>1, <2>2, <2>3 DEF DriveFollows, DriveAt, Resting, Quiet, Reading, Asking, Selected,
       Storing
  <2> QED BY <1>0, <2>2, <2>3, <2>4 DEF DriveFollows, TransferMatches, Resting
<1>15. CASE Spurious
  BY <1>0, <1>15 DEF DriveFollows, TransferMatches, DriveAt, Resting, Quiet, Reading, Asking,
     Selected, Spurious
<1>16. CASE InterruptHandler
  BY <1>0, <1>16 DEF DriveFollows, TransferMatches, DriveAt, Resting, Quiet, Reading, Asking,
     Selected, InterruptHandler
<1> QED BY <1>1, <1>2, <1>3, <1>4, <1>5, <1>6, <1>7, <1>8, <1>9, <1>10, <1>11, <1>12, <1>13, <1>14,
           <1>15, <1>16 DEF DiskNext, Step, DriveStep

(* An interrupt comes for the thread that waits, or is a spurious one.     *)
LEMMA OwedStep == ASSUME ChannelInv, DiskNext PROVE InterruptsOwed'
<1> USE DiskAssumption DEF At, GoTo, threadVars, driverVars, deviceVars
<1>0. DiskTypeOK /\ OneRequest /\ DriveFollows /\ InterruptsOwed
  BY DEF ChannelInv
<1>1. ASSUME NEW t \in Callers, Acquire(t) PROVE InterruptsOwed'
  BY <1>0, <1>1 DEF DiskTypeOK, RequestType, InterruptsOwed, Coming, Waiting, Acquire
<1>2. ASSUME NEW t \in Callers, SelectDevice(t) PROVE InterruptsOwed'
  BY <1>0, <1>2 DEF DiskTypeOK, InterruptsOwed, One, Coming, Waiting, SelectDevice
<1>3. ASSUME NEW t \in Callers, SelectSector(t) PROVE InterruptsOwed'
  BY <1>0, <1>3 DEF DiskTypeOK, InterruptsOwed, One, Coming, Waiting, SelectSector
<1>4. ASSUME NEW t \in Callers, IssueCommand(t) PROVE InterruptsOwed'
  BY <1>0, <1>4 DEF DiskTypeOK, OneRequest, InterruptsOwed, One, Coming, Waiting, IssueCommand
<1>5. ASSUME NEW t \in Callers, Await(t) PROVE InterruptsOwed'
  BY <1>0, <1>5 DEF DiskTypeOK, InterruptsOwed, One, Coming, Await
<1>6. ASSUME NEW t \in Callers, WaitWhileBusy(t) PROVE InterruptsOwed'
  BY <1>0, <1>6 DEF DiskTypeOK, RequestType, InterruptsOwed, Coming, Waiting, WaitWhileBusy
<1>7. ASSUME NEW t \in Callers, InputSector(t) PROVE InterruptsOwed'
  BY <1>0, <1>7 DEF DiskTypeOK, RequestType, InputSector
<1>8. ASSUME NEW t \in Callers, OutputSector(t) PROVE InterruptsOwed'
  BY <1>0, <1>8 DEF DiskTypeOK, OneRequest, InterruptsOwed, One, Waiting, OutputSector
<1>9. ASSUME NEW t \in Callers, Release(t) PROVE InterruptsOwed'
  BY <1>0, <1>9 DEF DiskTypeOK, InterruptsOwed, One, Coming, Waiting, Release
<1>10. ASSUME NEW t \in Callers, NEW p \in Places, Request(t, "read", p, NoValue)
      PROVE InterruptsOwed'
  BY <1>0, <1>10 DEF DiskTypeOK, InterruptsOwed, Coming, Waiting, Request
<1>11. ASSUME NEW t \in Callers, NEW p \in Places, NEW v \in Values, Request(t, "write", p, v)
      PROVE InterruptsOwed'
  BY <1>0, <1>11 DEF DiskTypeOK, InterruptsOwed, Coming, Waiting, Request
<1>12. CASE DriveRead
  BY <1>0, <1>12 DEF DiskTypeOK, InterruptsOwed, One, Coming, Waiting, DriveRead
<1>13. CASE DriveAsks
  BY <1>0, <1>13 DEF DiskTypeOK, DeviceType, InterruptsOwed, Coming, Waiting, DriveAsks
<1>14. CASE DriveStores
  <2>1. Coming /\ ~Coming' /\ (Waiting' <=> Waiting) /\ intrq'
    BY <1>0, <1>14 DEF DriveStores, Storing, Coming, Waiting
  <2>2. completion' = completion /\ spurious' = spurious
    BY <1>14 DEF DriveStores
  <2> QED BY <1>0, <2>1, <2>2 DEF DiskTypeOK, InterruptsOwed, One
<1>15. CASE Spurious
  BY <1>0, <1>15 DEF DiskTypeOK, InterruptsOwed, One, Coming, Waiting, Spurious
<1>16. CASE InterruptHandler
  BY <1>0, <1>16 DEF DiskTypeOK, InterruptsOwed, One, Coming, Waiting, InterruptHandler
<1> QED BY <1>1, <1>2, <1>3, <1>4, <1>5, <1>6, <1>7, <1>8, <1>9, <1>10, <1>11, <1>12, <1>13, <1>14,
           <1>15, <1>16 DEF DiskNext, Step, DriveStep

(* Between its command and the interrupt that answers it a thread can not  *)
(* be forgotten: the drive makes it pending, and the handler counts it.    *)
LEMMA AnswerStep == ASSUME ChannelInv, DiskNext PROVE AnswerComes'
<1> USE DiskAssumption DEF At, GoTo, threadVars, driverVars, deviceVars
<1>0. DiskTypeOK /\ OneRequest /\ DriveFollows /\ AnswerComes
  BY DEF ChannelInv
<1>1. ASSUME NEW t \in Callers, Acquire(t) PROVE AnswerComes'
  BY <1>0, <1>1 DEF DiskTypeOK, RequestType, OneRequest, DriveFollows, DriveAt, AnswerComes,
     Coming, Acquire
<1>2. ASSUME NEW t \in Callers, SelectDevice(t) PROVE AnswerComes'
  BY <1>0, <1>2 DEF DiskTypeOK, RequestType, OneRequest, DriveFollows, DriveAt, AnswerComes,
     Coming, SelectDevice
<1>3. ASSUME NEW t \in Callers, SelectSector(t) PROVE AnswerComes'
  BY <1>0, <1>3 DEF DiskTypeOK, RequestType, OneRequest, DriveFollows, DriveAt, AnswerComes,
     Coming, SelectSector
<1>4. ASSUME NEW t \in Callers, IssueCommand(t) PROVE AnswerComes'
  BY <1>0, <1>4 DEF DiskTypeOK, RequestType, OneRequest, DriveFollows, DriveAt, AnswerComes,
     Coming, IssueCommand
<1>5. ASSUME NEW t \in Callers, Await(t) PROVE AnswerComes'
  BY <1>0, <1>5 DEF DiskTypeOK, RequestType, OneRequest, DriveFollows, DriveAt, AnswerComes,
     Coming, Await
<1>6. ASSUME NEW t \in Callers, WaitWhileBusy(t) PROVE AnswerComes'
  BY <1>0, <1>6 DEF DiskTypeOK, RequestType, OneRequest, DriveFollows, DriveAt, AnswerComes,
     Coming, WaitWhileBusy
<1>7. ASSUME NEW t \in Callers, InputSector(t) PROVE AnswerComes'
  BY <1>0, <1>7 DEF DiskTypeOK, RequestType, OneRequest, DriveFollows, DriveAt, AnswerComes,
     Coming, InputSector
<1>8. ASSUME NEW t \in Callers, OutputSector(t) PROVE AnswerComes'
  BY <1>0, <1>8 DEF DiskTypeOK, RequestType, OneRequest, DriveFollows, DriveAt, AnswerComes,
     Coming, OutputSector
<1>9. ASSUME NEW t \in Callers, Release(t) PROVE AnswerComes'
  BY <1>0, <1>9 DEF DiskTypeOK, AnswerComes, Coming, NoRequest, Release
<1>10. ASSUME NEW t \in Callers, NEW p \in Places, Request(t, "read", p, NoValue)
      PROVE AnswerComes'
  BY <1>0, <1>10 DEF DiskTypeOK, AnswerComes, Coming, Request
<1>11. ASSUME NEW t \in Callers, NEW p \in Places, NEW v \in Values, Request(t, "write", p, v)
      PROVE AnswerComes'
  BY <1>0, <1>11 DEF DiskTypeOK, AnswerComes, Coming, Request
<1>12. CASE DriveRead
  BY <1>0, <1>12 DEF DiskTypeOK, AnswerComes, Coming, Storing, DriveRead
<1>13. CASE DriveAsks
  BY <1>0, <1>13 DEF DiskTypeOK, AnswerComes, Coming, Storing, DriveAsks
<1>14. CASE DriveStores
  BY <1>0, <1>14 DEF DiskTypeOK, AnswerComes, Coming, Storing, DriveStores
<1>15. CASE Spurious
  BY <1>0, <1>15 DEF DiskTypeOK, AnswerComes, Coming, Storing, Spurious
<1>16. CASE InterruptHandler
  BY <1>0, <1>16 DEF DiskTypeOK, AnswerComes, Coming, Storing, InterruptHandler
<1> QED BY <1>1, <1>2, <1>3, <1>4, <1>5, <1>6, <1>7, <1>8, <1>9, <1>10, <1>11, <1>12, <1>13, <1>14,
           <1>15, <1>16 DEF DiskNext, Step, DriveStep

(* Wherever the thread with the lock is, it can go on, or it waits for a   *)
(* drive that is busy or an interrupt that is pending; if no thread has    *)
(* the lock, one that wants it can take it.                                *)
LEMMA GoesOn ==
  DiskTypeOK /\ OneRequest /\ TransferMatches /\ DriveFollows /\ AnswerComes => RequestsGoOn
<1> USE DEF At
<1> SUFFICES ASSUME DiskTypeOK, OneRequest, TransferMatches, DriveFollows, AnswerComes,
                    NEW t \in Callers, ~At(t, "idle")
             PROVE  \/ \E u \in Callers : StepOpen(u)
                    \/ device.busy /\ device.command \in {"read", "write", "store"}
                    \/ intrq
  BY DEF RequestsGoOn
<1>1. CASE holder = Nobody
  <2>1. req[t].at = "acquire"
    BY <1>1, DiskAssumption DEF OneRequest
  <2> QED BY <1>1, <2>1 DEF StepOpen
<1>2. CASE holder # Nobody
  <2>1. PICK u \in Callers : holder = u
    BY <1>2 DEF DiskTypeOK
  <2>2. req[u].at \notin {"idle", "acquire", "panic"} /\ req[u] \in RequestType
    BY <2>1 DEF OneRequest, TransferMatches, DiskTypeOK
  <2>3. req[u].at \in {"select", "sector", "command", "await", "busy", "data", "release"}
    BY <2>2 DEF RequestType
  <2>4. DriveAt(u) /\ req[u].kind \in {"read", "write"}
    BY <2>2 DEF DriveFollows, OneRequest
  <2>5. CASE req[u].at \in {"command", "data", "release"}
    BY <2>5 DEF StepOpen
  <2>6. CASE req[u].at \in {"select", "sector"}
    BY <2>4, <2>6 DEF DriveAt, Resting, Quiet, StepOpen, DriveIdle
  <2>7. CASE req[u].at = "await"
    BY <2>7 DEF AnswerComes, Coming, StepOpen
  <2>8. CASE req[u].at = "busy"
    BY <2>4, <2>8 DEF DriveAt, Reading, Asking, StepOpen
  <2> QED BY <2>3, <2>5, <2>6, <2>7, <2>8
<1> QED BY <1>1, <1>2

(* The invariant of the driver is inductive.                               *)
LEMMA StepInv == ChannelInv /\ [DiskNext]_diskVars => ChannelInv'
<1> SUFFICES ASSUME ChannelInv, [DiskNext]_diskVars PROVE ChannelInv'
  OBVIOUS
<1>1. CASE DiskNext
  <2>1. DiskTypeOK' /\ OneRequest' /\ DriveFollows' /\ TransferMatches' /\ AnswerComes'
    BY <1>1, TypeStep, RequestStep, DriveLemma, AnswerStep
  <2>2. RequestsGoOn'
    BY <2>1, GoesOn, PTL
  <2> QED BY <1>1, <2>1, <2>2, OwedStep DEF ChannelInv
<1>2. CASE UNCHANGED diskVars
  <2>1. DiskTypeOK' /\ InterruptsOwed' /\ AnswerComes'
    BY <1>2 DEF ChannelInv, DiskTypeOK, InterruptsOwed, AnswerComes, Coming, Waiting, At, diskVars,
       threadVars, driverVars, deviceVars
  <2>2. OneRequest' /\ TransferMatches'
    BY <1>2 DEF ChannelInv, OneRequest, TransferMatches, Selected, At, diskVars, threadVars, deviceVars
  <2>3. DriveFollows'
    BY <1>2 DEF ChannelInv, DriveFollows, DriveAt, Resting, Quiet, Reading, Asking, Selected, At,
       diskVars, threadVars, deviceVars
  <2>4. RequestsGoOn'
    BY <2>1, <2>2, <2>3, GoesOn, PTL
  <2> QED BY <2>1, <2>2, <2>3, <2>4 DEF ChannelInv
<1> QED BY <1>1, <1>2

(* Interrupts are accounted for, every transfer is of the sector asked     *)
(* for, and the drive follows the one thread that has the lock.            *)
THEOREM ChannelInvariant == DiskSpec => []ChannelInv
BY InitInv, StepInv, PTL DEF DiskSpec

(* Every interrupt to come, pending or counted by completion_wait is owed  *)
(* to a waiting thread or was spurious.                                    *)
THEOREM NoSurplus == DiskSpec => []InterruptsOwed
BY ChannelInvariant, PTL DEF ChannelInv

(* No request is stuck: as long as one is under way its thread, the drive  *)
(* or the interrupt handler can make the next step, and the interrupt that *)
(* a thread waits for is not lost.                                         *)
THEOREM NoneStuck == DiskSpec => [](AnswerComes /\ RequestsGoOn)
BY ChannelInvariant, PTL DEF ChannelInv

-----------------------------------------------------------------------------
(* The requests as their callers see them.                                 *)
Called == [t \in Callers |-> CallOf(t)]

(* A step that no caller can observe.                                      *)
LEMMA Unobserved ==
  ASSUME \A u \in Callers : CallOf(u)' = CallOf(u), \A p \in Places : Stored[p]' = Stored[p]
  PROVE  Called' = Called /\ Stored' = Stored
<1>1. Called' = Called
  BY DEF Called
<1>2. Stored' = Stored
  BY DEF Stored
<1> QED BY <1>1, <1>2

(* What a thread has asked for is a call of AtomicDisk.                    *)
LEMMA CallType ==
  ASSUME ChannelInv, NEW t \in Callers, ~At(t, "idle")
  PROVE  CallOf(t) \in Atomic!Calls
<1>1. /\ req[t].kind \in {"read", "write"} /\ req[t].value \in Values \cup {NoValue}
      /\ <<req[t].drive, req[t].sector>> \in Places
  BY DEF ChannelInv, DiskTypeOK, RequestType, OneRequest, Places
<1> QED BY <1>1 DEF CallOf, Atomic!Calls

(* The drives alone: storing what is in the buffer is not observed.        *)
LEMMA DriveRefines == ASSUME ChannelInv, DriveStep \/ Spurious \/ InterruptHandler
                      PROVE  UNCHANGED <<Stored, Called>>
<1>1. req' = req
  BY DEF DriveStep, DriveRead, DriveAsks, DriveStores, Spurious, InterruptHandler, threadVars
<1>2. \A u \in Callers : CallOf(u)' = CallOf(u)
  BY <1>1 DEF CallOf, At
<1>3. DiskTypeOK
  BY DEF ChannelInv
<1>4. CASE DriveRead \/ DriveAsks
  <2>1. /\ device'.drive = device.drive /\ device'.sector = device.sector /\ medium' = medium
        /\ ~Storing /\ ~device'.busy
    BY <1>3, <1>4 DEF DiskTypeOK, DeviceType, DriveRead, DriveAsks, Storing
  <2> QED BY <1>2, <2>1, Unobserved DEF Stored, Storing
<1>5. CASE DriveStores
  <2>1. /\ device'.drive = device.drive /\ device'.sector = device.sector
        /\ Storing /\ ~device'.busy
        /\ medium' = [medium EXCEPT ![Selected] = device.buffer]
    BY <1>3, <1>5 DEF DriveStores
  <2>2. \A p \in Places : Stored[p]' = Stored[p]
    BY <1>3, <2>1 DEF DiskTypeOK, Stored, Storing
  <2> QED BY <1>2, <2>2, Unobserved
<1>6. CASE Spurious \/ InterruptHandler
  <2>1. device' = device /\ medium' = medium
    BY <1>6 DEF Spurious, InterruptHandler, deviceVars
  <2> QED BY <1>2, <2>1, Unobserved DEF Stored, Storing, Selected
<1> QED BY <1>4, <1>5, <1>6 DEF DriveStep

(* The thread alone: what it does before the transfer is not observed.     *)
LEMMA QuietRefines ==
  ASSUME ChannelInv, NEW t \in Callers,
         \/ Acquire(t) \/ SelectDevice(t) \/ SelectSector(t) \/ IssueCommand(t) \/ Await(t)
         \/ WaitWhileBusy(t)
  PROVE  UNCHANGED <<Stored, Called>>
<1> DEFINE Quietly == \/ Acquire(t) \/ SelectDevice(t) \/ SelectSector(t) \/ IssueCommand(t)
                      \/ Await(t) \/ WaitWhileBusy(t)
<1>1. DiskTypeOK /\ DriveFollows /\ OneRequest
  BY DEF ChannelInv
<1>2. medium' = medium
  BY DEF Acquire, SelectDevice, SelectSector, IssueCommand, Await, WaitWhileBusy, deviceVars
<1>3. \A p \in Places : Stored[p]' = Stored[p]
  <2>1. CASE Acquire(t) \/ Await(t) \/ WaitWhileBusy(t)
    <3>1. device' = device
      BY <2>1 DEF Acquire, Await, WaitWhileBusy, deviceVars
    <3> QED BY <1>2, <3>1 DEF Stored, Storing, Selected
  <2>2. CASE SelectDevice(t) \/ SelectSector(t)
    <3>1. ~device.busy /\ ~device'.busy
      BY <1>1, <2>2 DEF DiskTypeOK, DeviceType, SelectDevice, SelectSector, DriveIdle
    <3> QED BY <1>2, <3>1 DEF Stored, Storing
  <2>3. CASE IssueCommand(t)
    <3>1. ~device.busy /\ req[t].kind # "store"
      BY <1>1, <2>3 DEF DiskTypeOK, RequestType, DriveFollows, DriveAt, Quiet, IssueCommand
    <3>2. device'.command # "store"
      BY <1>1, <2>3, <3>1 DEF IssueCommand
    <3> QED BY <1>2, <3>1, <3>2 DEF Stored, Storing
  <2> QED BY <2>1, <2>2, <2>3
<1>4. \A u \in Callers : CallOf(u)' = CallOf(u)
  <2>1. \A u \in Callers : u # t => req'[u] = req[u]
    BY <1>1 DEF DiskTypeOK, Acquire, SelectDevice, SelectSector, IssueCommand, Await, WaitWhileBusy,
       GoTo
  <2>2. /\ req'[t].kind = req[t].kind /\ req'[t].value = req[t].value
        /\ req'[t].drive = req[t].drive /\ req'[t].sector = req[t].sector
    BY <1>1 DEF DiskTypeOK, RequestType, Acquire, SelectDevice, SelectSector, IssueCommand, Await,
       WaitWhileBusy, GoTo
  <2>3. /\ ~At(t, "idle") /\ req'[t].at # "idle"
        /\ (At(t, "release") \/ (At(t, "await") /\ req[t].kind = "write"))
             <=> (req'[t].at = "release" \/ (req'[t].at = "await" /\ req[t].kind = "write"))
    BY <1>1 DEF DiskTypeOK, RequestType, OneRequest, Acquire, SelectDevice, SelectSector, IssueCommand,
       Await, WaitWhileBusy, GoTo, At
  <2> QED BY <2>1, <2>2, <2>3 DEF CallOf, At
<1> QED BY <1>3, <1>4, Unobserved

(* A request, the transfer of its sector and its return are the steps of   *)
(* AtomicDisk.                                                             *)
LEMMA CallRefines ==
  ASSUME ChannelInv, ChannelInv', NEW t \in Callers,
         NEW c, NEW d, req' = [req EXCEPT ![t] = d],
         CallOf(t)' = c
  PROVE  Called' = [Called EXCEPT ![t] = c]
<1>1. \A u \in Callers : u # t => CallOf(u)' = CallOf(u)
  BY DEF CallOf, At
<1> QED BY <1>1 DEF Called

(* A call that has taken effect, written as a record.                      *)
LEMMA CallDone ==
  ASSUME NEW c \in Atomic!Calls, NEW w \in Values
  PROVE  /\ [c EXCEPT !.value = w, !.done = TRUE]
              = [kind |-> c.kind, place |-> c.place, value |-> w, done |-> TRUE]
         /\ [c EXCEPT !.done = TRUE]
              = [kind |-> c.kind, place |-> c.place, value |-> c.value, done |-> TRUE]
<1> DEFINE r1 == [c EXCEPT !.value = w, !.done = TRUE]
           s1 == [kind |-> c.kind, place |-> c.place, value |-> w, done |-> TRUE]
           r2 == [c EXCEPT !.done = TRUE]
           s2 == [kind |-> c.kind, place |-> c.place, value |-> c.value, done |-> TRUE]
<1>1. r1 \in Atomic!Calls /\ s1 \in Atomic!Calls /\ r2 \in Atomic!Calls /\ s2 \in Atomic!Calls
  <2>1. r2 \in Atomic!Calls /\ s2 \in Atomic!Calls
    BY DEF Atomic!Calls
  <2>2. s1 \in Atomic!Calls
    BY DEF Atomic!Calls
  <2>3. [c EXCEPT !.value = w] \in Atomic!Calls
    BY DEF Atomic!Calls
  <2>4. r1 \in Atomic!Calls
    BY <2>3 DEF Atomic!Calls
  <2> QED BY <2>1, <2>2, <2>4
<1>2. /\ r1.kind = s1.kind /\ r1.place = s1.place /\ r1.value = s1.value /\ r1.done = s1.done
      /\ r2.kind = s2.kind /\ r2.place = s2.place /\ r2.value = s2.value /\ r2.done = s2.done
  OBVIOUS
<1>3. \A x, y \in Atomic!Calls :
        x.kind = y.kind /\ x.place = y.place /\ x.value = y.value /\ x.done = y.done => x = y
  BY DEF Atomic!Calls
<1> HIDE DEF r1, s1, r2, s2
<1>4. r1 = s1 /\ r2 = s2
  BY <1>1, <1>2, <1>3
<1> QED BY <1>4 DEF r1, s1, r2, s2

(* Each step of DiskNext is a step of AtomicDisk or changes nothing there.     *)
LEMMA StepRefines ==
  ASSUME ChannelInv, ChannelInv', DiskNext
  PROVE  Atomic!Next \/ UNCHANGED <<Stored, Called>>
<1> USE DEF Called
<1>0. DiskTypeOK /\ OneRequest /\ TransferMatches /\ DriveFollows
  BY DEF ChannelInv
<1>1. ASSUME NEW t \in Callers, NEW p \in Places, NEW v \in Values \cup {NoValue},
             NEW kind \in {"read", "write"}, Request(t, kind, p, v)
      PROVE  Atomic!Ask(t, kind, p, v)
  <2>1. /\ req' = [req EXCEPT ![t] = [at |-> "acquire", kind |-> kind, drive |-> p[1],
                                      sector |-> p[2], value |-> v]]
        /\ UNCHANGED <<device, medium>> /\ At(t, "idle")
    BY <1>1 DEF Request, deviceVars
  <2>2. p = <<p[1], p[2]>>
    BY DEF Places
  <2>3. CallOf(t)' = [kind |-> kind, place |-> p, value |-> v, done |-> FALSE]
    BY <1>0, <2>1, <2>2 DEF DiskTypeOK, CallOf, At
  <2>4. Called' = [Called EXCEPT ![t] = [kind |-> kind, place |-> p, value |-> v, done |-> FALSE]]
    BY <2>1, <2>3, CallRefines
  <2>5. Called[t] = Atomic!Idle
    BY <2>1 DEF CallOf, Atomic!Idle
  <2>6. Stored' = Stored
    BY <2>1 DEF Stored, Storing, Selected
  <2> QED BY <2>4, <2>5, <2>6 DEF Atomic!Ask
<1>2. ASSUME NEW t \in Callers, InputSector(t) PROVE Atomic!Read(t)
  <2> DEFINE c == CallOf(t)
             p == <<req[t].drive, req[t].sector>>
  <2>1. /\ At(t, "data") /\ req[t].kind = "read" /\ medium' = medium
        /\ req' = [req EXCEPT ![t] = [req[t] EXCEPT !.value = device.buffer, !.at = "release"]]
    BY <1>0, <1>2 DEF InputSector
  <2>2. ~device.busy /\ Selected = p /\ device.buffer = medium[p]
    BY <1>0, <2>1 DEF DriveFollows, DriveAt, TransferMatches
  <2>3. /\ c \in Atomic!Calls
        /\ c = [kind |-> "read", place |-> p, value |-> req[t].value, done |-> FALSE]
    BY <2>1, CallType DEF CallOf, At
  <2>4. p \in Places /\ Stored[p] = device.buffer
    BY <2>2, <2>3 DEF Stored, Atomic!Calls
  <2>5. ~device'.busy
    BY <1>0, <1>2, <2>2 DEF InputSector
  <2>6. Stored' = Stored
    BY <2>1, <2>2, <2>5 DEF Stored, Storing
  <2>7. CallOf(t)' = [c EXCEPT !.value = device.buffer, !.done = TRUE]
    <3> DEFINE e == [req[t] EXCEPT !.value = device.buffer, !.at = "release"]
    <3>1. req'[t] = e
      BY <1>0, <2>1 DEF DiskTypeOK
    <3>2. /\ e.at = "release" /\ e.kind = "read" /\ e.value = device.buffer
          /\ e.drive = req[t].drive /\ e.sector = req[t].sector
      BY <1>0, <2>1
    <3>3. CallOf(t)' = [kind |-> "read", place |-> p, value |-> device.buffer, done |-> TRUE]
      BY <3>1, <3>2 DEF CallOf, At
    <3>4. device.buffer \in Values /\ c.kind = "read" /\ c.place = p
      BY <1>0, <2>3 DEF DiskTypeOK, DeviceType
    <3> HIDE DEF c, p
    <3> QED BY <2>3, <3>3, <3>4, CallDone
  <2>8. Called' = [Called EXCEPT ![t] = [c EXCEPT !.value = device.buffer, !.done = TRUE]]
    BY <2>1, <2>7, CallRefines
  <2>9. Called[t] = c /\ c.kind = "read" /\ ~c.done /\ c.place = p
    BY <2>3
  <2>10. Called' = [Called EXCEPT ![t].value = Stored[c.place], ![t].done = TRUE]
    BY <2>4, <2>8, <2>9
  <2> QED BY <2>3, <2>6, <2>9, <2>10 DEF Atomic!Read
<1>3. ASSUME NEW t \in Callers, OutputSector(t) PROVE Atomic!Write(t)
  <2> DEFINE c == CallOf(t)
             p == <<req[t].drive, req[t].sector>>
  <2>1. /\ At(t, "data") /\ req[t].kind = "write" /\ medium' = medium
        /\ req' = [req EXCEPT ![t] = [req[t] EXCEPT !.at = "await"]]
    BY <1>0, <1>3 DEF OutputSector, GoTo
  <2>2. ~device.busy /\ Selected = p /\ device.command = "store"
    BY <1>0, <2>1 DEF DriveFollows, DriveAt, TransferMatches
  <2>3. /\ c \in Atomic!Calls
        /\ c = [kind |-> "write", place |-> p, value |-> req[t].value, done |-> FALSE]
    BY <2>1, CallType DEF CallOf, At
  <2>4. p \in Places
    BY <2>3 DEF Atomic!Calls
  <2>5. /\ device'.busy /\ device'.command = "store" /\ device'.buffer = req[t].value
        /\ device'.drive = device.drive /\ device'.sector = device.sector
    BY <1>0, <1>3, <2>2 DEF OutputSector
  <2>6. Stored' = [Stored EXCEPT ![p] = req[t].value]
    BY <2>1, <2>2, <2>4, <2>5 DEF Stored, Storing, Selected
  <2>7. CallOf(t)' = [c EXCEPT !.done = TRUE]
    <3> DEFINE e == [req[t] EXCEPT !.at = "await"]
    <3>1. req'[t] = e
      BY <1>0, <2>1 DEF DiskTypeOK
    <3>2. /\ e.at = "await" /\ e.kind = "write" /\ e.value = req[t].value
          /\ e.drive = req[t].drive /\ e.sector = req[t].sector
      BY <1>0, <2>1
    <3>3. CallOf(t)' = [kind |-> "write", place |-> p, value |-> req[t].value, done |-> TRUE]
      BY <3>1, <3>2 DEF CallOf, At
    <3>4. 0 \in Values /\ c.kind = "write" /\ c.place = p /\ c.value = req[t].value
      BY <2>3, DiskAssumption
    <3> HIDE DEF c, p
    <3> QED BY <2>3, <3>3, <3>4, CallDone
  <2>8. Called' = [Called EXCEPT ![t] = [c EXCEPT !.done = TRUE]]
    BY <2>1, <2>7, CallRefines
  <2>9. Called[t] = c /\ c.kind = "write" /\ ~c.done /\ c.place = p /\ c.value = req[t].value
    BY <2>3
  <2>10. Called' = [Called EXCEPT ![t].done = TRUE]
    BY <2>8, <2>9
  <2> QED BY <2>3, <2>6, <2>9, <2>10 DEF Atomic!Write
<1>4. ASSUME NEW t \in Callers, Release(t) PROVE Atomic!Return(t)
  <2>1. At(t, "release") /\ UNCHANGED <<device, medium>> /\ req' = [req EXCEPT ![t] = NoRequest]
    BY <1>4 DEF Release, deviceVars
  <2>2. CallOf(t) \in Atomic!Calls /\ CallOf(t).done
    BY <2>1, CallType DEF CallOf, At
  <2>3. CallOf(t)' = Atomic!Idle
    BY <1>0, <2>1 DEF DiskTypeOK, CallOf, At, NoRequest, Atomic!Idle
  <2>4. Called' = [Called EXCEPT ![t] = Atomic!Idle]
    BY <2>1, <2>3, CallRefines
  <2>5. Stored' = Stored
    BY <2>1 DEF Stored, Storing, Selected
  <2> QED BY <2>2, <2>4, <2>5 DEF Atomic!Return
<1> QED BY <1>1, <1>2, <1>3, <1>4, QuietRefines, DriveRefines DEF DiskNext, Step, Atomic!Next

(* disk_read and disk_write are atomic, for any number of threads and      *)
(* requests and whatever interrupts come.                                  *)
THEOREM Refinement == DiskSpec => ImplementsAtomicDisk
<1>1. DiskInit => Atomic!Init
  <2> SUFFICES ASSUME DiskInit PROVE Atomic!Init
    OBVIOUS
  <2>1. Called = [t \in Callers |-> Atomic!Idle]
    BY DEF DiskInit, Called, CallOf, At, NoRequest, Atomic!Idle
  <2>2. Stored \in [Places -> Values]
    BY DiskAssumption DEF DiskInit, Stored
  <2> QED BY <2>1, <2>2 DEF Atomic!Init, Called
<1>2. ChannelInv /\ ChannelInv' /\ [DiskNext]_diskVars => [Atomic!Next]_<<Stored, Called>>
  <2> SUFFICES ASSUME ChannelInv, ChannelInv', [DiskNext]_diskVars
               PROVE  [Atomic!Next]_<<Stored, Called>>
    OBVIOUS
  <2>1. CASE DiskNext
    BY <2>1, StepRefines
  <2>2. CASE UNCHANGED diskVars
    BY <2>2 DEF Stored, Called, CallOf, Storing, Selected, At, diskVars, threadVars, deviceVars
  <2> QED BY <2>1, <2>2
<1> QED BY <1>1, <1>2, ChannelInvariant, PTL DEF DiskSpec, ImplementsAtomicDisk, Atomic!Spec, Called

-----------------------------------------------------------------------------
(* The serial port. *)

(* next() stays in the buffer and moves on.                                *)
LEMMA NextPosition ==
  ASSUME NEW p \in Positions
  PROVE  /\ Next(p) = IF p + 1 = BufSize THEN 0 ELSE p + 1
         /\ Next(p) \in Positions /\ Next(p) # p
<1>1. BufSize \in Nat /\ BufSize > 1 /\ p \in 0..(BufSize - 1)
  BY IntQueueAssumption DEF Positions
<1>2. CASE p + 1 = BufSize
  BY <1>1, <1>2 DEF Next, Positions
<1>3. CASE p + 1 # BufSize
  BY <1>1, <1>3 DEF Next, Positions
<1> QED BY <1>2, <1>3

(* Different positions have different successors.                          *)
LEMMA NextInjective ==
  ASSUME NEW p \in Positions, NEW r \in Positions, Next(p) = Next(r)
  PROVE  p = r
<1>1. BufSize \in Nat /\ p \in 0..(BufSize - 1) /\ r \in 0..(BufSize - 1)
  BY IntQueueAssumption DEF Positions
<1>2. /\ p + 1 = BufSize => Next(p) = 0
      /\ p + 1 # BufSize => Next(p) = p + 1
      /\ r + 1 = BufSize => Next(r) = 0
      /\ r + 1 # BufSize => Next(r) = r + 1
  BY NextPosition
<1>3. CASE p + 1 = BufSize
  BY <1>1, <1>2, <1>3
<1>4. CASE p + 1 # BufSize
  BY <1>1, <1>2, <1>4
<1> QED BY <1>3, <1>4

(* Taking a byte makes room and unregisters the writer ...                 *)
LEMMA GetcProperties ==
  ASSUME NEW B, NEW T, NEW q \in QueueType(B, T), ~IsEmpty(q)
  PROVE  /\ Getc(q) \in QueueType(B, T) /\ First(q) \in B
         /\ ~IsFull(Getc(q))
         /\ Getc(q).notFull = None /\ Getc(q).notEmpty = q.notEmpty
         /\ Getc(q).buf = q.buf /\ Getc(q).head = q.head /\ Getc(q).tail = Next(q.tail)
         /\ GetcWakes(q) \subseteq T \cup {None}
<1>1. q.head \in Positions /\ q.tail \in Positions /\ Next(q.tail) \in Positions /\ q.head # q.tail
  BY NextPosition DEF QueueType, IsEmpty
<1>2. Next(q.head) # Next(q.tail)
  BY <1>1, NextInjective
<1> QED BY <1>1, <1>2 DEF Getc, First, QueueType, IsFull, GetcWakes

(* ... and adding one gives something to take and unregisters the reader.  *)
LEMMA PutcProperties ==
  ASSUME NEW B, NEW T, NEW q \in QueueType(B, T), NEW byte \in B, ~IsFull(q)
  PROVE  /\ Putc(q, byte) \in QueueType(B, T)
         /\ ~IsEmpty(Putc(q, byte))
         /\ Putc(q, byte).notEmpty = None /\ Putc(q, byte).notFull = q.notFull
         /\ PutcWakes(q) \subseteq T \cup {None}
<1>1. q.head \in Positions /\ Next(q.head) \in Positions /\ Next(q.head) # q.tail
  BY NextPosition DEF QueueType, IsFull
<1> QED BY <1>1 DEF Putc, QueueType, IsEmpty, PutcWakes

(* intq_putc changes the byte at head only.                                *)
LEMMA PutcBytes ==
  ASSUME NEW B, NEW T, NEW q \in QueueType(B, T), NEW byte
  PROVE  \A p \in Positions : Putc(q, byte).buf[p] = IF p = q.head THEN byte ELSE q.buf[p]
BY DEF Putc, QueueType

(* Registering as the waiter changes nothing else of the queue.            *)
LEMMA WaitProperties ==
  ASSUME NEW B, NEW T, NEW q \in QueueType(B, T), NEW t \in T
  PROVE  /\ WaitNotFull(q, t) \in QueueType(B, T) /\ WaitNotEmpty(q, t) \in QueueType(B, T)
         /\ WaitNotFull(q, t).notFull = t /\ WaitNotFull(q, t).notEmpty = q.notEmpty
         /\ WaitNotEmpty(q, t).notEmpty = t /\ WaitNotEmpty(q, t).notFull = q.notFull
         /\ IsFull(WaitNotFull(q, t)) = IsFull(q) /\ IsEmpty(WaitNotFull(q, t)) = IsEmpty(q)
         /\ IsFull(WaitNotEmpty(q, t)) = IsFull(q) /\ IsEmpty(WaitNotEmpty(q, t)) = IsEmpty(q)
BY DEF WaitNotFull, WaitNotEmpty, QueueType, IsFull, IsEmpty

-----------------------------------------------------------------------------
(* Keys come only from the keyboard and bytes of the line only into the    *)
(* input buffer; nothing is printed beyond what the bounds allow.          *)
OutBytes == 0..(MaxOut + PanicOut)
InBytes  == 0..MaxIn \cup {Key}

(* The type invariant, with each byte in the queue it belongs to.          *)
Types ==
  /\ mode \in {"poll", "starting", "queue"} /\ panic \in {"no", "print", "flush", "stop"}
  /\ txq \in QueueType(OutBytes, {Writer}) /\ buffer \in QueueType(InBytes, {Reader})
  /\ ier \in [xmit : BOOLEAN, recv : BOOLEAN]
  /\ thr \in OutBytes /\ rbr \in 0..MaxIn
  /\ calling \subseteq {Writer, Reader} /\ asleep \subseteq calling
  /\ left \in 0..PanicOut
  /\ written \in Nat /\ wire \in Nat /\ arrived \in 0..MaxIn /\ got \in Nat

(* What is printed stays within the bounds.                                *)
Budget ==
  /\ written + left <= MaxOut + PanicOut
  /\ Writer \in calling => mode = "queue" /\ (panic = "no" => written < MaxOut)

(* What every step keeps.                                                  *)
SerialKept == Types /\ Budget /\ SleeperRegistered /\ IerCurrent

(* What every step keeps is at least the invariant that is checked.        *)
LEMMA KeptSuffices ==
  ASSUME SerialKept
  PROVE  SerialInv
<1>1. OutBytes \subseteq Bytes /\ InBytes \subseteq Bytes /\ 0..MaxIn \subseteq Bytes
  BY SerialAssumption DEF OutBytes, InBytes, Bytes
<1>2. txq \in QueueType(Bytes, {Writer}) /\ buffer \in QueueType(Bytes, {Reader})
  BY <1>1 DEF SerialKept, Types, QueueType
<1>3. ASSUME IsFull(txq) PROVE ~IsEmpty(txq)
  BY <1>3, NextPosition DEF SerialKept, Types, QueueType, IsFull, IsEmpty
<1>4. ASSUME IsEmpty(buffer) PROVE ~IsFull(buffer)
  BY <1>4, NextPosition DEF SerialKept, Types, QueueType, IsFull, IsEmpty
<1>5. SleeperServed
  BY <1>3, <1>4 DEF SerialKept, Types, Budget, SleeperRegistered, IerCurrent, SleeperServed,
     Transmitting, Receiving
<1> QED BY <1>1, <1>2, <1>5 DEF SerialKept, Types, SerialInv, TypeOK

(* It holds at boot.                                                       *)
LEMMA InitKept ==
  ASSUME Init
  PROVE  SerialKept
<1>1. 0 \in Positions /\ 0 \in OutBytes /\ 0 \in InBytes /\ 0 \in 0..MaxIn /\ PanicOut \in 0..PanicOut
  BY IntQueueAssumption, SerialAssumption DEF Positions, OutBytes, InBytes
<1>2. Empty \in QueueType(OutBytes, {Writer}) /\ Empty \in QueueType(InBytes, {Reader})
  BY <1>1 DEF Empty, QueueType
<1> QED BY <1>1, <1>2, SerialAssumption
        DEF Init, Empty, SerialKept, Types, Budget, SleeperRegistered, IerCurrent

(* Every step keeps it.                                                    *)
LEMMA StepKept ==
  ASSUME SerialKept, [SerialNext]_vars
  PROVE  SerialKept'
<1> USE DEF outVars, inVars, Wake, WriteIer, PollPutc, SerialKept, Types, Budget, SleeperRegistered,
            IerCurrent
<1>0. /\ txq \in QueueType(OutBytes, {Writer}) /\ buffer \in QueueType(InBytes, {Reader})
      /\ MaxOut \in Nat /\ PanicOut \in Nat /\ MaxIn \in Nat
      /\ None \notin {Writer, Reader} /\ Writer # Reader /\ 0 \in OutBytes
      /\ \A n \in Nat : n <= MaxOut + PanicOut => n \in OutBytes
      /\ OutBytes \subseteq Nat /\ Key \in InBytes /\ 0..MaxIn \subseteq InBytes
      /\ \A b \in InBytes \ {Key} : b \in Nat
  BY SerialAssumption DEF OutBytes, InBytes
<1>1. CASE InitQueue
  BY <1>0, <1>1 DEF InitQueue
<1>15. CASE EnableQueue
  BY <1>0, <1>15 DEF EnableQueue
<1>2. CASE PutcPolled
  BY <1>0, <1>2 DEF PutcPolled, CanWrite
<1>3. CASE PutcWait
  <2>0. txq' = WaitNotFull(txq, Writer)
    BY <1>3 DEF PutcWait
  <2>1. /\ txq' \in QueueType(OutBytes, {Writer}) /\ txq'.notFull = Writer
        /\ IsFull(txq') = IsFull(txq) /\ IsEmpty(txq') = IsEmpty(txq)
    BY <1>0, <2>0, WaitProperties
  <2> QED BY <1>0, <1>3, <2>1 DEF PutcWait, CanWrite
<1>4. CASE PutcQueued
  <2>1. /\ written + 1 \in OutBytes /\ written + 1 + left <= MaxOut + PanicOut
    BY <1>0, <1>4 DEF PutcQueued, CanWrite
  <2>0. txq' = Putc(txq, written + 1) /\ ~IsFull(txq)
    BY <1>4 DEF PutcQueued
  <2>2. /\ txq' \in QueueType(OutBytes, {Writer}) /\ txq'.notFull = txq.notFull
        /\ PutcWakes(txq) \subseteq {Writer} \cup {None}
    BY <1>0, <2>0, <2>1, PutcProperties
  <2>3. Writer \notin asleep
    BY <1>4 DEF PutcQueued, CanWrite
  <2> QED BY <1>0, <1>4, <2>1, <2>2, <2>3 DEF PutcQueued, CanWrite
<1>5. CASE Panic
  BY <1>0, <1>5 DEF Panic
<1>6. CASE PanicPutc
  <2>1. /\ written + 1 \in OutBytes /\ left - 1 \in 0..PanicOut
        /\ (written + 1) + (left - 1) <= MaxOut + PanicOut
    BY <1>0, <1>6 DEF PanicPutc
  <2>2. CASE mode = "poll"
    BY <1>0, <1>6, <2>1, <2>2 DEF PanicPutc
  <2>3. CASE mode # "poll" /\ IsFull(txq)
    <3>1. ~IsEmpty(txq)
      <4>1. txq.head \in Positions
        BY <1>0 DEF QueueType
      <4> QED BY <2>3, <4>1, NextPosition DEF IsFull, IsEmpty
    <3>2. /\ Getc(txq) \in QueueType(OutBytes, {Writer}) /\ First(txq) \in OutBytes
          /\ ~IsFull(Getc(txq)) /\ Getc(txq).notFull = None
          /\ GetcWakes(txq) = {txq.notFull}
      BY <1>0, <3>1, GetcProperties DEF GetcWakes
    <3>5. txq' = Putc(Getc(txq), written + 1)
      BY <1>6, <2>3 DEF PanicPutc
    <3>3. txq' \in QueueType(OutBytes, {Writer}) /\ txq'.notFull = None
      BY <2>1, <3>2, <3>5, PutcProperties
    <3>4. txq.notFull \in {Writer, None}
      BY <1>0 DEF QueueType
    <3>6. /\ asleep' = asleep \ {txq.notFull} /\ thr' = First(txq) /\ mode # "poll"
          /\ UNCHANGED <<mode, buffer, rbr, arrived, got, calling, panic, wire>> /\ panic = "print"
          /\ ier' = [xmit |-> ~IsEmpty(txq'), recv |-> ~IsFull(buffer)]
          /\ left' = left - 1 /\ written' = written + 1
      BY <1>6, <2>3, <3>2 DEF PanicPutc
    <3>7. Writer \notin asleep' /\ (Reader \in asleep' <=> Reader \in asleep) /\ asleep' \subseteq asleep
      BY <1>0, <3>4, <3>6
    <3>8. written' \in Nat /\ left' \in 0..PanicOut
      BY <2>1, <3>6
    <3> QED BY <1>0, <2>1, <3>2, <3>3, <3>6, <3>7, <3>8
  <2>4. CASE mode # "poll" /\ ~IsFull(txq)
    <3>1. /\ txq' = Putc(txq, written + 1) /\ mode # "poll" /\ panic = "print"
          /\ UNCHANGED <<mode, thr, asleep, buffer, rbr, arrived, got, calling, panic, wire>>
          /\ ier' = [xmit |-> ~IsEmpty(txq'), recv |-> ~IsFull(buffer)]
          /\ left' = left - 1 /\ written' = written + 1
      BY <1>6, <2>4 DEF PanicPutc
    <3>2. txq' \in QueueType(OutBytes, {Writer}) /\ txq'.notFull = txq.notFull
      BY <1>0, <2>1, <2>4, <3>1, PutcProperties
    <3>3. Writer \notin asleep /\ written' \in Nat /\ left' \in 0..PanicOut
      BY <2>1, <2>4, <3>1
    <3> QED BY <1>0, <2>1, <3>1, <3>2, <3>3
  <2> QED BY <2>2, <2>3, <2>4
<1>7. CASE Flush
  <2>1. CASE IsEmpty(txq)
    BY <1>0, <1>7, <2>1 DEF Flush
  <2>2. CASE ~IsEmpty(txq)
    <3>1. /\ txq' \in QueueType(OutBytes, {Writer}) /\ First(txq) \in OutBytes
          /\ txq'.notFull = None /\ GetcWakes(txq) = {txq.notFull}
      BY <1>0, <1>7, <2>2, GetcProperties DEF Flush, GetcWakes
    <3>2. txq.notFull \in {Writer, None}
      BY <1>0 DEF QueueType
    <3> QED BY <1>0, <1>7, <2>2, <3>1, <3>2 DEF Flush
  <2> QED BY <2>1, <2>2
<1>8. CASE GetcWait
  <2>0. buffer' = WaitNotEmpty(buffer, Reader)
    BY <1>8 DEF GetcWait
  <2>1. /\ buffer' \in QueueType(InBytes, {Reader}) /\ buffer'.notEmpty = Reader
        /\ IsFull(buffer') = IsFull(buffer) /\ IsEmpty(buffer') = IsEmpty(buffer)
    BY <1>0, <2>0, WaitProperties
  <2> QED BY <1>0, <1>8, <2>1 DEF GetcWait, CanRead
<1>9. CASE InputGetc
  <2>1. /\ buffer' \in QueueType(InBytes, {Reader}) /\ buffer'.notEmpty = buffer.notEmpty
        /\ GetcWakes(buffer) \subseteq {Reader, None} /\ First(buffer) \in InBytes
    BY <1>0, <1>9, GetcProperties DEF InputGetc
  <2>2. Reader \notin asleep
    BY <1>9 DEF InputGetc, CanRead
  <2>3. got' \in Nat
    BY <1>0, <1>9, <2>1 DEF InputGetc
  <2>4. /\ UNCHANGED <<mode, txq, thr, written, rbr, arrived, panic, left, wire>>
        /\ asleep' = asleep \ GetcWakes(buffer) /\ calling' = calling \ {Reader}
        /\ ier' = IF mode # "poll" THEN [xmit |-> ~IsEmpty(txq), recv |-> ~IsFull(buffer')] ELSE ier
    BY <1>9 DEF InputGetc, Notify
  <2>5. Reader \notin asleep' /\ (Writer \in asleep' <=> Writer \in asleep) /\ asleep' \subseteq calling'
    BY <1>0, <2>1, <2>2, <2>4
  <2> QED BY <1>0, <2>1, <2>2, <2>3, <2>4, <2>5
<1>10. CASE KeyPress
  <2>0. buffer' = Putc(buffer, Key) /\ ~IsFull(buffer)
    BY <1>10 DEF KeyPress
  <2>1. /\ buffer' \in QueueType(InBytes, {Reader}) /\ buffer'.notEmpty = None
        /\ PutcWakes(buffer) = {buffer.notEmpty}
    BY <1>0, <2>0, PutcProperties DEF PutcWakes
  <2>2. buffer.notEmpty \in {Reader, None}
    BY <1>0 DEF QueueType
  <2>3. /\ UNCHANGED <<mode, txq, thr, written, rbr, arrived, got, calling, panic, left, wire>>
        /\ asleep' = asleep \ {buffer.notEmpty}
        /\ ier' = IF mode # "poll" THEN [xmit |-> ~IsEmpty(txq), recv |-> ~IsFull(buffer')] ELSE ier
    BY <1>10, <2>1 DEF KeyPress, Notify
  <2>4. Reader \notin asleep' /\ (Writer \in asleep' <=> Writer \in asleep) /\ asleep' \subseteq asleep
    BY <1>0, <2>2, <2>3
  <2> QED BY <1>0, <2>1, <2>3, <2>4
<1>11. CASE SerialInterrupt
  <2>1. /\ buffer' \in QueueType(InBytes, {Reader}) /\ rbr' \in 0..MaxIn
        /\ buffer'.notEmpty = IF Receiving THEN None ELSE buffer.notEmpty
    <3>1. CASE Receiving
      <4>1. buffer' = Putc(buffer, rbr) /\ ~IsFull(buffer) /\ rbr' = 0 /\ rbr \in InBytes
        BY <1>0, <1>11, <3>1 DEF SerialInterrupt, Receiving
      <4> QED BY <1>0, <3>1, <4>1, PutcProperties
    <3>2. CASE ~Receiving
      BY <1>0, <1>11, <3>2 DEF SerialInterrupt
    <3> QED BY <3>1, <3>2
  <2>2. /\ txq' \in QueueType(OutBytes, {Writer}) /\ thr' \in OutBytes
        /\ txq'.notFull = IF Transmitting THEN None ELSE txq.notFull
    BY <1>0, <1>11, GetcProperties DEF SerialInterrupt, Transmitting
  <2>3. /\ txq.notFull \in {Writer, None} /\ buffer.notEmpty \in {Reader, None}
        /\ PutcWakes(buffer) = {buffer.notEmpty} /\ GetcWakes(txq) = {txq.notFull}
    BY <1>0 DEF QueueType, PutcWakes, GetcWakes
  <2>4. /\ Writer \in asleep' <=> txq'.notFull = Writer
        /\ Reader \in asleep' <=> buffer'.notEmpty = Reader
        /\ asleep' \subseteq asleep
    BY <1>0, <1>11, <2>1, <2>2, <2>3 DEF SerialInterrupt
  <2>5. /\ Writer \in asleep' => ~Transmitting
        /\ Reader \in asleep' => ~Receiving
    BY <1>0, <2>1, <2>2, <2>4
  <2>6. /\ Writer \in asleep' => IsFull(txq')
        /\ Reader \in asleep' => IsEmpty(buffer')
    BY <1>11, <2>4, <2>5 DEF SerialInterrupt
  <2> QED BY <1>0, <1>11, <2>1, <2>2, <2>4, <2>6 DEF SerialInterrupt
<1>12. CASE Transmit
  BY <1>0, <1>12 DEF Transmit
<1>13. CASE Receive
  BY <1>0, <1>13 DEF Receive
<1>14. CASE UNCHANGED vars
  BY <1>0, <1>14 DEF vars
<1> QED BY <1>1, <1>2, <1>3, <1>4, <1>5, <1>6, <1>7, <1>8, <1>9, <1>10, <1>11, <1>12, <1>13,
           <1>14, <1>15 DEF SerialNext, Stopped

(* No wakeup between a thread and a handler is lost, and the port raises   *)
(* an interrupt exactly when one is needed.                                *)
THEOREM SerialInvariant == Spec => []SerialInv
<1>1. Init => SerialKept
  BY InitKept
<1>2. SerialKept /\ [SerialNext]_vars => SerialKept'
  BY StepKept
<1>3. SerialKept => SerialInv
  BY KeptSuffices
<1> QED BY <1>1, <1>2, <1>3, PTL DEF Spec

(* No thread sleeps on a queue for nothing: the writer's room and the      *)
(* reader's byte come from a transmitter that sends or an interrupt that   *)
(* is raised and moves a byte.                                             *)
THEOREM SleepersWoken == Spec => [](SleeperRegistered /\ SleeperServed)
BY SerialInvariant, PTL DEF SerialInv

-----------------------------------------------------------------------------
(* Positions in the order in which their bytes will be taken, and those    *)
(* that hold a byte.                                                       *)
Turn(q, p) == IF p >= q.tail THEN p - q.tail ELSE (p + BufSize) - q.tail
Holds(q, p) == Turn(q, p) < Turn(q, q.head)

(* Positions are told apart by their distance from the tail.               *)
LEMMA TurnOrder ==
  ASSUME NEW B, NEW T, NEW q \in QueueType(B, T)
  PROVE  /\ q.head \in Positions /\ q.tail \in Positions
         /\ \A p \in Positions : Turn(q, p) \in 0..(BufSize - 1)
         /\ \A p, r \in Positions : Turn(q, p) = Turn(q, r) => p = r
         /\ Turn(q, q.tail) = 0 /\ ~Holds(q, q.head)
<1>1. /\ BufSize \in Nat /\ BufSize > 1 /\ q.tail \in 0..(BufSize - 1) /\ q.head \in 0..(BufSize - 1)
      /\ Positions = 0..(BufSize - 1)
  BY IntQueueAssumption DEF QueueType, Positions
<1>2. \A p \in Positions : Turn(q, p) \in 0..(BufSize - 1)
  BY <1>1 DEF Turn
<1> QED BY <1>1, <1>2 DEF Turn, Holds

(* intq_getc empties the first position in turn.                           *)
LEMMA GetcOrder ==
  ASSUME NEW B, NEW T, NEW q \in QueueType(B, T), ~IsEmpty(q)
  PROVE  /\ Holds(q, q.tail)
         /\ \A p \in Positions :
              /\ Holds(Getc(q), p) <=> Holds(q, p) /\ p # q.tail
              /\ p # q.tail => Turn(Getc(q), p) = Turn(q, p) - 1
<1>1. /\ BufSize \in Nat /\ BufSize > 1 /\ q.tail \in 0..(BufSize - 1) /\ q.head \in 0..(BufSize - 1)
      /\ q.head # q.tail /\ Positions = 0..(BufSize - 1)
  BY IntQueueAssumption DEF QueueType, Positions, IsEmpty
<1>2. Getc(q).head = q.head /\ Getc(q).tail = Next(q.tail)
  BY GetcProperties
<1>3. /\ q.tail + 1 = BufSize => Getc(q).tail = 0
      /\ q.tail + 1 # BufSize => Getc(q).tail = q.tail + 1
  BY <1>1, <1>2, NextPosition
<1>4. ASSUME NEW p \in Positions
      PROVE  Turn(Getc(q), p) = IF p = q.tail THEN BufSize - 1 ELSE Turn(q, p) - 1
  BY <1>1, <1>3 DEF Turn
<1>5. Turn(q, q.tail) = 0 /\ Turn(q, q.head) \in 1..(BufSize - 1)
  BY <1>1 DEF Turn
<1>6. Turn(Getc(q), Getc(q).head) = Turn(q, q.head) - 1
  BY <1>1, <1>2, <1>4
<1>7. \A p \in Positions : Turn(q, p) \in Int
  BY <1>1 DEF Turn
<1> QED BY <1>1, <1>4, <1>5, <1>6, <1>7 DEF Holds

(* intq_putc fills the position after the last.                            *)
LEMMA PutcOrder ==
  ASSUME NEW B, NEW T, NEW q \in QueueType(B, T), NEW byte, ~IsFull(q)
  PROVE  \A p \in Positions :
           /\ Turn(Putc(q, byte), p) = Turn(q, p)
           /\ Holds(Putc(q, byte), p) <=> Holds(q, p) \/ p = q.head
<1>1. /\ BufSize \in Nat /\ BufSize > 1 /\ q.tail \in 0..(BufSize - 1) /\ q.head \in 0..(BufSize - 1)
      /\ Next(q.head) # q.tail /\ Positions = 0..(BufSize - 1)
  BY IntQueueAssumption DEF QueueType, Positions, IsFull
<1>2. /\ Putc(q, byte).head = Next(q.head) /\ Putc(q, byte).tail = q.tail
      /\ Next(q.head) = IF q.head + 1 = BufSize THEN 0 ELSE q.head + 1
  BY <1>1, NextPosition DEF Putc, QueueType
<1>3. \A p \in Positions : Turn(Putc(q, byte), p) = Turn(q, p)
  BY <1>2 DEF Turn
<1>4. Turn(q, Next(q.head)) = Turn(q, q.head) + 1
  BY <1>1, <1>2 DEF Turn
<1>5. \A p \in Positions : Turn(q, p) \in Int /\ (Turn(q, p) = Turn(q, q.head) => p = q.head)
  BY <1>1, TurnOrder
<1>6. Turn(Putc(q, byte), Putc(q, byte).head) = Turn(q, q.head) + 1 /\ Turn(q, q.head) \in Int
  BY <1>1, <1>2, <1>3, <1>4, <1>5, NextPosition
<1> QED BY <1>3, <1>5, <1>6 DEF Holds

-----------------------------------------------------------------------------
(* A queue q holds the bytes of a line from g + 1 to n, in their order,    *)
(* and otherwise keys.                                                     *)
HoldsLine(q, g, n) ==
  /\ \A p \in Positions : Holds(q, p) /\ q.buf[p] # Key => g < q.buf[p] /\ q.buf[p] <= n
  /\ \A p, r \in Positions :
       /\ Holds(q, p) /\ q.buf[p] # Key /\ Holds(q, r) /\ q.buf[r] # Key
       /\ Turn(q, p) < Turn(q, r)
       => q.buf[p] < q.buf[r]
  /\ \A b \in (g + 1)..n : \E p \in Positions : Holds(q, p) /\ q.buf[p] = b

(* The bytes that have been put in the input buffer so far.                *)
Queued == IF rbr # 0 THEN arrived - 1 ELSE arrived

(* Those not yet delivered are in the buffer, in the order they arrived.   *)
LineKept ==
  /\ rbr # 0 => rbr = arrived
  /\ got <= Queued
  /\ HoldsLine(buffer, got, Queued)

(* The bytes between g and n are at different positions, none at head.     *)
LEMMA LineFits ==
  ASSUME NEW B \in SUBSET Int, NEW T, NEW q \in QueueType(B, T), NEW g \in Nat, NEW n \in Nat, g <= n,
         HoldsLine(q, g, n)
  PROVE  n - g < BufSize
<1> DEFINE L == (g + 1)..n
           P == Positions \ {q.head}
           at == [b \in L |-> CHOOSE p \in Positions : Holds(q, p) /\ q.buf[p] = b]
<1>1. \A b \in L : at[b] \in Positions /\ Holds(q, at[b]) /\ q.buf[at[b]] = b
  BY DEF HoldsLine
<1>2. q.head \in Positions /\ ~Holds(q, q.head)
  BY TurnOrder
<1>3. at \in Injection(L, P)
  BY <1>1, <1>2 DEF Injection, IsInjective
<1>4. /\ IsFiniteSet(L) /\ Cardinality(L) = n - g
  <2>1. IsFiniteSet(L) /\ Cardinality(L) = IF g + 1 > n THEN 0 ELSE n - (g + 1) + 1
    BY FS_Interval
  <2> QED BY <2>1
<1>5. IsFiniteSet(Positions) /\ Cardinality(Positions) = BufSize /\ BufSize \in Nat
  <2>1. BufSize \in Nat /\ BufSize > 1
    BY IntQueueAssumption
  <2>2. IsFiniteSet(0..(BufSize - 1))
        /\ Cardinality(0..(BufSize - 1)) = IF 0 > BufSize - 1 THEN 0 ELSE BufSize - 1 - 0 + 1
    BY <2>1, FS_Interval
  <2> QED BY <2>1, <2>2 DEF Positions
<1>6. IsFiniteSet(P) /\ Cardinality(P) = BufSize - 1
  BY <1>2, <1>5, FS_RemoveElement
<1> HIDE DEF L, P, at
<1>7. Cardinality(L) <= Cardinality(P)
  BY <1>3, <1>4, <1>6, FS_Injection
<1> QED BY <1>4, <1>5, <1>6, <1>7

(* A byte of the line is put into the buffer, ...                          *)
LEMMA LinePutc ==
  ASSUME NEW B \in SUBSET Int, NEW T, NEW q \in QueueType(B, T), NEW g \in Nat, NEW n \in Nat, g <= n,
         n + 1 \in B, ~IsFull(q), HoldsLine(q, g, n)
  PROVE  HoldsLine(Putc(q, n + 1), g, n + 1)
<1> DEFINE j == Putc(q, n + 1)
<1>1. \A p \in Positions : /\ Turn(j, p) = Turn(q, p) /\ Turn(q, p) \in Int
                           /\ Holds(j, p) <=> Holds(q, p) \/ p = q.head
                           /\ j.buf[p] = IF p = q.head THEN n + 1 ELSE q.buf[p]
                           /\ q.buf[p] \in Int
                           /\ Holds(q, p) => Turn(q, p) < Turn(q, q.head)
  <2>1. \A p \in Positions : q.buf[p] \in Int
    BY DEF QueueType
  <2>2. \A p \in Positions : Turn(q, p) \in Int
    BY TurnOrder, IntQueueAssumption
  <2> QED BY <2>1, <2>2, PutcOrder, PutcBytes DEF Holds
<1>2. q.head \in Positions /\ ~Holds(q, q.head)
  BY TurnOrder
<1> HIDE DEF j
<1>3. \A p \in Positions : Holds(j, p) /\ j.buf[p] # Key => g < j.buf[p] /\ j.buf[p] <= n + 1
  BY <1>1 DEF HoldsLine
<1>4. ASSUME NEW p \in Positions, NEW r \in Positions, Holds(j, p), j.buf[p] # Key, Holds(j, r),
             j.buf[r] # Key, Turn(j, p) < Turn(j, r)
      PROVE  j.buf[p] < j.buf[r]
  <2>1. CASE r = q.head
    <3>1. p # q.head
      BY <1>1, <1>4, <2>1
    <3>2. j.buf[p] <= n
      BY <1>1, <1>4, <3>1 DEF HoldsLine
    <3> QED BY <1>1, <2>1, <3>1, <3>2
  <2>2. CASE r # q.head
    <3>1. Holds(q, r) /\ p # q.head
      BY <1>1, <1>2, <1>4, <2>2
    <3> QED BY <1>1, <1>4, <2>2, <3>1 DEF HoldsLine
  <2> QED BY <2>1, <2>2
<1>5. ASSUME NEW b \in (g + 1)..(n + 1) PROVE \E p \in Positions : Holds(j, p) /\ j.buf[p] = b
  <2>1. CASE b = n + 1
    BY <1>1, <1>2, <2>1
  <2>2. CASE b # n + 1
    <3>1. b \in (g + 1)..n
      BY <2>2
    <3>2. PICK p \in Positions : Holds(q, p) /\ q.buf[p] = b
      BY <3>1 DEF HoldsLine
    <3>3. p # q.head
      BY <1>2, <3>2
    <3> QED BY <1>1, <3>2, <3>3
  <2> QED BY <2>1, <2>2
<1> QED BY <1>3, <1>4, <1>5 DEF HoldsLine, j

(* ... a key between two of them, ...                                      *)
LEMMA KeyPutc ==
  ASSUME NEW B \in SUBSET Int, NEW T, NEW q \in QueueType(B, T), NEW g \in Nat, NEW n \in Nat,
         ~IsFull(q), HoldsLine(q, g, n)
  PROVE  HoldsLine(Putc(q, Key), g, n)
<1> DEFINE j == Putc(q, Key)
<1>1. \A p \in Positions : /\ Turn(j, p) = Turn(q, p)
                           /\ Holds(j, p) <=> Holds(q, p) \/ p = q.head
                           /\ j.buf[p] = IF p = q.head THEN Key ELSE q.buf[p]
  BY PutcOrder, PutcBytes
<1>2. ~Holds(q, q.head)
  BY TurnOrder
<1> HIDE DEF j
<1>3. \A p \in Positions : Holds(j, p) /\ j.buf[p] # Key => Holds(q, p) /\ j.buf[p] = q.buf[p]
  BY <1>1
<1>4. \A p \in Positions : Holds(q, p) => Holds(j, p) /\ j.buf[p] = q.buf[p]
  BY <1>1, <1>2
<1> QED BY <1>1, <1>3, <1>4 DEF HoldsLine, j

(* ... and the first of them is taken: a key, or the next byte.            *)
LEMMA LineGetc ==
  ASSUME NEW B \in SUBSET Int, NEW T, NEW q \in QueueType(B, T), NEW g \in Nat, NEW n \in Nat, g <= n,
         ~IsEmpty(q), HoldsLine(q, g, n)
  PROVE  \/ First(q) = Key /\ HoldsLine(Getc(q), g, n)
         \/ First(q) = g + 1 /\ First(q) # Key /\ g < n /\ HoldsLine(Getc(q), g + 1, n)
<1> DEFINE j == Getc(q)
<1>1. \A p \in Positions : /\ Holds(j, p) <=> Holds(q, p) /\ p # q.tail
                           /\ p # q.tail => Turn(j, p) = Turn(q, p) - 1
                           /\ j.buf[p] = q.buf[p] /\ q.buf[p] \in Int
                           /\ Turn(q, p) \in Nat /\ (p # q.tail => 0 < Turn(q, p))
  <2>1. \A p \in Positions : q.buf[p] \in Int
    BY DEF QueueType
  <2>2. \A p \in Positions : Turn(q, p) \in Nat /\ (p # q.tail => 0 < Turn(q, p))
    BY TurnOrder, IntQueueAssumption
  <2> QED BY <2>1, <2>2, GetcOrder, GetcProperties
<1>2. q.tail \in Positions /\ Holds(q, q.tail) /\ Turn(q, q.tail) = 0 /\ First(q) = q.buf[q.tail]
  BY TurnOrder, GetcOrder DEF First
<1> HIDE DEF j
<1>3. ASSUME NEW p \in Positions, NEW r \in Positions, Holds(j, p), j.buf[p] # Key, Holds(j, r),
             j.buf[r] # Key, Turn(j, p) < Turn(j, r)
      PROVE  j.buf[p] < j.buf[r]
  <2>1. Turn(q, p) < Turn(q, r) /\ Holds(q, p) /\ Holds(q, r)
    BY <1>1, <1>3
  <2> QED BY <1>1, <1>3, <2>1 DEF HoldsLine
<1>4. CASE First(q) = Key
  <2>1. ASSUME NEW b \in (g + 1)..n PROVE \E p \in Positions : Holds(j, p) /\ j.buf[p] = b
    <3>1. PICK p \in Positions : Holds(q, p) /\ q.buf[p] = b
      BY <2>1 DEF HoldsLine
    <3>0. b # Key
      BY <2>1 DEF Key
    <3>2. p # q.tail
      BY <1>2, <1>4, <3>0, <3>1
    <3> QED BY <1>1, <3>1, <3>2
  <2>2. \A p \in Positions : Holds(j, p) /\ j.buf[p] # Key => g < j.buf[p] /\ j.buf[p] <= n
    BY <1>1 DEF HoldsLine
  <2> QED BY <1>3, <1>4, <2>1, <2>2 DEF HoldsLine, j
<1>5. CASE First(q) # Key
  <2>1. g < First(q) /\ First(q) <= n /\ First(q) \in Int
    BY <1>1, <1>2, <1>5 DEF HoldsLine
  <2>2. First(q) = g + 1
    <3>1. g + 1 \in (g + 1)..n
      BY <2>1
    <3>2. PICK p \in Positions : Holds(q, p) /\ q.buf[p] = g + 1
      BY <3>1 DEF HoldsLine
    <3>3. CASE p # q.tail
      <4>1. Turn(q, q.tail) < Turn(q, p) /\ g + 1 # Key
        BY <1>1, <1>2, <3>3 DEF Key
      <4>2. First(q) < g + 1
        BY <1>2, <1>5, <3>2, <4>1 DEF HoldsLine
      <4> QED BY <2>1, <4>2
    <3> QED BY <1>2, <3>2, <3>3
  <2>3. ASSUME NEW p \in Positions, Holds(j, p), j.buf[p] # Key PROVE g + 1 < j.buf[p] /\ j.buf[p] <= n
    <3>1. Holds(q, p) /\ p # q.tail /\ q.buf[p] = j.buf[p] /\ Turn(q, q.tail) < Turn(q, p)
      BY <1>1, <1>2, <2>3
    <3>2. q.buf[q.tail] < q.buf[p]
      BY <1>2, <1>5, <2>3, <3>1 DEF HoldsLine
    <3>3. q.buf[p] <= n
      BY <2>3, <3>1 DEF HoldsLine
    <3> QED BY <1>2, <2>2, <3>1, <3>2, <3>3
  <2>4. ASSUME NEW b \in (g + 2)..n PROVE \E p \in Positions : Holds(j, p) /\ j.buf[p] = b
    <3>1. PICK p \in Positions : Holds(q, p) /\ q.buf[p] = b
      BY <2>4 DEF HoldsLine
    <3>0. b # g + 1
      BY <2>4
    <3>2. p # q.tail
      BY <1>2, <2>2, <3>0, <3>1
    <3> QED BY <1>1, <3>1, <3>2
  <2>5. (g + 1) + 1 = g + 2
    OBVIOUS
  <2> QED BY <1>3, <1>5, <2>1, <2>2, <2>3, <2>4, <2>5 DEF HoldsLine, j
<1> QED BY <1>4, <1>5

-----------------------------------------------------------------------------
(* Only what the reading thread takes, in turn, is gone from the line.     *)
LEMMA SameLine ==
  ASSUME LineKept, UNCHANGED <<rbr, arrived, got>>, UNCHANGED <<buffer.buf, buffer.head, buffer.tail>>
  PROVE  LineKept' /\ UNCHANGED <<arrived, got>>
<1>1. Queued' = Queued
  BY DEF Queued
<1>2. \A p \in Positions : /\ buffer'.buf[p] = buffer.buf[p]
                           /\ Turn(buffer', p) = Turn(buffer, p)
                           /\ Holds(buffer', p) <=> Holds(buffer, p)
  BY DEF Turn, Holds
<1>3. HoldsLine(buffer', got, Queued)
  BY <1>2 DEF LineKept, HoldsLine
<1> QED BY <1>1, <1>3 DEF LineKept

(* Every step keeps the order, and delivers the next byte or none.         *)
LEMMA StepLine ==
  ASSUME SerialKept, LineKept, [SerialNext]_vars
  PROVE  LineKept' /\ [In!Send \/ In!Deliver]_<<arrived, got>>
<1> USE DEF inVars
<1>0. /\ buffer \in QueueType(InBytes, {Reader}) /\ InBytes \in SUBSET Int
      /\ got \in Nat /\ arrived \in 0..MaxIn /\ MaxIn \in Nat
      /\ rbr \in 0..MaxIn /\ Queued \in Nat /\ got <= Queued /\ HoldsLine(buffer, got, Queued)
      /\ rbr # 0 => rbr = arrived
  BY SerialAssumption DEF SerialKept, Types, LineKept, Queued, InBytes, Key
<1>1. CASE InitQueue \/ EnableQueue \/ PutcPolled \/ PutcWait \/ PutcQueued \/ Panic \/ PanicPutc
           \/ Flush \/ Transmit \/ UNCHANGED vars
  <2>1. UNCHANGED inVars
    BY <1>1 DEF InitQueue, EnableQueue, PutcPolled, PutcWait, PutcQueued, Panic, PanicPutc, Flush, Transmit, vars
  <2> QED BY <2>1, SameLine
<1>2. CASE GetcWait
  <2>1. buffer' = WaitNotEmpty(buffer, Reader) /\ UNCHANGED <<rbr, arrived, got>>
    BY <1>2 DEF GetcWait
  <2>2. UNCHANGED <<buffer.buf, buffer.head, buffer.tail>>
    BY <1>0, <2>1 DEF WaitNotEmpty, QueueType
  <2> QED BY <2>1, <2>2, SameLine
<1>3. CASE InputGetc
  <2>1. /\ buffer' = Getc(buffer) /\ ~IsEmpty(buffer) /\ UNCHANGED <<rbr, arrived>>
        /\ got' = IF First(buffer) = Key THEN got ELSE First(buffer)
    BY <1>3 DEF InputGetc
  <2>2. Queued' = Queued
    BY <2>1 DEF Queued
  <2>3. CASE First(buffer) = Key /\ HoldsLine(buffer', got, Queued)
    <3>1. got' = got
      BY <2>1, <2>3
    <3> QED BY <1>0, <2>1, <2>2, <2>3, <3>1 DEF LineKept
  <2>4. CASE First(buffer) = got + 1 /\ First(buffer) # Key /\ got < Queued
             /\ HoldsLine(buffer', got + 1, Queued)
    <3>1. got' = got + 1
      BY <2>1, <2>4
    <3>2. LineKept'
      BY <1>0, <2>1, <2>2, <2>4, <3>1 DEF LineKept
    <3>3. Queued <= arrived
      BY <1>0 DEF Queued
    <3>4. In!Deliver
      BY <1>0, <2>1, <2>4, <3>1, <3>3 DEF In!Deliver
    <3> QED BY <3>2, <3>4
  <2> QED BY <1>0, <2>1, <2>3, <2>4, LineGetc
<1>4. CASE KeyPress
  <2>1. buffer' = Putc(buffer, Key) /\ ~IsFull(buffer) /\ UNCHANGED <<rbr, arrived, got>>
    BY <1>4 DEF KeyPress
  <2>2. HoldsLine(buffer', got, Queued) /\ Queued' = Queued
    BY <1>0, <2>1, KeyPutc DEF Queued
  <2> QED BY <1>0, <2>1, <2>2 DEF LineKept
<1>5. CASE SerialInterrupt
  <2>1. UNCHANGED <<arrived, got>>
    BY <1>5 DEF SerialInterrupt
  <2>2. CASE Receiving
    <3>1. buffer' = Putc(buffer, rbr) /\ rbr' = 0 /\ rbr # 0 /\ ~IsFull(buffer)
      BY <1>5, <2>2 DEF SerialInterrupt, Receiving
    <3>2. rbr = Queued + 1 /\ Queued' = Queued + 1 /\ rbr \in InBytes
      BY <1>0, <2>1, <3>1 DEF Queued, InBytes
    <3>3. HoldsLine(buffer', got, Queued + 1)
      BY <1>0, <3>1, <3>2, LinePutc
    <3> QED BY <1>0, <2>1, <3>1, <3>2, <3>3 DEF LineKept
  <2>3. CASE ~Receiving
    <3>1. UNCHANGED <<buffer, rbr>>
      BY <1>5, <2>3 DEF SerialInterrupt
    <3> QED BY <2>1, <3>1, SameLine
  <2> QED BY <2>2, <2>3
<1>6. CASE Receive
  <2>1. /\ rbr = 0 /\ arrived' = arrived + 1 /\ rbr' = arrived + 1 /\ UNCHANGED <<buffer, got>>
    BY <1>6 DEF Receive
  <2>2. Queued = arrived /\ Queued' = arrived
    BY <1>0, <2>1 DEF Queued
  <2>3. arrived - got < BufSize
    BY <1>0, <2>2, LineFits
  <2> QED BY <1>0, <2>1, <2>2, <2>3 DEF LineKept, In!Send
<1> QED BY <1>1, <1>2, <1>3, <1>4, <1>5, <1>6 DEF SerialNext, Stopped

(* The bytes of the line reach the program in order, each once, however    *)
(* keys come in between and however often the buffer is full.              *)
THEOREM InputOrder == Spec => InputInOrder
<1>1. Init => SerialKept
  BY InitKept
<1>2. SerialKept /\ [SerialNext]_vars => SerialKept'
  BY StepKept
<1>3. ASSUME Init PROVE LineKept
  <2>1. buffer = Empty /\ rbr = 0 /\ arrived = 0 /\ got = 0 /\ Queued = 0
    BY <1>3 DEF Init, Queued
  <2>2. \A p \in Positions : ~Holds(buffer, p)
    <3>1. buffer \in QueueType(InBytes, {Reader}) /\ buffer.head = buffer.tail
      BY <1>3, <2>1, InitKept DEF SerialKept, Types, Empty
    <3>2. \A p \in Positions : Turn(buffer, p) >= 0 /\ Turn(buffer, p) \in Int
      BY <3>1, TurnOrder, IntQueueAssumption
    <3> QED BY <3>1, <3>2, TurnOrder DEF Holds
  <2> QED BY <2>1, <2>2 DEF LineKept, HoldsLine
<1>4. SerialKept /\ LineKept /\ [SerialNext]_vars
        => LineKept' /\ [In!Send \/ In!Deliver]_<<arrived, got>>
  BY StepLine
<1>5. Init => In!Init
  BY DEF Init, In!Init
<1> QED BY <1>1, <1>2, <1>3, <1>4, <1>5, PTL DEF Spec, InputInOrder, In!Spec

-----------------------------------------------------------------------------
(* Output: the last byte that the transmitter was given, ...               *)
LastSent == IF thr # 0 THEN thr ELSE wire

(* ... after which the bytes that wait are in the queue, in their order.   *)
OutputKept ==
  /\ thr # 0 => thr = wire + 1
  /\ LastSent <= written
  /\ HoldsLine(txq, LastSent, written)
  /\ mode = "poll" => IsEmpty(txq)

(* A queue is empty exactly if no position holds a byte.                   *)
LEMMA EmptyHolds ==
  ASSUME NEW B, NEW T, NEW q \in QueueType(B, T)
  PROVE  IsEmpty(q) <=> \A p \in Positions : ~Holds(q, p)
<1>1. CASE IsEmpty(q)
  <2>1. \A p \in Positions : Turn(q, p) >= 0 /\ Turn(q, p) \in Int
    BY TurnOrder, IntQueueAssumption
  <2>2. q.head = q.tail
    BY <1>1 DEF IsEmpty
  <2> QED BY <1>1, <2>1, <2>2, TurnOrder DEF Holds
<1>2. CASE ~IsEmpty(q)
  BY <1>2, GetcOrder, TurnOrder
<1> QED BY <1>1, <1>2

(* Nothing waits beyond an empty queue.                                    *)
LEMMA NothingWaits ==
  ASSUME NEW B, NEW T, NEW q \in QueueType(B, T), NEW g \in Nat, NEW n \in Nat, g <= n,
         HoldsLine(q, g, n), IsEmpty(q)
  PROVE  g = n
<1>1. \A p \in Positions : ~Holds(q, p)
  BY EmptyHolds
<1>2. (g + 1)..n = {}
  BY <1>1 DEF HoldsLine
<1>3. ~(g + 1 <= n)
  BY <1>2
<1> QED BY <1>3

(* With room for one more, there is room for the byte in the transmitter.  *)
LEMMA RoomLeft ==
  ASSUME NEW T, NEW q \in QueueType(OutBytes, T), NEW g \in Nat, NEW n \in Nat, g <= n,
         n + 1 \in OutBytes, ~IsFull(q), HoldsLine(q, g, n)
  PROVE  /\ HoldsLine(Putc(q, n + 1), g, n + 1)
         /\ n + 1 - g < BufSize
<1>1. OutBytes \in SUBSET Int
  BY SerialAssumption DEF OutBytes
<1>2. HoldsLine(Putc(q, n + 1), g, n + 1)
  BY <1>1, LinePutc
<1>3. Putc(q, n + 1) \in QueueType(OutBytes, T)
  BY PutcProperties
<1>4. n + 1 \in Nat /\ g <= n + 1
  OBVIOUS
<1>5. n + 1 - g < BufSize
  BY <1>1, <1>2, <1>3, <1>4, LineFits
<1> QED BY <1>2, <1>5

(* The oldest byte goes to the transmitter.                                *)
LEMMA OldestNext ==
  ASSUME NEW T, NEW q \in QueueType(OutBytes, T), NEW g \in Nat, NEW n \in Nat, g <= n,
         ~IsEmpty(q), HoldsLine(q, g, n)
  PROVE  First(q) = g + 1 /\ g < n /\ HoldsLine(Getc(q), g + 1, n)
<1>1. OutBytes \in SUBSET Int /\ Key \notin OutBytes
  BY SerialAssumption DEF OutBytes, Key
<1>2. First(q) \in OutBytes
  BY GetcProperties
<1> QED BY <1>1, <1>2, LineGetc

(* Registering a writer moves no byte.                                     *)
LEMMA SameOutput ==
  ASSUME NEW q, NEW j, UNCHANGED <<thr, wire, written, mode>>, OutputKept,
         q = txq, j = txq', j.buf = q.buf, j.head = q.head, j.tail = q.tail
  PROVE  OutputKept' /\ UNCHANGED <<written, wire>>
<1>1. LastSent' = LastSent
  BY DEF LastSent
<1>2. \A p \in Positions : j.buf[p] = q.buf[p] /\ (Holds(j, p) <=> Holds(q, p))
                          /\ Turn(j, p) = Turn(q, p)
  BY DEF Turn, Holds
<1>3. HoldsLine(j, LastSent, written)
  BY <1>2 DEF OutputKept, HoldsLine
<1> QED BY <1>1, <1>3 DEF OutputKept, IsEmpty

(* Every step keeps the order, and sends the next byte, delivers the next  *)
(* byte, or neither.                                                       *)
LEMMA StepOutput ==
  ASSUME SerialKept, OutputKept, [SerialNext]_vars
  PROVE  OutputKept' /\ [Out!Send \/ Out!Deliver]_<<written, wire>>
<1> USE DEF outVars, PollPutc
<1>0. /\ txq \in QueueType(OutBytes, {Writer}) /\ OutBytes \in SUBSET Nat
      /\ thr \in Nat /\ wire \in Nat /\ written \in Nat /\ left \in Nat
      /\ LastSent \in Nat /\ LastSent <= written /\ HoldsLine(txq, LastSent, written)
      /\ MaxOut \in Nat /\ PanicOut \in Nat /\ written + left <= MaxOut + PanicOut
      /\ BufSize \in Nat /\ BufSize > 1
  BY SerialAssumption, IntQueueAssumption
     DEF SerialKept, Types, Budget, OutputKept, LastSent, OutBytes
<1>1. wire <= LastSent /\ LastSent <= wire + 1
  BY <1>0 DEF OutputKept, LastSent
<1>2. CASE InitQueue \/ EnableQueue \/ Panic \/ GetcWait \/ InputGetc \/ KeyPress \/ Receive
           \/ UNCHANGED vars
  <2>1. UNCHANGED <<outVars, wire>> /\ (mode' = "poll" => mode = "poll")
    BY <1>2 DEF InitQueue, EnableQueue, Panic, GetcWait, InputGetc, KeyPress, Receive, vars
  <2>2. LastSent' = LastSent
    BY <2>1 DEF LastSent
  <2> QED BY <2>1, <2>2 DEF OutputKept
<1>3. CASE PutcWait
  <2>1. /\ txq' = WaitNotFull(txq, Writer) /\ UNCHANGED <<mode, thr, written, wire>>
    BY <1>3 DEF PutcWait
  <2>2. txq'.buf = txq.buf /\ txq'.head = txq.head /\ txq'.tail = txq.tail
    BY <1>0, <2>1 DEF WaitNotFull, QueueType
  <2> QED BY <2>1, <2>2, SameOutput
(* A byte goes straight to the transmitter, past the empty queue.          *)
<1>4. ASSUME mode = "poll", thr = 0, thr' = written + 1, written' = written + 1,
             UNCHANGED <<mode, txq, wire>>
      PROVE  OutputKept' /\ Out!Send
  <2>1. wire = written
    BY <1>0, <1>4, NothingWaits DEF OutputKept, LastSent
  <2>2. LastSent' = written + 1 /\ wire - 0 = wire
    BY <1>0, <1>4 DEF LastSent
  <2>3. HoldsLine(txq, written + 1, written + 1)
    <3>1. \A p \in Positions : ~Holds(txq, p)
      BY <1>0, <1>4, EmptyHolds DEF OutputKept
    <3> QED BY <1>0, <3>1 DEF HoldsLine
  <2>4. Out!Send
    BY <1>0, <1>4, <2>1 DEF Out!Send
  <2> QED BY <1>0, <1>4, <2>1, <2>2, <2>3, <2>4 DEF OutputKept
(* A byte goes into the queue, which has room.                             *)
<1>5. ASSUME mode # "poll", ~IsFull(txq), txq' = Putc(txq, written + 1), written' = written + 1,
             written + 1 \in OutBytes, UNCHANGED <<mode, thr, wire>>
      PROVE  OutputKept' /\ Out!Send
  <2>1. HoldsLine(txq', LastSent, written + 1) /\ written + 1 - LastSent < BufSize
    BY <1>0, <1>5, RoomLeft
  <2>2. LastSent' = LastSent
    BY <1>5 DEF LastSent
  <2>3. Out!Send
    BY <1>0, <1>1, <1>5, <2>1 DEF Out!Send
  <2> QED BY <1>0, <1>5, <2>1, <2>2, <2>3 DEF OutputKept
<1>6. CASE PutcPolled
  BY <1>4, <1>6 DEF PutcPolled
<1>7. CASE PutcQueued
  <2>1. written + 1 \in OutBytes
    BY <1>0, <1>7 DEF PutcQueued, CanWrite, SerialKept, Budget, OutBytes
  <2> QED BY <1>5, <1>7, <2>1 DEF PutcQueued
<1>8. CASE PanicPutc
  <2>1. written + 1 \in OutBytes /\ written' = written + 1 /\ UNCHANGED <<mode, wire>>
    BY <1>0, <1>8 DEF PanicPutc, OutBytes
  <2>2. CASE mode = "poll"
    BY <1>4, <1>8, <2>1, <2>2 DEF PanicPutc
  <2>3. CASE mode # "poll" /\ ~IsFull(txq)
    <3> QED BY <1>5, <1>8, <2>1, <2>3 DEF PanicPutc
  <2>4. CASE mode # "poll" /\ IsFull(txq)
    <3>1. thr = 0 /\ thr' = First(txq) /\ txq' = Putc(Getc(txq), written + 1) /\ LastSent = wire
      BY <1>8, <2>4 DEF PanicPutc, LastSent
    <3>2. ~IsEmpty(txq)
      <4>1. txq.head \in Positions
        BY <1>0 DEF QueueType
      <4> QED BY <2>4, <4>1, NextPosition DEF IsFull, IsEmpty
    <3>3. First(txq) = wire + 1 /\ wire < written /\ HoldsLine(Getc(txq), wire + 1, written)
      BY <1>0, <3>1, <3>2, OldestNext
    <3>4. Getc(txq) \in QueueType(OutBytes, {Writer}) /\ ~IsFull(Getc(txq))
      BY <1>0, <3>2, GetcProperties
    <3>5. HoldsLine(txq', wire + 1, written + 1) /\ written + 1 - (wire + 1) < BufSize
      BY <1>0, <2>1, <3>1, <3>3, <3>4, RoomLeft
    <3>6. thr' = wire + 1 /\ LastSent' = wire + 1
      BY <1>0, <2>1, <3>1, <3>3 DEF LastSent
    <3>7. Out!Send
      BY <1>0, <2>1, <3>3, <3>5 DEF Out!Send
    <3> QED BY <1>0, <2>1, <2>4, <3>3, <3>5, <3>6, <3>7 DEF OutputKept
  <2> QED BY <2>2, <2>3, <2>4
(* The oldest byte of the queue goes to the free transmitter.              *)
<1>9. ASSUME thr = 0, ~IsEmpty(txq), thr' = First(txq), txq' = Getc(txq), mode' = mode,
             UNCHANGED <<written, wire>>
      PROVE  OutputKept'
  <2>1. LastSent = wire
    BY <1>9 DEF LastSent
  <2>2. First(txq) = wire + 1 /\ wire < written /\ HoldsLine(txq', wire + 1, written)
    BY <1>0, <1>9, <2>1, OldestNext
  <2>3. LastSent' = wire + 1
    BY <1>0, <1>9, <2>2 DEF LastSent
  <2> QED BY <1>0, <1>9, <2>2, <2>3 DEF OutputKept
<1>10. CASE Flush
  <2>1. UNCHANGED <<written, wire, mode>>
    BY <1>10 DEF Flush
  <2>2. CASE IsEmpty(txq)
    <3>1. UNCHANGED <<txq, thr>>
      BY <1>10, <2>2 DEF Flush
    <3> QED BY <2>1, <3>1, SameOutput
  <2>3. CASE ~IsEmpty(txq)
    BY <1>9, <1>10, <2>1, <2>3 DEF Flush
  <2> QED BY <2>2, <2>3
<1>11. CASE SerialInterrupt
  <2>1. UNCHANGED <<written, wire, mode>>
    BY <1>11 DEF SerialInterrupt
  <2>2. CASE Transmitting
    BY <1>9, <1>11, <2>1, <2>2 DEF SerialInterrupt, Transmitting
  <2>3. CASE ~Transmitting
    <3>1. UNCHANGED <<txq, thr>>
      BY <1>11, <2>3 DEF SerialInterrupt
    <3> QED BY <2>1, <3>1, SameOutput
  <2> QED BY <2>2, <2>3
<1>12. CASE Transmit
  <2>1. thr # 0 /\ thr' = 0 /\ wire' = wire + 1 /\ LastSent = wire + 1 /\ UNCHANGED <<mode, txq, written>>
    BY <1>12 DEF Transmit, OutputKept, LastSent
  <2>2. LastSent' = LastSent
    BY <2>1 DEF LastSent
  <2>3. Out!Deliver
    BY <1>0, <2>1 DEF Out!Deliver
  <2> QED BY <1>0, <2>1, <2>2, <2>3 DEF OutputKept
<1> QED BY <1>2, <1>3, <1>6, <1>7, <1>8, <1>10, <1>11, <1>12 DEF SerialNext, Stopped

(* Everything printed leaves the port in order and once, as far as it      *)
(* leaves: while the port is polled and after the change to interrupts,    *)
(* past a full queue, and in a panic, which makes room by polling.         *)
THEOREM OutputOrder == Spec => Out!Spec
<1>1. Init => SerialKept
  BY InitKept
<1>2. SerialKept /\ [SerialNext]_vars => SerialKept'
  BY StepKept
<1>3. ASSUME Init PROVE OutputKept
  <2>1. txq = Empty /\ thr = 0 /\ wire = 0 /\ written = 0 /\ LastSent = 0 /\ IsEmpty(txq)
    BY <1>3 DEF Init, LastSent, IsEmpty, Empty
  <2>2. txq \in QueueType(OutBytes, {Writer})
    BY <1>3, InitKept DEF SerialKept, Types
  <2>3. \A p \in Positions : ~Holds(txq, p)
    BY <2>1, <2>2, EmptyHolds
  <2> QED BY <2>1, <2>3 DEF OutputKept, HoldsLine
<1>4. SerialKept /\ OutputKept /\ [SerialNext]_vars
        => OutputKept' /\ [Out!Send \/ Out!Deliver]_<<written, wire>>
  BY StepOutput
<1>5. Init => Out!Init
  BY DEF Init, Out!Init
<1> QED BY <1>1, <1>2, <1>3, <1>4, <1>5, PTL DEF Spec, Out!Spec
=============================================================================
