---------------------------- MODULE DiskChannel ----------------------------
(***************************************************************************)
(* One ATA channel with its two drives (devices/disk.c): threads that read *)
(* and write sectors under the lock of the channel, the drives, and the    *)
(* interrupt that tells a thread that its command is done.                 *)
(*                                                                         *)
(* The contents of a sector are one value.  The lock is the mutex that     *)
(* PriorityLocks implements; completion is the value of a semaphore, which *)
(* NoLostWakeup allows to be modelled by its value alone.                  *)
(*                                                                         *)
(* Two assumptions.  A drive answers before the loops that wait for it run *)
(* out (10 ms in wait_until_idle, which then goes on all the same).  And   *)
(* the threads have one priority: above a running thread of a lower one    *)
(* the sema_up of the handler ends in the failing assertion that           *)
(* PriorityLocks models (InterruptUp).                                     *)
(***************************************************************************)
EXTENDS Integers, FiniteSets

CONSTANTS
  Callers,      \* threads that read and write
  Sectors,      \* of each drive
  Values,       \* contents; 0 is what the drives hold at first
  MaxRequests,  \* bound, per thread: its requests
  MaxSpurious   \* bound: interrupts that no command caused

Drive == {0, 1}
Places == Drive \X Sectors
NoValue == -1
Nobody == "nobody"

ASSUME DiskAssumption ==
  /\ Values \subseteq Nat /\ 0 \in Values /\ Sectors # {}
  /\ MaxRequests \in [Callers -> Nat] /\ MaxSpurious \in Nat /\ Nobody \notin Callers

VARIABLES
  req,         \* per thread: the request and where it is
  unmade,        \* per thread: requests it has not made
  holder,      \* of the lock of the channel
  expecting,   \* expecting_interrupt
  completion,  \* value of completion_wait
  device,      \* registers and state of the selected drive
  medium,      \* what is stored at each place
  intrq,       \* an interrupt is pending
  spurious     \* interrupts that no command caused, so far

threadVars == <<req, unmade, holder>>
driverVars == <<expecting, completion>>
deviceVars == <<device, medium>>
diskVars == <<threadVars, driverVars, deviceVars, intrq, spurious>>

NoRequest == [at |-> "idle", kind |-> "none", drive |-> 0, sector |-> 0, value |-> NoValue]
At(t, step) == req[t].at = step
GoTo(t, step) == req' = [req EXCEPT ![t].at = step]

DiskInit ==
  /\ req = [t \in Callers |-> NoRequest]
  /\ unmade = MaxRequests
  /\ holder = Nobody
  /\ expecting = FALSE /\ completion = 0
  /\ device = [drive |-> 0, sector |-> 0, busy |-> FALSE, drq |-> FALSE,
               command |-> "none", buffer |-> 0]
  /\ medium = [p \in Places |-> 0]
  /\ intrq = FALSE /\ spurious = 0

-----------------------------------------------------------------------------
Request(t, kind, p, v) ==
  /\ At(t, "idle") /\ unmade[t] > 0
  /\ req' = [req EXCEPT ![t] = [at |-> "acquire", kind |-> kind,
                                drive |-> p[1], sector |-> p[2], value |-> v]]
  /\ unmade' = [unmade EXCEPT ![t] = @ - 1]
  /\ UNCHANGED <<holder, driverVars, deviceVars, intrq, spurious>>

(* variant: the lock is not waited for *)
AcquireAlways(t) ==
  /\ At(t, "acquire")
  /\ holder' = t /\ GoTo(t, "select")
  /\ UNCHANGED <<unmade, driverVars, deviceVars, intrq, spurious>>

Acquire(t) ==
  /\ At(t, "acquire") /\ holder = Nobody
  /\ holder' = t /\ GoTo(t, "select")
  /\ UNCHANGED <<unmade, driverVars, deviceVars, intrq, spurious>>

(* wait_until_idle reads the status until the selected drive is idle; the  *)
(* read clears a pending interrupt.                                        *)
(* variant: BSY is not looked at *)
DriveIdleBusy == ~device.drq
DriveIdle == ~device.busy /\ ~device.drq

(* select_device_wait and select_sector: each waits for the idle drive.    *)
SelectDevice(t) ==
  /\ At(t, "select") /\ DriveIdle
  /\ device' = [device EXCEPT !.drive = req[t].drive]
  /\ intrq' = FALSE
  /\ GoTo(t, "sector")
  /\ UNCHANGED <<unmade, holder, driverVars, medium, spurious>>

SelectSector(t) ==
  /\ At(t, "sector") /\ DriveIdle
  /\ device' = [device EXCEPT !.sector = req[t].sector]
  /\ intrq' = FALSE
  /\ GoTo(t, "command")
  /\ UNCHANGED <<unmade, holder, driverVars, medium, spurious>>

(* variants: expecting_interrupt is not set; a read polls instead of waiting *)
IssueCommandUnexpected(t) ==
  /\ At(t, "command")
  /\ device' = [device EXCEPT !.busy = TRUE, !.command = req[t].kind]
  /\ GoTo(t, IF req[t].kind = "read" THEN "await" ELSE "busy")
  /\ UNCHANGED <<unmade, holder, expecting, completion, medium, intrq, spurious>>

IssueCommandPolls(t) ==
  /\ At(t, "command")
  /\ expecting' = TRUE
  /\ device' = [device EXCEPT !.busy = TRUE, !.command = req[t].kind]
  /\ GoTo(t, "busy")
  /\ UNCHANGED <<unmade, holder, completion, medium, intrq, spurious>>

IssueCommand(t) ==
  /\ At(t, "command")
  /\ expecting' = TRUE
  /\ device' = [device EXCEPT !.busy = TRUE, !.command = req[t].kind]
  /\ GoTo(t, IF req[t].kind = "read" THEN "await" ELSE "busy")
  /\ UNCHANGED <<unmade, holder, completion, medium, intrq, spurious>>

(* variant: the value of the semaphore is not tested *)
AwaitUntested(t) ==
  /\ At(t, "await")
  /\ completion' = completion - 1
  /\ GoTo(t, IF req[t].kind = "read" THEN "busy" ELSE "release")
  /\ UNCHANGED <<unmade, holder, expecting, deviceVars, intrq, spurious>>

(* sema_down (&c->completion_wait) *)
Await(t) ==
  /\ At(t, "await") /\ completion > 0
  /\ completion' = completion - 1
  /\ GoTo(t, IF req[t].kind = "read" THEN "busy" ELSE "release")
  /\ UNCHANGED <<unmade, holder, expecting, deviceVars, intrq, spurious>>

(* wait_while_busy; a drive that then asks for no data is a panic.         *)
WaitWhileBusy(t) ==
  /\ At(t, "busy") /\ ~device.busy
  /\ GoTo(t, IF device.drq THEN "data" ELSE "panic")
  /\ UNCHANGED <<unmade, holder, driverVars, deviceVars, intrq, spurious>>

InputSector(t) ==
  /\ At(t, "data") /\ req[t].kind = "read"
  /\ req' = [req EXCEPT ![t].value = device.buffer, ![t].at = "release"]
  /\ device' = [device EXCEPT !.drq = FALSE, !.command = "none"]
  /\ UNCHANGED <<unmade, holder, driverVars, medium, intrq, spurious>>

(* The drive is busy from the last word on.                                *)
OutputSector(t) ==
  /\ At(t, "data") /\ req[t].kind = "write"
  /\ device' = [device EXCEPT !.buffer = req[t].value, !.drq = FALSE, !.busy = TRUE]
  /\ GoTo(t, "await")
  /\ UNCHANGED <<unmade, holder, driverVars, medium, intrq, spurious>>

Release(t) ==
  /\ At(t, "release")
  /\ holder' = Nobody
  /\ req' = [req EXCEPT ![t] = NoRequest]
  /\ UNCHANGED <<unmade, driverVars, deviceVars, intrq, spurious>>

-----------------------------------------------------------------------------
Selected == <<device.drive, device.sector>>
(* The drive has the data of a write in its buffer.                        *)
Storing == device.busy /\ device.command = "store"

DriveRead ==
  /\ device.busy /\ device.command = "read"
  /\ device' = [device EXCEPT !.busy = FALSE, !.drq = TRUE, !.buffer = medium[Selected]]
  /\ intrq' = TRUE
  /\ UNCHANGED <<threadVars, driverVars, medium, spurious>>

(* It asks for the data of a write without an interrupt.                   *)
DriveAsks ==
  /\ device.busy /\ device.command = "write"
  /\ device' = [device EXCEPT !.busy = FALSE, !.drq = TRUE, !.command = "store"]
  /\ UNCHANGED <<threadVars, driverVars, medium, intrq, spurious>>

DriveStores ==
  /\ Storing
  /\ medium' = [medium EXCEPT ![Selected] = device.buffer]
  /\ device' = [device EXCEPT !.busy = FALSE, !.command = "none"]
  /\ intrq' = TRUE
  /\ UNCHANGED <<threadVars, driverVars, spurious>>

Spurious ==
  /\ spurious < MaxSpurious /\ ~intrq
  /\ intrq' = TRUE /\ spurious' = spurious + 1
  /\ UNCHANGED <<threadVars, driverVars, deviceVars>>

InterruptHandler ==
  /\ intrq
  /\ intrq' = FALSE
  /\ completion' = IF expecting THEN completion + 1 ELSE completion
  /\ UNCHANGED <<threadVars, expecting, deviceVars, spurious>>

-----------------------------------------------------------------------------
Step(t) ==
  \/ Acquire(t) \/ SelectDevice(t) \/ SelectSector(t) \/ IssueCommand(t) \/ Await(t)
  \/ WaitWhileBusy(t) \/ InputSector(t) \/ OutputSector(t) \/ Release(t)

DriveStep == DriveRead \/ DriveAsks \/ DriveStores

DiskNext ==
  \/ \E t \in Callers :
       \/ Step(t)
       \/ \E p \in Places :
            Request(t, "read", p, NoValue) \/ \E v \in Values : Request(t, "write", p, v)
  \/ DriveStep \/ Spurious \/ InterruptHandler

DiskSpec == DiskInit /\ [][DiskNext]_diskVars

(* Threads are scheduled, drives answer, interrupts are delivered.         *)
FairDisk ==
  /\ DiskSpec /\ WF_diskVars(DriveStep) /\ WF_diskVars(InterruptHandler)
  /\ \A t \in Callers : WF_diskVars(Step(t))

-----------------------------------------------------------------------------
RequestType ==
  [at : {"idle", "acquire", "select", "sector", "command", "await", "busy", "data", "release",
         "panic"},
   kind : {"none", "read", "write"}, drive : Drive, sector : Sectors \cup {0},
   value : Values \cup {NoValue}]
DeviceType ==
  [drive : Drive, sector : Sectors \cup {0}, busy : BOOLEAN, drq : BOOLEAN,
   command : {"none", "read", "write", "store"}, buffer : Values]

(* Types of the variables. *)
DiskTypeOK ==
  /\ req \in [Callers -> RequestType] /\ unmade \in [Callers -> Nat]
  /\ holder \in Callers \cup {Nobody}
  /\ expecting \in BOOLEAN /\ completion \in Nat /\ intrq \in BOOLEAN
  /\ device \in DeviceType /\ medium \in [Places -> Values] /\ spurious \in 0..MaxSpurious

(* A command that will interrupt is in progress; a thread waits for it.    *)
Coming == device.busy /\ device.command \in {"read", "store"}
Waiting == \E t \in Callers : At(t, "await")
One(b) == IF b THEN 1 ELSE 0

(* Every interrupt to come, every pending one and every unit of            *)
(* completion_wait is owed to the thread that waits, except for one per    *)
(* spurious interrupt: early and late interrupts do not pile up from       *)
(* request to request.                                                     *)
InterruptsOwed ==
  completion + One(intrq) + One(Coming) <= spurious + One(Waiting)

(* The data a thread transfers is that of the sector it asked for, on the  *)
(* drive it asked for, whichever drive was selected before, and the drive  *)
(* never fails to ask for it (the PANIC of disk_read and disk_write).      *)
TransferMatches ==
  \A t \in Callers :
    /\ ~At(t, "panic")
    /\ At(t, "data") =>
         /\ device.drq /\ Selected = <<req[t].drive, req[t].sector>>
         /\ req[t].kind = "read" => device.buffer = medium[Selected]

(* The lock belongs to the one thread that is between lock_acquire and     *)
(* lock_release of disk_read or disk_write, whose request is a real one.   *)
OneRequest ==
  \A t \in Callers :
    /\ req[t].at \notin {"idle", "acquire"} <=> holder = t
    /\ ~At(t, "idle") =>
         /\ req[t].kind \in {"read", "write"} /\ req[t].sector \in Sectors
         /\ req[t].kind = "write" => req[t].value \in Values

(* Nothing but the end of a write may be going on in the drive.            *)
Resting == ~device.drq /\ (device.busy => device.command = "store")
Quiet == ~device.busy /\ ~device.drq
Reading ==
  \/ device.busy /\ device.command = "read"
  \/ ~device.busy /\ device.drq /\ device.buffer = medium[Selected]
Asking ==
  \/ device.busy /\ device.command = "write"
  \/ ~device.busy /\ device.drq /\ device.command = "store"

(* What the drive may be doing while thread t is where it is.              *)
DriveAt(t) ==
  /\ At(t, "select") \/ At(t, "release") => Resting
  /\ At(t, "sector") => Quiet /\ device.drive = req[t].drive
  /\ At(t, "command") => Quiet
  /\ At(t, "await") => IF req[t].kind = "read" THEN Reading ELSE Resting
  /\ At(t, "busy") => IF req[t].kind = "read" THEN Reading ELSE Asking
  /\ At(t, "data") => ~device.busy /\ (req[t].kind = "write" => device.command = "store")
  /\ req[t].at \in {"command", "await", "busy"} => Selected = <<req[t].drive, req[t].sector>>

(* The drive follows the thread that has the lock, however early or late   *)
(* its interrupts are, and a busy drive is at a sector.                    *)
DriveFollows ==
  /\ holder = Nobody => Resting
  /\ \A t \in Callers : DriveAt(t)
  /\ device.busy => device.sector \in Sectors

(* No interrupt is lost: from its command on the thread has announced that *)
(* it expects one, and while it waits there is one to come, one pending or *)
(* a unit of completion_wait.                                              *)
AnswerComes ==
  \A t \in Callers :
    /\ req[t].at \in {"await", "busy", "data"} => expecting
    /\ At(t, "await") => completion > 0 \/ intrq \/ Coming

(* While a request is under way something goes on with it: the thread that *)
(* has the lock, the drive or the interrupt handler.                       *)
StepOpen(t) ==
  \/ At(t, "acquire") /\ holder = Nobody
  \/ (At(t, "select") \/ At(t, "sector")) /\ DriveIdle
  \/ req[t].at \in {"command", "data", "release"}
  \/ At(t, "await") /\ completion > 0
  \/ At(t, "busy") /\ ~device.busy
RequestsGoOn ==
  (\E t \in Callers : ~At(t, "idle")) =>
    \/ \E t \in Callers : StepOpen(t)
    \/ device.busy /\ device.command \in {"read", "write", "store"}
    \/ intrq

(* What the driver keeps between its steps: interrupts accounted for and   *)
(* none lost, the right sector in the drive's buffer, one request at a     *)
(* time, and an end in sight for it.                                       *)
ChannelInv ==
  /\ DiskTypeOK /\ InterruptsOwed /\ AnswerComes
  /\ TransferMatches /\ OneRequest /\ DriveFollows /\ RequestsGoOn

(* A write has happened as soon as the drive has all of its data; a read   *)
(* when the data are with the thread.                                      *)
Stored == [p \in Places |-> IF Storing /\ p = Selected THEN device.buffer ELSE medium[p]]
CallOf(t) ==
  IF At(t, "idle") THEN [kind |-> "idle"]
  ELSE [kind |-> req[t].kind, place |-> <<req[t].drive, req[t].sector>>, value |-> req[t].value,
        done |-> At(t, "release") \/ (At(t, "await") /\ req[t].kind = "write")]

(* Requests of different threads are atomic: each takes effect at one      *)
(* moment between its call and its return.                                 *)
Atomic == INSTANCE AtomicDisk WITH
  Thread <- Callers, Place <- Places, Value <- Values,
  store <- Stored, call <- [t \in Callers |-> CallOf(t)]
ImplementsAtomicDisk == Atomic!Spec

(* Every request returns. *)
RequestsReturn == \A t \in Callers : At(t, "acquire") ~> At(t, "idle")
=============================================================================
