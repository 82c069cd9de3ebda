---------------------------- MODULE ProcessLife ----------------------------
(***************************************************************************)
(* The life of processes: fork, wait and exit of userprog/process.c, with  *)
(* thread_create, thread_exit and the deferred destruction of threads in   *)
(* threads/thread.c.                                                       *)
(*                                                                         *)
(* This code runs with interrupts on, so each access to a semaphore, a     *)
(* child_list or exit_status is a step, and the timer may switch threads   *)
(* between any two.  All processes have the same priority, so any thread   *)
(* that is ready may make the next step.  A semaphore of a thread          *)
(* structure has at most one waiter: sema_down is a step that waits for    *)
(* its value.                                                              *)
(***************************************************************************)
EXTENDS Integers

CONSTANTS MaxTid,   \* bound: the last tid that allocate_tid gives out
          Codes,    \* arguments user programs give exit
          None,     \* NULL
          Poison,   \* what palloc_free_page leaves in a freed structure
          Alive,    \* has not ended
          Killed    \* ended by an exception other than a page fault

Procs == 1..MaxTid
Main == 1              \* initial_thread, which waits for the first process

ASSUME ProcessAssumption ==
  /\ MaxTid \in Nat \ {0}
  /\ None \notin Procs
  /\ Codes \subseteq Int

VARIABLES
  pc,          \* where each thread is
  childList,   \* thread.child_list
  child,       \* the local child of process_fork and process_wait
  exitStatus,  \* thread.exit_status
  sema,        \* values of thread.sema_fork, sema_wait and sema_free
  destroy,     \* destruction_req
  ended        \* how each process ended: Alive, Killed or its exit status

vars == <<pc, childList, child, exitStatus, sema, destroy, ended>>

Status == Codes \cup {0, -1, Poison}

Labels == {"unborn", "start", "user", "fork_down", "wait_down", "wait_remove",
           "wait_up", "wait_read", "exit_wait", "exit_fork", "exit_free",
           "exit_last", "dying", "freed", "off"}

Init ==
  /\ pc = [p \in Procs |-> IF p = Main THEN "start" ELSE "unborn"]
  /\ childList = [p \in Procs |-> {}]
  /\ child = [p \in Procs |-> None]
  /\ exitStatus = [p \in Procs |-> 0]
  /\ sema = [p \in Procs |-> [fork |-> 0, wait |-> 0, free |-> 0]]
  /\ destroy = {}
  /\ ended = [p \in Procs |-> Alive]

At(p, label) == pc[p] = label /\ pc[Main] # "off"

Goto(p, label) == pc' = [pc EXCEPT ![p] = label]

-----------------------------------------------------------------------------
(* thread_create: c has the next tid; it goes into child_list before it is *)
(* ready.                                                                  *)
ThreadCreate(p, c, label) ==
  /\ pc[c] = "unborn" /\ \A b \in 1..(c-1) : pc[b] # "unborn"
  /\ pc' = [pc EXCEPT ![c] = "start", ![p] = label]
  /\ childList' = [childList EXCEPT ![p] = @ \cup {c}]
  /\ child' = [child EXCEPT ![p] = c]
  /\ UNCHANGED <<exitStatus, sema, destroy, ended>>

(* run_task: process_create_initd, then process_wait for it.               *)
CreateInitd(c) == At(Main, "start") /\ ThreadCreate(Main, c, "wait_down")

(* process_fork; a variant does not wait for the child.  When              *)
(* thread_create finds no memory it returns TID_ERROR and nothing changes. *)
ForkNoWait(p, c) == At(p, "user") /\ ThreadCreate(p, c, "user")
Fork(p, c) == At(p, "user") /\ ThreadCreate(p, c, "fork_down")

ForkDown(p) ==
  /\ At(p, "fork_down") /\ sema[child[p]].fork > 0
  /\ sema' = [sema EXCEPT ![child[p]].fork = @ - 1]
  /\ Goto(p, "user")
  /\ UNCHANGED <<childList, child, exitStatus, destroy, ended>>

(* initd or __do_fork has set up the process and enters user mode.         *)
Launch(p) ==
  /\ p # Main /\ At(p, "start")
  /\ Goto(p, "user")
  /\ UNCHANGED <<childList, child, exitStatus, sema, destroy, ended>>

-----------------------------------------------------------------------------
(* process_wait(c) up to its first semaphore.  If c is not in child_list   *)
(* it returns -1 and changes nothing; variant without that test.           *)
WaitUnchecked(p, c) ==
  /\ At(p, "user")
  /\ child' = [child EXCEPT ![p] = IF c \in childList[p] THEN c ELSE None]
  /\ Goto(p, "wait_down")
  /\ UNCHANGED <<childList, exitStatus, sema, destroy, ended>>

Wait(p, c) ==
  /\ At(p, "user") /\ c \in childList[p]
  /\ child' = [child EXCEPT ![p] = c]
  /\ Goto(p, "wait_down")
  /\ UNCHANGED <<childList, exitStatus, sema, destroy, ended>>

WaitDown(p) ==
  /\ At(p, "wait_down") /\ sema[child[p]].wait > 0
  /\ sema' = [sema EXCEPT ![child[p]].wait = @ - 1]
  /\ Goto(p, "wait_remove")
  /\ UNCHANGED <<childList, child, exitStatus, destroy, ended>>

WaitRemove(p) ==
  /\ At(p, "wait_remove")
  /\ childList' = [childList EXCEPT ![p] = @ \ {child[p]}]
  /\ Goto(p, "wait_up")
  /\ UNCHANGED <<child, exitStatus, sema, destroy, ended>>

(* Variant: the child is not told that it may go.                          *)
WaitUpNot(p) ==
  /\ At(p, "wait_up")
  /\ Goto(p, "wait_read")
  /\ UNCHANGED <<childList, child, exitStatus, sema, destroy, ended>>

WaitUp(p) ==
  /\ At(p, "wait_up")
  /\ sema' = [sema EXCEPT ![child[p]].free = @ + 1]
  /\ Goto(p, "wait_read")
  /\ UNCHANGED <<childList, child, exitStatus, destroy, ended>>

(* return child->exit_status; the initial thread then powers off.          *)
Answer(p) == exitStatus[child[p]]
WaitReturn(p) ==
  /\ At(p, "wait_read")
  /\ Goto(p, IF p = Main THEN "off" ELSE "user")
  /\ UNCHANGED <<childList, child, exitStatus, sema, destroy, ended>>

-----------------------------------------------------------------------------
(* thread_exit as far as the semaphores of process_exit: files and address *)
(* space are given back.  exit_syscall stores the status before.  Closing  *)
(* the files takes filesys_lock, which is assumed to become free.          *)
ThreadExit(p, status, how) ==
  /\ exitStatus' = [exitStatus EXCEPT ![p] = status]
  /\ ended' = [ended EXCEPT ![p] = how]
  /\ Goto(p, "exit_wait")
  /\ UNCHANGED <<childList, child, sema, destroy>>

Exit(p, code) == At(p, "user") /\ ThreadExit(p, code, code)

(* exit_syscall(-1): a page fault, a bad pointer, an exec that fails.  One *)
(* that succeeds replaces the program and changes nothing here.            *)
PageFault(p) == At(p, "user") /\ ThreadExit(p, -1, -1)

(* __do_fork cannot copy the parent.                                       *)
ForkError(p) ==
  /\ At(p, "start") /\ p \notin childList[Main] \cup {Main}
  /\ ThreadExit(p, -1, -1)

(* kill: any other exception in user mode.  exit_status stays as it is.    *)
Kill(p) == At(p, "user") /\ ThreadExit(p, exitStatus[p], Killed)

ExitUpWait(p) ==
  /\ At(p, "exit_wait")
  /\ sema' = [sema EXCEPT ![p].wait = @ + 1]
  /\ Goto(p, "exit_fork")
  /\ UNCHANGED <<childList, child, exitStatus, destroy, ended>>

(* Variant: the parent in process_fork is not woken.                       *)
ExitUpForkNot(p) ==
  /\ At(p, "exit_fork")
  /\ Goto(p, "exit_free")
  /\ UNCHANGED <<childList, child, exitStatus, sema, destroy, ended>>

ExitUpFork(p) ==
  /\ At(p, "exit_fork")
  /\ sema' = [sema EXCEPT ![p].fork = @ + 1]
  /\ Goto(p, "exit_free")
  /\ UNCHANGED <<childList, child, exitStatus, destroy, ended>>

(* Variant: the child does not wait until it may go.                       *)
ExitDownNot(p) ==
  /\ At(p, "exit_free")
  /\ Goto(p, "exit_last")
  /\ UNCHANGED <<childList, child, exitStatus, sema, destroy, ended>>

ExitDown(p) ==
  /\ At(p, "exit_free") /\ sema[p].free > 0
  /\ sema' = [sema EXCEPT ![p].free = @ - 1]
  /\ Goto(p, "exit_last")
  /\ UNCHANGED <<childList, child, exitStatus, destroy, ended>>

-----------------------------------------------------------------------------
(* do_schedule, which thread_yield and thread_exit call, frees the pages   *)
(* in destruction_req first; thread_block does not go through it.          *)
FreePages(status) ==
  /\ pc' = [p \in Procs |-> IF p \in destroy THEN "freed" ELSE status[p]]
  /\ exitStatus' = [p \in Procs |-> IF p \in destroy THEN Poison ELSE exitStatus[p]]
  /\ childList' = [p \in Procs |-> IF p \in destroy THEN {} ELSE childList[p]]

(* The timer ends the time slice of whichever thread runs; with nothing    *)
(* else ready that thread goes on itself.                                  *)
Yield ==
  /\ pc[Main] # "off"
  /\ FreePages(pc)
  /\ destroy' = {}
  /\ UNCHANGED <<child, sema, ended>>

(* The end of thread_exit.                                                 *)
Die(p) ==
  /\ At(p, "exit_last")
  /\ FreePages([pc EXCEPT ![p] = "dying"])
  /\ destroy' = {p}
  /\ UNCHANGED <<child, sema, ended>>

PoweredOff == pc[Main] = "off" /\ UNCHANGED vars

-----------------------------------------------------------------------------
KernelCode(p) ==
  \/ ForkDown(p) \/ Launch(p) \/ ForkError(p)
  \/ WaitDown(p) \/ WaitRemove(p) \/ WaitUp(p) \/ WaitReturn(p)
  \/ ExitUpWait(p) \/ ExitUpFork(p) \/ ExitDown(p)
  \/ Die(p)

UserCode(p) ==
  \/ \E c \in Procs : Fork(p, c) \/ Wait(p, c)
  \/ \E code \in Codes : Exit(p, code)
  \/ PageFault(p) \/ Kill(p)

Next ==
  \/ \E c \in Procs : CreateInitd(c)
  \/ \E p \in Procs : KernelCode(p) \/ UserCode(p)
  \/ Yield
  \/ PoweredOff

Spec == Init /\ [][Next]_vars

-----------------------------------------------------------------------------
SemaType == [fork : 0..1, wait : 0..1, free : 0..1]

TypeOK ==
  /\ pc \in [Procs -> Labels]
  /\ childList \in [Procs -> SUBSET Procs]
  /\ child \in [Procs -> Procs \cup {None}]
  /\ \A p \in Procs :
       pc[p] \in {"fork_down", "wait_down", "wait_remove", "wait_up", "wait_read"}
         => child[p] \in Procs
  /\ exitStatus \in [Procs -> Status]
  /\ sema \in [Procs -> SemaType]
  /\ destroy \subseteq Procs
  /\ ended \in [Procs -> Codes \cup {-1, Killed, Alive}]

(* get_child walks child_list through the structures of the children, and  *)
(* process_fork and process_wait use the semaphores of the child: none of  *)
(* those pages has been freed, whoever has exited in the meantime.         *)
Using(p) ==
  childList[p] \cup
  (IF pc[p] \in {"fork_down", "wait_down", "wait_remove", "wait_up"}
   THEN {child[p]} ELSE {})

ChildrenAllocated ==
  \A p \in Procs : \A c \in Using(p) :
    c \notin destroy /\ pc[c] \notin {"unborn", "dying", "freed"}

(* What the semaphores of a thread say about where it is, and that nothing *)
(* but the end of process_wait lets it go.                                 *)
Finished(c) == pc[c] \in {"exit_fork", "exit_free", "exit_last", "dying", "freed"}

SemasFollow ==
  \A c \in Procs :
    /\ sema[c].wait > 0 => Finished(c)
    /\ sema[c].fork > 0 => Finished(c) /\ pc[c] # "exit_fork"
    /\ sema[c].free > 0 => pc[c] # "unborn"

(* A child is in one child_list, or its parent is about to let it go.      *)
Tracks(p, c) == c \in childList[p] \/ (pc[p] = "wait_up" /\ child[p] = c)

OneTracker ==
  /\ \A p, q, c \in Procs : Tracks(p, c) /\ Tracks(q, c) => p = q
  /\ \A p \in Procs : pc[p] = "wait_up" => child[p] \notin childList[p]
  /\ \A p \in Procs : pc[p] \in {"fork_down", "wait_down", "wait_remove"}
                        => child[p] \in childList[p]

TrackedStay ==
  \A p, c \in Procs :
    Tracks(p, c) =>
      pc[c] \notin {"unborn", "exit_last", "dying", "freed"} /\ sema[c].free = 0

DestroyDying == \A c \in destroy : pc[c] = "dying"

(* A process is the child of one thread, and only its parent collects it.  *)
(* While a child is being made, its parent stands still, so that __do_fork *)
(* copies a state the parent was in (process.c, process_fork: the          *)
(* semaphore is there so that nothing gets in the way of making it).       *)
ParentHeld ==
  \A p \in Procs : \A c \in childList[p] :
    /\ pc[c] = "start" => child[p] = c /\ pc[p] \in {"fork_down", "wait_down"}
    /\ \A q \in Procs \ {p} : c \notin childList[q]

(* What every step of the code keeps.                                      *)
ProcessInv ==
  TypeOK /\ SemasFollow /\ OneTracker /\ TrackedStay /\ DestroyDying /\ ParentHeld

(* Parents wait for children and children for parents, by these three      *)
(* semaphores, never in a circle: until the first process is collected     *)
(* some thread can run.                                                    *)
Asleep(p) ==
  \/ pc[p] = "fork_down" /\ sema[child[p]].fork = 0
  \/ pc[p] = "wait_down" /\ sema[child[p]].wait = 0
  \/ pc[p] = "exit_free" /\ sema[p].free = 0

NeverStuck ==
  \E p \in Procs : pc[p] \notin {"unborn", "dying", "freed"} /\ ~Asleep(p)

-----------------------------------------------------------------------------
(* Time slices let every ready thread run, which then executes kernel      *)
(* code, and the timer goes on ending slices.  User programs may run for   *)
(* ever.                                                                   *)
Fairness ==
  /\ \A p \in Procs : WF_vars(KernelCode(p))
  /\ WF_vars(Yield)

FairSpec == Spec /\ Fairness

Off == pc[Main] = "off"

(* A process that waits for a child which has ended gets its answer, and a *)
(* parent in process_fork returns when its child has ended.                *)
ParentResumes ==
  \A p \in Procs :
    pc[p] \in {"fork_down", "wait_down"} /\ Finished(child[p])
      ~> (pc[p] \notin {"fork_down", "wait_down"} \/ Off)

(* The pages of a process its parent has waited for are freed.             *)
CollectedFreed ==
  \A c \in Procs \ {Main} :
    (\E p \in Procs : pc[p] = "wait_read" /\ child[p] = c)
      ~> (pc[c] = "freed" \/ Off)

-----------------------------------------------------------------------------
(* process_wait returns the exit status of the thread it waited for        *)
(* (process.c).                                                            *)
WaitReturnsStatus ==
  \A p \in Procs :
    pc[p] = "wait_read" /\ ended[child[p]] # Killed => Answer(p) = ended[child[p]]

(* process_fork returns when the child has been made, as the comment in    *)
(* __do_fork where the child would up sema_fork has it (process.c), and as *)
(* tests that run several children at once need it.                        *)
ForkReturns ==
  \A p \in Procs :
    pc[p] = "fork_down" /\ pc[child[p]] = "user" ~> (pc[p] # "fork_down" \/ Off)
=============================================================================
