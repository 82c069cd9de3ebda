--------------------------- MODULE ProcessProofs ---------------------------
(***************************************************************************)
(* Theorems about userprog/process.c: about ProcessLife, for any number of *)
(* processes, and about Loading, for any executable and command line.      *)
(*                                                                         *)
(* ProcessInv is inductive: a child is tracked by one parent, in its       *)
(* child_list or by a process_wait that has just removed it; and a tracked *)
(* child has not been let go, so it sleeps in process_exit at the latest.  *)
(* Then, some thread can always run.                                       *)
(*                                                                         *)
(* LoadInv and ArgInv are inductive: the pages of a header stay as they    *)
(* were entered, the stack has all pages from stack_bottom on, strtok_r    *)
(* has found the words before save_ptr, and what is pushed lies below what *)
(* has been pushed.                                                        *)
(***************************************************************************)
EXTENDS ProcessLife, Loading, FiniteSetTheorems, SequenceTheorems, TLAPS

(* Before the first process nobody has a child.                            *)
LEMMA InitInv == Init => ProcessInv
<1> SUFFICES ASSUME Init PROVE ProcessInv
  OBVIOUS
<1> USE ProcessAssumption
<1>1. TypeOK
  BY DEF Init, TypeOK, SemaType, Labels, Status, Procs, Main
<1>2. SemasFollow /\ DestroyDying
  BY DEF Init, SemasFollow, DestroyDying
<1>3. OneTracker /\ TrackedStay /\ ParentHeld
  BY DEF Init, OneTracker, Tracks, TrackedStay, ParentHeld
<1> QED BY <1>1, <1>2, <1>3 DEF ProcessInv

(* sema_up and sema_down on one semaphore of one thread keep the types.    *)
LEMMA SemaSet ==
  ASSUME NEW S \in [Procs -> SemaType], NEW c \in Procs, NEW v \in 0..1
  PROVE  /\ [S EXCEPT ![c].fork = v] \in [Procs -> SemaType]
         /\ [S EXCEPT ![c].wait = v] \in [Procs -> SemaType]
         /\ [S EXCEPT ![c].free = v] \in [Procs -> SemaType]
BY DEF SemaType

(* No semaphore exceeds 1, and child is a thread where it is used.         *)
LEMMA TypeStep == ASSUME ProcessInv, Next PROVE TypeOK'
<1> USE ProcessAssumption DEF Procs, Main, At, Goto
<1>0. TypeOK /\ SemasFollow /\ OneTracker /\ TrackedStay
  BY DEF ProcessInv
<1>1. ASSUME NEW p \in Procs, ForkError(p) PROVE TypeOK'
  BY <1>0, <1>1 DEF TypeOK, Labels, Status, OneTracker, ForkError, ThreadExit
<1>2. ASSUME NEW p \in Procs, Launch(p) PROVE TypeOK'
  BY <1>0, <1>2 DEF TypeOK, Labels, Status, OneTracker, Launch
<1>3. ASSUME NEW p \in Procs, WaitRemove(p) PROVE TypeOK'
  BY <1>0, <1>3 DEF TypeOK, Labels, Status, OneTracker, WaitRemove
<1>4. ASSUME NEW p \in Procs, WaitReturn(p) PROVE TypeOK'
  BY <1>0, <1>4 DEF TypeOK, Labels, Status, OneTracker, WaitReturn
<1>5. ASSUME NEW p \in Procs, Kill(p) PROVE TypeOK'
  BY <1>0, <1>5 DEF TypeOK, Labels, Status, OneTracker, Kill, ThreadExit
<1>6. ASSUME NEW p \in Procs, PageFault(p) PROVE TypeOK'
  BY <1>0, <1>6 DEF TypeOK, Labels, Status, OneTracker, PageFault, ThreadExit
<1>7. ASSUME NEW p \in Procs, Die(p) PROVE TypeOK'
  BY <1>0, <1>7 DEF TypeOK, Labels, Status, OneTracker, Die, FreePages
<1>8. ASSUME NEW p \in Procs, ForkDown(p) PROVE TypeOK'
  <2>1. child[p] \in Procs
    BY <1>0, <1>8 DEF TypeOK, ForkDown
  <2>2. sema[child[p]] \in SemaType
    BY <1>0, <2>1 DEF TypeOK
  <2>3. sema[child[p]].fork - 1 \in 0..1
    BY <1>0, <1>8, <2>1, <2>2 DEF SemaType, ForkDown
  <2>4. sema' = [sema EXCEPT ![child[p]].fork = sema[child[p]].fork - 1]
    BY <1>8 DEF ForkDown
  <2>5. sema' \in [Procs -> SemaType]
    BY <1>0, <2>1, <2>3, <2>4, SemaSet DEF TypeOK
  <2> QED BY <1>0, <1>8, <2>5 DEF TypeOK, Labels, ForkDown
<1>9. ASSUME NEW p \in Procs, WaitDown(p) PROVE TypeOK'
  <2>1. child[p] \in Procs
    BY <1>0, <1>9 DEF TypeOK, WaitDown
  <2>2. sema[child[p]] \in SemaType
    BY <1>0, <2>1 DEF TypeOK
  <2>3. sema[child[p]].wait - 1 \in 0..1
    BY <1>0, <1>9, <2>1, <2>2 DEF SemaType, WaitDown
  <2>4. sema' = [sema EXCEPT ![child[p]].wait = sema[child[p]].wait - 1]
    BY <1>9 DEF WaitDown
  <2>5. sema' \in [Procs -> SemaType]
    BY <1>0, <2>1, <2>3, <2>4, SemaSet DEF TypeOK
  <2> QED BY <1>0, <1>9, <2>5 DEF TypeOK, Labels, WaitDown
<1>10. ASSUME NEW p \in Procs, WaitUp(p) PROVE TypeOK'
  <2>1. child[p] \in Procs
    BY <1>0, <1>10 DEF TypeOK, WaitUp
  <2>2. sema[child[p]] \in SemaType
    BY <1>0, <2>1 DEF TypeOK
  <2>3. sema[child[p]].free + 1 \in 0..1
    BY <1>0, <1>10, <2>1, <2>2 DEF SemaType, WaitUp, OneTracker, TrackedStay, Tracks
  <2>4. sema' = [sema EXCEPT ![child[p]].free = sema[child[p]].free + 1]
    BY <1>10 DEF WaitUp
  <2>5. sema' \in [Procs -> SemaType]
    BY <1>0, <2>1, <2>3, <2>4, SemaSet DEF TypeOK
  <2> QED BY <1>0, <1>10, <2>5 DEF TypeOK, Labels, WaitUp
<1>11. ASSUME NEW p \in Procs, ExitUpWait(p) PROVE TypeOK'
  <2>1. p \in Procs
    BY <1>0, <1>11 DEF TypeOK, ExitUpWait
  <2>2. sema[p] \in SemaType
    BY <1>0, <2>1 DEF TypeOK
  <2>3. sema[p].wait + 1 \in 0..1
    BY <1>0, <1>11, <2>1, <2>2 DEF SemaType, ExitUpWait, SemasFollow, Finished
  <2>4. sema' = [sema EXCEPT ![p].wait = sema[p].wait + 1]
    BY <1>11 DEF ExitUpWait
  <2>5. sema' \in [Procs -> SemaType]
    BY <1>0, <2>1, <2>3, <2>4, SemaSet DEF TypeOK
  <2> QED BY <1>0, <1>11, <2>5 DEF TypeOK, Labels, ExitUpWait
<1>12. ASSUME NEW p \in Procs, ExitUpFork(p) PROVE TypeOK'
  <2>1. p \in Procs
    BY <1>0, <1>12 DEF TypeOK, ExitUpFork
  <2>2. sema[p] \in SemaType
    BY <1>0, <2>1 DEF TypeOK
  <2>3. sema[p].fork + 1 \in 0..1
    BY <1>0, <1>12, <2>1, <2>2 DEF SemaType, ExitUpFork, SemasFollow, Finished
  <2>4. sema' = [sema EXCEPT ![p].fork = sema[p].fork + 1]
    BY <1>12 DEF ExitUpFork
  <2>5. sema' \in [Procs -> SemaType]
    BY <1>0, <2>1, <2>3, <2>4, SemaSet DEF TypeOK
  <2> QED BY <1>0, <1>12, <2>5 DEF TypeOK, Labels, ExitUpFork
<1>13. ASSUME NEW p \in Procs, ExitDown(p) PROVE TypeOK'
  <2>1. p \in Procs
    BY <1>0, <1>13 DEF TypeOK, ExitDown
  <2>2. sema[p] \in SemaType
    BY <1>0, <2>1 DEF TypeOK
  <2>3. sema[p].free - 1 \in 0..1
    BY <1>0, <1>13, <2>1, <2>2 DEF SemaType, ExitDown
  <2>4. sema' = [sema EXCEPT ![p].free = sema[p].free - 1]
    BY <1>13 DEF ExitDown
  <2>5. sema' \in [Procs -> SemaType]
    BY <1>0, <2>1, <2>3, <2>4, SemaSet DEF TypeOK
  <2> QED BY <1>0, <1>13, <2>5 DEF TypeOK, Labels, ExitDown
<1>14. ASSUME NEW p \in Procs, NEW c \in Procs, Fork(p, c) PROVE TypeOK'
  BY <1>0, <1>14 DEF TypeOK, Labels, Fork, ThreadCreate
<1>15. ASSUME NEW p \in Procs, NEW c \in Procs, Wait(p, c) PROVE TypeOK'
  BY <1>0, <1>15 DEF TypeOK, Labels, Wait
<1>16. ASSUME NEW p \in Procs, NEW code \in Codes, Exit(p, code) PROVE TypeOK'
  BY <1>0, <1>16 DEF TypeOK, Labels, Status, Exit, ThreadExit
<1>17. ASSUME NEW c \in Procs, CreateInitd(c) PROVE TypeOK'
  BY <1>0, <1>17 DEF TypeOK, Labels, CreateInitd, ThreadCreate
<1>18. CASE Yield
  BY <1>0, <1>18 DEF TypeOK, Labels, Status, Yield, FreePages
<1>19. CASE PoweredOff
  BY <1>0, <1>19 DEF TypeOK, PoweredOff, vars
<1> QED BY <1>1, <1>2, <1>3, <1>4, <1>5, <1>6, <1>7, <1>8, <1>9, <1>10, <1>11, <1>12, <1>13, <1>14, <1>15, <1>16, <1>17, <1>18, <1>19 DEF Next, KernelCode, UserCode

(* Every step keeps the invariant.                                         *)
LEMMA InvStep == ASSUME ProcessInv, [Next]_vars PROVE ProcessInv'
<1> SUFFICES ASSUME Next, TypeOK' PROVE ProcessInv'
  <2>1. CASE UNCHANGED vars
    BY <2>1 DEF ProcessInv, TypeOK, SemasFollow, OneTracker, Tracks, TrackedStay,
                DestroyDying, ParentHeld, Finished, vars
  <2> QED BY <2>1, TypeStep
<1> USE ProcessAssumption DEF Procs, Main, At, Goto
<1>0. TypeOK /\ SemasFollow /\ OneTracker /\ TrackedStay /\ DestroyDying /\ ParentHeld
  BY DEF ProcessInv
<1>1. ASSUME NEW p \in Procs, ForkDown(p) PROVE ProcessInv'
  BY <1>0, <1>1
     DEF ProcessInv, TypeOK, SemaType, SemasFollow, OneTracker, Tracks,
         TrackedStay, DestroyDying, ParentHeld, Finished, ForkDown
<1>2. ASSUME NEW p \in Procs, Launch(p) PROVE ProcessInv'
  <2>1. SemasFollow' /\ DestroyDying'
    BY <1>0, <1>2 DEF TypeOK, SemaType, SemasFollow, DestroyDying, Finished, Launch
  <2>2. OneTracker' /\ TrackedStay'
    BY <1>0, <1>2 DEF TypeOK, SemaType, OneTracker, TrackedStay, Tracks, Launch
  <2>3. ParentHeld'
    BY <1>0, <1>2 DEF TypeOK, ParentHeld, Launch
  <2> QED BY <2>1, <2>2, <2>3 DEF ProcessInv
<1>3. ASSUME NEW p \in Procs, WaitDown(p) PROVE ProcessInv'
  BY <1>0, <1>3
     DEF ProcessInv, TypeOK, SemaType, SemasFollow, OneTracker, Tracks,
         TrackedStay, DestroyDying, ParentHeld, Finished, WaitDown
<1>4. ASSUME NEW p \in Procs, WaitUp(p) PROVE ProcessInv'
  BY <1>0, <1>4
     DEF ProcessInv, TypeOK, SemaType, SemasFollow, OneTracker, Tracks,
         TrackedStay, DestroyDying, ParentHeld, Finished, WaitUp
<1>5. ASSUME NEW p \in Procs, WaitReturn(p) PROVE ProcessInv'
  BY <1>0, <1>5
     DEF ProcessInv, TypeOK, SemaType, SemasFollow, OneTracker, Tracks,
         TrackedStay, DestroyDying, ParentHeld, Finished, WaitReturn
<1>6. ASSUME NEW p \in Procs, ExitUpFork(p) PROVE ProcessInv'
  BY <1>0, <1>6
     DEF ProcessInv, TypeOK, SemaType, SemasFollow, OneTracker, Tracks,
         TrackedStay, DestroyDying, ParentHeld, Finished, ExitUpFork
<1>7. ASSUME NEW p \in Procs, ExitDown(p) PROVE ProcessInv'
  BY <1>0, <1>7
     DEF ProcessInv, TypeOK, SemaType, SemasFollow, OneTracker, Tracks,
         TrackedStay, DestroyDying, ParentHeld, Finished, ExitDown
<1>8. ASSUME NEW p \in Procs, NEW c \in Procs, Wait(p, c) PROVE ProcessInv'
  BY <1>0, <1>8
     DEF ProcessInv, TypeOK, SemaType, SemasFollow, OneTracker, Tracks,
         TrackedStay, DestroyDying, ParentHeld, Finished, Wait
<1>9. ASSUME NEW p \in Procs, PageFault(p) PROVE ProcessInv'
  <2>1. SemasFollow' /\ DestroyDying'
    BY <1>0, <1>9 DEF TypeOK, SemaType, SemasFollow, DestroyDying, Finished, PageFault, ThreadExit
  <2>2. OneTracker' /\ TrackedStay'
    BY <1>0, <1>9 DEF TypeOK, SemaType, OneTracker, TrackedStay, Tracks, PageFault, ThreadExit
  <2>3. ParentHeld'
    BY <1>0, <1>9 DEF TypeOK, ParentHeld, PageFault, ThreadExit
  <2> QED BY <2>1, <2>2, <2>3 DEF ProcessInv
<1>10. ASSUME NEW p \in Procs, ForkError(p) PROVE ProcessInv'
  BY <1>0, <1>10
     DEF ProcessInv, TypeOK, SemaType, SemasFollow, OneTracker, Tracks,
         TrackedStay, DestroyDying, ParentHeld, Finished, ForkError, ThreadExit
<1>11. ASSUME NEW p \in Procs, NEW code \in Codes, Exit(p, code) PROVE ProcessInv'
  BY <1>0, <1>11
     DEF ProcessInv, TypeOK, SemaType, SemasFollow, OneTracker, Tracks,
         TrackedStay, DestroyDying, ParentHeld, Finished, Exit, ThreadExit
<1>12. ASSUME NEW p \in Procs, Die(p) PROVE ProcessInv'
  BY <1>0, <1>12
     DEF ProcessInv, TypeOK, SemaType, SemasFollow, OneTracker, Tracks,
         TrackedStay, DestroyDying, ParentHeld, Finished, Die, FreePages
<1>13. CASE Yield
  BY <1>0, <1>13
     DEF ProcessInv, TypeOK, SemaType, SemasFollow, OneTracker, Tracks,
         TrackedStay, DestroyDying, ParentHeld, Finished, Yield, FreePages
<1>14. CASE PoweredOff
  BY <1>0, <1>14 DEF ProcessInv, TypeOK, SemaType, SemasFollow, OneTracker, Tracks,
         TrackedStay, DestroyDying, ParentHeld, Finished, PoweredOff, vars
<1>15. ASSUME NEW p \in Procs, WaitRemove(p) PROVE ProcessInv'
  <2>1. SemasFollow'
    BY <1>0, <1>15 DEF TypeOK, SemaType, SemasFollow, DestroyDying, Finished, WaitRemove
  <2>2. DestroyDying'
    BY <1>0, <1>15 DEF TypeOK, DestroyDying, OneTracker, TrackedStay, Tracks, WaitRemove
  <2>3. OneTracker'
    BY <1>0, <1>15 DEF TypeOK, OneTracker, TrackedStay, Tracks, WaitRemove
  <2>4. TrackedStay'
    BY <1>0, <1>15 DEF TypeOK, SemaType, OneTracker, TrackedStay, Tracks, SemasFollow, WaitRemove
  <2>5. ParentHeld'
    BY <1>0, <1>15 DEF TypeOK, ParentHeld, TrackedStay, Tracks, Finished, WaitRemove
  <2> QED BY <2>1, <2>2, <2>3, <2>4, <2>5 DEF ProcessInv
<1>16. ASSUME NEW p \in Procs, Kill(p) PROVE ProcessInv'
  <2>1. SemasFollow'
    BY <1>0, <1>16 DEF TypeOK, SemaType, SemasFollow, DestroyDying, Finished, Kill, ThreadExit
  <2>2. DestroyDying'
    BY <1>0, <1>16 DEF TypeOK, DestroyDying, OneTracker, TrackedStay, Tracks, Kill, ThreadExit
  <2>3. OneTracker'
    BY <1>0, <1>16 DEF TypeOK, OneTracker, TrackedStay, Tracks, Kill, ThreadExit
  <2>4. TrackedStay'
    BY <1>0, <1>16 DEF TypeOK, SemaType, OneTracker, TrackedStay, Tracks, SemasFollow, Kill, ThreadExit
  <2>5. ParentHeld'
    BY <1>0, <1>16 DEF TypeOK, ParentHeld, TrackedStay, Tracks, Finished, Kill, ThreadExit
  <2> QED BY <2>1, <2>2, <2>3, <2>4, <2>5 DEF ProcessInv
<1>17. ASSUME NEW p \in Procs, ExitUpWait(p) PROVE ProcessInv'
  <2>1. SemasFollow'
    BY <1>0, <1>17 DEF TypeOK, SemaType, SemasFollow, DestroyDying, Finished, ExitUpWait
  <2>2. DestroyDying'
    BY <1>0, <1>17 DEF TypeOK, DestroyDying, OneTracker, TrackedStay, Tracks, ExitUpWait
  <2>3. OneTracker'
    BY <1>0, <1>17 DEF TypeOK, OneTracker, TrackedStay, Tracks, ExitUpWait
  <2>4. TrackedStay'
    BY <1>0, <1>17 DEF TypeOK, SemaType, OneTracker, TrackedStay, Tracks, SemasFollow, ExitUpWait
  <2>5. ParentHeld'
    BY <1>0, <1>17 DEF TypeOK, ParentHeld, TrackedStay, Tracks, Finished, ExitUpWait
  <2> QED BY <2>1, <2>2, <2>3, <2>4, <2>5 DEF ProcessInv
<1>18. ASSUME NEW p \in Procs, NEW c \in Procs, Fork(p, c) PROVE ProcessInv'
  <2>1. SemasFollow'
    BY <1>0, <1>18 DEF TypeOK, SemaType, SemasFollow, DestroyDying, Finished, Fork, ThreadCreate
  <2>2. DestroyDying'
    BY <1>0, <1>18 DEF TypeOK, DestroyDying, OneTracker, TrackedStay, Tracks, Fork, ThreadCreate
  <2>3. OneTracker'
    BY <1>0, <1>18 DEF TypeOK, OneTracker, TrackedStay, Tracks, Fork, ThreadCreate
  <2>4. TrackedStay'
    BY <1>0, <1>18 DEF TypeOK, SemaType, OneTracker, TrackedStay, Tracks, SemasFollow, Fork, ThreadCreate
  <2>5. ParentHeld'
    BY <1>0, <1>18 DEF TypeOK, ParentHeld, TrackedStay, Tracks, Finished, Fork, ThreadCreate
  <2> QED BY <2>1, <2>2, <2>3, <2>4, <2>5 DEF ProcessInv
<1>19. ASSUME NEW c \in Procs, CreateInitd(c) PROVE ProcessInv'
  <2>1. SemasFollow'
    BY <1>0, <1>19 DEF TypeOK, SemaType, SemasFollow, DestroyDying, Finished, CreateInitd, ThreadCreate
  <2>2. DestroyDying'
    BY <1>0, <1>19 DEF TypeOK, DestroyDying, OneTracker, TrackedStay, Tracks, CreateInitd, ThreadCreate
  <2>3. OneTracker'
    BY <1>0, <1>19 DEF TypeOK, OneTracker, TrackedStay, Tracks, CreateInitd, ThreadCreate
  <2>4. TrackedStay'
    BY <1>0, <1>19 DEF TypeOK, SemaType, OneTracker, TrackedStay, Tracks, SemasFollow, CreateInitd, ThreadCreate
  <2>5. ParentHeld'
    <3>1. /\ pc \in [Procs -> Labels] /\ childList \in [Procs -> SUBSET Procs] /\ c # Main
          /\ pc' = [pc EXCEPT ![c] = "start", ![Main] = "wait_down"] /\ child'[Main] = c
          /\ childList' = [childList EXCEPT ![Main] = childList[Main] \cup {c}]
          /\ \A p \in Procs \ {Main} : child'[p] = child[p]
      BY <1>0, <1>19 DEF TypeOK, CreateInitd, ThreadCreate
    <3>2. pc[Main] = "start" /\ pc[c] = "unborn" /\ \A q \in Procs : c \notin childList[q]
      BY <1>0, <1>19 DEF TrackedStay, Tracks, CreateInitd, ThreadCreate
    <3> QED BY <1>0, <3>1, <3>2 DEF ParentHeld
  <2> QED BY <2>1, <2>2, <2>3, <2>4, <2>5 DEF ProcessInv
<1> QED BY <1>1, <1>2, <1>3, <1>4, <1>5, <1>6, <1>7, <1>8, <1>9, <1>10, <1>11, <1>12, <1>13, <1>14, <1>15, <1>16, <1>17, <1>18, <1>19
       DEF Next, KernelCode, UserCode

(* The inductive invariant holds in every state.                           *)
THEOREM ProcessInvariant == Spec => []ProcessInv
<1>1. Init => ProcessInv
  BY InitInv
<1>2. ProcessInv /\ [Next]_vars => ProcessInv'
  BY InvStep
<1> QED BY <1>1, <1>2, PTL DEF Spec

(* get_child, process_fork and process_wait never touch the page of a      *)
(* thread that has been freed or is about to be, however many processes    *)
(* fork, wait, exit and are killed.                                        *)
THEOREM NoDanglingChild == Spec => []ChildrenAllocated
<1>1. ProcessInv => ChildrenAllocated
  BY DEF ProcessInv, ChildrenAllocated, Using, OneTracker, TrackedStay, Tracks,
         DestroyDying, TypeOK
<1> QED BY <1>1, ProcessInvariant, PTL

(* A parent stands still while its child is being made, and a child has    *)
(* one parent.                                                             *)
THEOREM ParentsHeld == Spec => []ParentHeld
<1>1. ProcessInv => ParentHeld
  BY DEF ProcessInv
<1> QED BY <1>1, ProcessInvariant, PTL

(* Semaphores stay 0 or 1 and pointers point to threads.                   *)
THEOREM TypeCorrect == Spec => []TypeOK
<1>1. ProcessInv => TypeOK
  BY DEF ProcessInv
<1> QED BY <1>1, ProcessInvariant, PTL

-----------------------------------------------------------------------------
(* The initial thread only waits for the first process; it is nobody's     *)
(* child.                                                                  *)
MainApart ==
  /\ pc[Main] \in {"start", "wait_down", "wait_remove", "wait_up", "wait_read", "off"}
  /\ \A p \in Procs : Main \notin childList[p]

(* A child at the end of process_exit has upped what its parent waits for: *)
(* sema_wait unless process_wait has already taken it, and sema_fork if    *)
(* the parent is still in process_fork.                                    *)
Owed ==
  \A p \in Procs : \A c \in childList[p] :
    ~(pc[p] = "wait_remove" /\ child[p] = c) =>
      /\ pc[c] \in {"exit_fork", "exit_free"} => sema[c].wait = 1
      /\ pc[p] = "fork_down" /\ child[p] = c /\ pc[c] = "exit_free" => sema[c].fork = 1

(* What the argument that somebody can run needs of a state.               *)
StuckInv == ProcessInv /\ MainApart /\ Owed

(* The initial thread never becomes a user process, and a child is new     *)
(* when it is put into a child_list.                                       *)
LEMMA MainStep == ASSUME StuckInv, [Next]_vars PROVE MainApart'
<1> USE ProcessAssumption DEF Procs, Main, At, Goto
<1>0. TypeOK /\ MainApart /\ OneTracker /\ TrackedStay /\ DestroyDying
  BY DEF StuckInv, ProcessInv
<1>1. ASSUME NEW p \in Procs, ForkDown(p) PROVE MainApart'
  BY <1>0, <1>1 DEF TypeOK, MainApart, DestroyDying, ForkDown
<1>2. ASSUME NEW p \in Procs, Launch(p) PROVE MainApart'
  BY <1>0, <1>2 DEF TypeOK, MainApart, DestroyDying, Launch
<1>3. ASSUME NEW p \in Procs, ForkError(p) PROVE MainApart'
  BY <1>0, <1>3 DEF TypeOK, MainApart, DestroyDying, ForkError, ThreadExit
<1>4. ASSUME NEW p \in Procs, WaitDown(p) PROVE MainApart'
  BY <1>0, <1>4 DEF TypeOK, MainApart, DestroyDying, WaitDown
<1>5. ASSUME NEW p \in Procs, WaitRemove(p) PROVE MainApart'
  BY <1>0, <1>5 DEF TypeOK, MainApart, DestroyDying, WaitRemove
<1>6. ASSUME NEW p \in Procs, WaitUp(p) PROVE MainApart'
  BY <1>0, <1>6 DEF TypeOK, MainApart, DestroyDying, WaitUp
<1>7. ASSUME NEW p \in Procs, WaitReturn(p) PROVE MainApart'
  BY <1>0, <1>7 DEF TypeOK, MainApart, DestroyDying, WaitReturn
<1>8. ASSUME NEW p \in Procs, ExitUpWait(p) PROVE MainApart'
  BY <1>0, <1>8 DEF TypeOK, MainApart, DestroyDying, ExitUpWait
<1>9. ASSUME NEW p \in Procs, ExitUpFork(p) PROVE MainApart'
  BY <1>0, <1>9 DEF TypeOK, MainApart, DestroyDying, ExitUpFork
<1>10. ASSUME NEW p \in Procs, ExitDown(p) PROVE MainApart'
  BY <1>0, <1>10 DEF TypeOK, MainApart, DestroyDying, ExitDown
<1>11. ASSUME NEW p \in Procs, Die(p) PROVE MainApart'
  BY <1>0, <1>11 DEF TypeOK, MainApart, DestroyDying, Die, FreePages
<1>12. ASSUME NEW p \in Procs, NEW c \in Procs, Fork(p, c) PROVE MainApart'
  BY <1>0, <1>12 DEF TypeOK, MainApart, DestroyDying, Fork, ThreadCreate
<1>13. ASSUME NEW p \in Procs, NEW c \in Procs, Wait(p, c) PROVE MainApart'
  BY <1>0, <1>13 DEF TypeOK, MainApart, DestroyDying, Wait
<1>14. ASSUME NEW p \in Procs, NEW code \in Codes, Exit(p, code) PROVE MainApart'
  BY <1>0, <1>14 DEF TypeOK, MainApart, DestroyDying, Exit, ThreadExit
<1>15. ASSUME NEW p \in Procs, PageFault(p) PROVE MainApart'
  BY <1>0, <1>15 DEF TypeOK, MainApart, DestroyDying, PageFault, ThreadExit
<1>16. ASSUME NEW p \in Procs, Kill(p) PROVE MainApart'
  BY <1>0, <1>16 DEF TypeOK, MainApart, DestroyDying, Kill, ThreadExit
<1>17. ASSUME NEW c \in Procs, CreateInitd(c) PROVE MainApart'
  BY <1>0, <1>17 DEF TypeOK, MainApart, DestroyDying, CreateInitd, ThreadCreate
<1>18. CASE Yield
  BY <1>0, <1>18 DEF TypeOK, MainApart, DestroyDying, Yield, FreePages
<1>19. CASE UNCHANGED vars
  BY <1>0, <1>19 DEF TypeOK, MainApart, DestroyDying, vars
<1> QED BY <1>1, <1>2, <1>3, <1>4, <1>5, <1>6, <1>7, <1>8, <1>9, <1>10, <1>11, <1>12, <1>13, <1>14, <1>15, <1>16, <1>17, <1>18, <1>19
       DEF Next, KernelCode, UserCode, PoweredOff

(* A child ups sema_wait before it reaches exit_fork and sema_fork before  *)
(* it reaches exit_free, and only its parent downs them.                   *)
LEMMA OwedStep == ASSUME StuckInv, [Next]_vars PROVE Owed'
<1> USE ProcessAssumption DEF Procs, Main, At, Goto
<1>0. TypeOK /\ Owed /\ SemasFollow /\ OneTracker /\ TrackedStay /\ DestroyDying
  BY DEF StuckInv, ProcessInv
<1>1. ASSUME NEW p \in Procs, ForkDown(p) PROVE Owed'
  BY <1>0, <1>1 DEF TypeOK, SemaType, Owed, SemasFollow, Finished, OneTracker, Tracks,
         TrackedStay, DestroyDying, ForkDown
<1>2. ASSUME NEW p \in Procs, Launch(p) PROVE Owed'
  BY <1>0, <1>2 DEF TypeOK, SemaType, Owed, SemasFollow, Finished, OneTracker, Tracks,
         TrackedStay, DestroyDying, Launch
<1>3. ASSUME NEW p \in Procs, ForkError(p) PROVE Owed'
  BY <1>0, <1>3 DEF TypeOK, SemaType, Owed, SemasFollow, Finished, OneTracker, Tracks,
         TrackedStay, DestroyDying, ForkError, ThreadExit
<1>4. ASSUME NEW p \in Procs, WaitDown(p) PROVE Owed'
  BY <1>0, <1>4 DEF TypeOK, SemaType, Owed, SemasFollow, Finished, OneTracker, Tracks,
         TrackedStay, DestroyDying, WaitDown
<1>5. ASSUME NEW p \in Procs, WaitRemove(p) PROVE Owed'
  BY <1>0, <1>5 DEF TypeOK, SemaType, Owed, SemasFollow, Finished, OneTracker, Tracks,
         TrackedStay, DestroyDying, WaitRemove
<1>6. ASSUME NEW p \in Procs, WaitUp(p) PROVE Owed'
  BY <1>0, <1>6 DEF TypeOK, SemaType, Owed, SemasFollow, Finished, OneTracker, Tracks,
         TrackedStay, DestroyDying, WaitUp
<1>7. ASSUME NEW p \in Procs, WaitReturn(p) PROVE Owed'
  BY <1>0, <1>7 DEF TypeOK, SemaType, Owed, SemasFollow, Finished, OneTracker, Tracks,
         TrackedStay, DestroyDying, WaitReturn
<1>8. ASSUME NEW p \in Procs, ExitUpWait(p) PROVE Owed'
  BY <1>0, <1>8 DEF TypeOK, SemaType, Owed, SemasFollow, Finished, OneTracker, Tracks,
         TrackedStay, DestroyDying, ExitUpWait
<1>9. ASSUME NEW p \in Procs, ExitUpFork(p) PROVE Owed'
  BY <1>0, <1>9 DEF TypeOK, SemaType, Owed, SemasFollow, Finished, OneTracker, Tracks,
         TrackedStay, DestroyDying, ExitUpFork
<1>10. ASSUME NEW p \in Procs, ExitDown(p) PROVE Owed'
  BY <1>0, <1>10 DEF TypeOK, SemaType, Owed, SemasFollow, Finished, OneTracker, Tracks,
         TrackedStay, DestroyDying, ExitDown
<1>11. ASSUME NEW p \in Procs, Die(p) PROVE Owed'
  BY <1>0, <1>11 DEF TypeOK, SemaType, Owed, SemasFollow, Finished, OneTracker, Tracks,
         TrackedStay, DestroyDying, Die, FreePages
<1>12. ASSUME NEW p \in Procs, NEW c \in Procs, Fork(p, c) PROVE Owed'
  BY <1>0, <1>12 DEF TypeOK, SemaType, Owed, SemasFollow, Finished, OneTracker, Tracks,
         TrackedStay, DestroyDying, Fork, ThreadCreate
<1>13. ASSUME NEW p \in Procs, NEW c \in Procs, Wait(p, c) PROVE Owed'
  BY <1>0, <1>13 DEF TypeOK, SemaType, Owed, SemasFollow, Finished, OneTracker, Tracks,
         TrackedStay, DestroyDying, Wait
<1>14. ASSUME NEW p \in Procs, NEW code \in Codes, Exit(p, code) PROVE Owed'
  BY <1>0, <1>14 DEF TypeOK, SemaType, Owed, SemasFollow, Finished, OneTracker, Tracks,
         TrackedStay, DestroyDying, Exit, ThreadExit
<1>15. ASSUME NEW p \in Procs, PageFault(p) PROVE Owed'
  BY <1>0, <1>15 DEF TypeOK, SemaType, Owed, SemasFollow, Finished, OneTracker, Tracks,
         TrackedStay, DestroyDying, PageFault, ThreadExit
<1>16. ASSUME NEW p \in Procs, Kill(p) PROVE Owed'
  BY <1>0, <1>16 DEF TypeOK, SemaType, Owed, SemasFollow, Finished, OneTracker, Tracks,
         TrackedStay, DestroyDying, Kill, ThreadExit
<1>17. ASSUME NEW c \in Procs, CreateInitd(c) PROVE Owed'
  BY <1>0, <1>17 DEF TypeOK, SemaType, Owed, SemasFollow, Finished, OneTracker, Tracks,
         TrackedStay, DestroyDying, CreateInitd, ThreadCreate
<1>18. CASE Yield
  BY <1>0, <1>18 DEF TypeOK, SemaType, Owed, SemasFollow, Finished, OneTracker, Tracks,
         TrackedStay, DestroyDying, Yield, FreePages
<1>19. CASE UNCHANGED vars
  BY <1>0, <1>19 DEF TypeOK, SemaType, Owed, SemasFollow, Finished, OneTracker, Tracks,
         TrackedStay, DestroyDying, vars
<1> QED BY <1>1, <1>2, <1>3, <1>4, <1>5, <1>6, <1>7, <1>8, <1>9, <1>10, <1>11, <1>12, <1>13, <1>14, <1>15, <1>16, <1>17, <1>18, <1>19
       DEF Next, KernelCode, UserCode, PoweredOff

(* The strengthened invariant holds in every state.                        *)
LEMMA StuckInvariant == Spec => []StuckInv
<1>1. Init => StuckInv
  <2> SUFFICES ASSUME Init PROVE MainApart /\ Owed
    BY InitInv DEF StuckInv
  <2> QED BY ProcessAssumption DEF Init, MainApart, Owed, Procs, Main
<1>2. StuckInv /\ [Next]_vars => StuckInv'
  BY InvStep, MainStep, OwedStep DEF StuckInv
<1> QED BY <1>1, <1>2, PTL DEF Spec

(* Threads that sleep in process_fork or process_wait.                     *)
Parents == {p \in Procs : pc[p] \in {"fork_down", "wait_down"} /\ Asleep(p)}

(* When nobody can run, the child that such a thread sleeps for sleeps in  *)
(* the same way: it is tracked, so it has a structure that is not about    *)
(* to go, and in exit_free it would have woken its parent.                 *)
LEMMA ChildSleeps ==
  ASSUME StuckInv, ~NeverStuck, NEW p \in Parents
  PROVE  child[p] \in Parents \ {Main}
<1> USE ProcessAssumption DEF Procs, Main
<1> DEFINE c == child[p]
<1>1. p \in Procs /\ pc[p] \in {"fork_down", "wait_down"} /\ Asleep(p)
  BY DEF Parents
<1>2. c \in Procs /\ c \in childList[p]
  BY <1>1 DEF StuckInv, ProcessInv, TypeOK, OneTracker
<1>3. c # Main
  BY <1>1, <1>2 DEF StuckInv, MainApart
<1>4. pc[c] \notin {"unborn", "dying", "freed"}
  BY <1>1, <1>2 DEF StuckInv, ProcessInv, TrackedStay, Tracks
<1>5. Asleep(c)
  BY <1>2, <1>4 DEF NeverStuck
<1>6. pc[c] # "exit_free"
  BY <1>1, <1>2 DEF Asleep, StuckInv, Owed
<1> QED BY <1>2, <1>3, <1>5, <1>6 DEF Parents, Asleep

(* No two threads sleep for the same child.                                *)
LEMMA ChildrenDiffer ==
  ASSUME StuckInv, NEW p \in Parents, NEW q \in Parents, child[p] = child[q]
  PROVE  p = q
<1>1. /\ p \in Procs /\ pc[p] \in {"fork_down", "wait_down"}
      /\ q \in Procs /\ pc[q] \in {"fork_down", "wait_down"}
  BY DEF Parents
<1>2. child[p] \in Procs /\ child[p] \in childList[p] /\ child[p] \in childList[q]
  BY <1>1 DEF StuckInv, ProcessInv, TypeOK, OneTracker
<1> QED BY <1>1, <1>2 DEF StuckInv, ProcessInv, OneTracker, Tracks

(* If nobody could run, the initial thread would sleep, and so would every *)
(* child that a sleeping parent waits for; but a finite set has no         *)
(* injection into itself without the initial thread.                       *)
LEMMA SomebodyRuns == ASSUME StuckInv PROVE NeverStuck
<1> SUFFICES ASSUME ~NeverStuck PROVE FALSE
  OBVIOUS
<1> DEFINE f == [p \in Parents |-> child[p]]
<1>1. Main \in Parents
  <2>1. Main \in Procs
    BY ProcessAssumption DEF Procs, Main
  <2>2. Asleep(Main)
    BY <2>1 DEF StuckInv, MainApart, NeverStuck
  <2> QED BY <2>1, <2>2 DEF Parents, Asleep, StuckInv, MainApart
<1>2. IsFiniteSet(Parents) /\ IsFiniteSet(Parents \ {Main})
  <2>1. IsFiniteSet(1..MaxTid)
    BY ProcessAssumption, FS_Interval
  <2> QED BY <2>1, FS_Subset DEF Parents, Procs
<1>3. Cardinality(Parents \ {Main}) = Cardinality(Parents) - 1
  BY <1>1, <1>2, FS_RemoveElement
<1>4. f \in [Parents -> Parents \ {Main}]
  BY ChildSleeps
<1>5. \A p, q \in Parents : f[p] = f[q] => p = q
  BY ChildrenDiffer
<1>6. f \in Injection(Parents, Parents \ {Main})
  BY <1>4, <1>5 DEF Injection, IsInjective
<1>7. Cardinality(Parents) <= Cardinality(Parents \ {Main})
  BY <1>2, <1>6, FS_Injection
<1>8. Cardinality(Parents) \in Nat
  BY <1>2, FS_CardinalityType
<1> QED BY <1>3, <1>7, <1>8

(* Parents that wait for children and children that wait for parents never *)
(* form a circle, however many processes there are: until the system is    *)
(* off some thread can run.                                                *)
THEOREM NobodyStuck == Spec => []NeverStuck
BY StuckInvariant, SomebodyRuns, PTL

-----------------------------------------------------------------------------
(* Loading.                                                                *)

(* Division, which the provers know only as an equation.                   *)
LEMMA Divided ==
  ASSUME NEW a \in Int, NEW d \in Nat, d > 0
  PROVE  /\ a \div d \in Int /\ a % d \in 0..(d - 1)
         /\ a = d * (a \div d) + (a % d)
<1>1. a % d = a - d * (a \div d)
  OBVIOUS
<1> QED BY <1>1

(* Quotient and rest are determined by that equation.                      *)
LEMMA Quotient ==
  ASSUME NEW q \in Int, NEW r \in Int, NEW d \in Nat, 0 <= r, r < d
  PROVE  (d * q + r) \div d = q /\ (d * q + r) % d = r
OBVIOUS

(* What the assumptions say of sizes.                                      *)
LEMMA Sizes ==
  /\ PGSIZE \in Nat /\ PGSIZE > 0 /\ WordSize \in Nat /\ WordSize > 0
  /\ ByteSize \in Nat /\ ByteSize > 0
  /\ USER_STACK \in Nat /\ KERN_BASE \in Nat /\ StackRange \in Nat
  /\ CountRange \in Nat /\ CountRange > 0 /\ AddressRange \in Nat
BY LoadingAssumption

(* The beginnings of pages.                                                *)
Aligned == {m \in Int : m % PGSIZE = 0}

(* A number lies in the page that begins at PageOf.                        *)
LEMMA PageOfIs ==
  ASSUME NEW a \in Int
  PROVE  /\ PageOf(a) \in Aligned /\ PageOf(a) <= a /\ a < PageOf(a) + PGSIZE
         /\ a % PGSIZE = a - PageOf(a) /\ a % PGSIZE \in 0..(PGSIZE - 1)
         /\ a >= 0 => PageOf(a) >= 0
<1>1. a % PGSIZE \in 0..(PGSIZE - 1) /\ a \div PGSIZE \in Int
  BY Sizes, Divided
<1>2. PageOf(a) = PGSIZE * (a \div PGSIZE) + 0
  BY <1>1, Sizes, Divided DEF PageOf
<1>3. PageOf(a) % PGSIZE = 0
  BY <1>1, <1>2, Sizes, Quotient
<1>4. PageOf(a) \in Int /\ a % PGSIZE = a - PageOf(a)
  BY <1>1 DEF PageOf
<1>5. a >= 0 => PageOf(a) >= 0
  <2>1. a >= 0 => a \div PGSIZE \in Nat
    BY Sizes
  <2>2. \A m, n \in Nat : m * n >= 0
    OBVIOUS
  <2> QED BY <1>2, <2>1, <2>2, Sizes
<1> QED BY <1>1, <1>3, <1>4, <1>5, Sizes DEF Aligned

(* And in no other.                                                        *)
LEMMA SamePage ==
  ASSUME NEW m \in Aligned, NEW a \in Int, m <= a, a < m + PGSIZE
  PROVE  PageOf(a) = m
<1>1. m \in Int /\ m = PGSIZE * (m \div PGSIZE) + 0 /\ m \div PGSIZE \in Int
  BY Sizes, Divided DEF Aligned
<1>2. a = PGSIZE * (m \div PGSIZE) + (a - m) /\ a - m \in Int /\ 0 <= a - m /\ a - m < PGSIZE
  BY <1>1, Sizes
<1>3. a % PGSIZE = a - m
  BY <1>1, <1>2, Sizes, Quotient
<1> QED BY <1>1, <1>3, Sizes DEF PageOf

(* Pages do not overlap.                                                   *)
LEMMA Apart ==
  ASSUME NEW m \in Aligned, NEW n \in Aligned, m < n
  PROVE  m + PGSIZE <= n
<1>1. m \in Int /\ n \in Int /\ PageOf(n) = n
  BY DEF Aligned, PageOf
<1>2. n < m + PGSIZE => PageOf(n) = m
  BY <1>1, SamePage
<1> QED BY <1>1, <1>2, Sizes

(* Sums, differences and multiples of page sizes.                          *)
LEMMA AlignedSums ==
  ASSUME NEW m \in Aligned, NEW n \in Aligned
  PROVE  m + n \in Aligned /\ m - n \in Aligned
<1>1. m \in Int /\ n \in Int /\ m \div PGSIZE \in Int /\ n \div PGSIZE \in Int
  BY Sizes, Divided DEF Aligned
<1>2. m = PGSIZE * (m \div PGSIZE) + 0 /\ n = PGSIZE * (n \div PGSIZE) + 0
  BY Sizes, Divided DEF Aligned
<1>3. /\ m + n = PGSIZE * (m \div PGSIZE + n \div PGSIZE) + 0
      /\ m - n = PGSIZE * (m \div PGSIZE - n \div PGSIZE) + 0
  BY <1>1, <1>2, Sizes
<1>4. /\ m \div PGSIZE + n \div PGSIZE \in Int
      /\ m \div PGSIZE - n \div PGSIZE \in Int
  BY <1>1
<1>5. \A q \in Int : (PGSIZE * q + 0) % PGSIZE = 0
  BY Sizes, Quotient
<1>6. (m + n) % PGSIZE = 0 /\ (m - n) % PGSIZE = 0
  BY ONLY <1>3, <1>4, <1>5
<1> QED BY <1>1, <1>6 DEF Aligned

LEMMA AlignedMultiple ==
  ASSUME NEW k \in Int
  PROVE  k * PGSIZE \in Aligned /\ (k * PGSIZE) \div PGSIZE = k
<1>1. k * PGSIZE = PGSIZE * k + 0
  BY Sizes
<1>2. (k * PGSIZE) % PGSIZE = 0 /\ (k * PGSIZE) \div PGSIZE = k
  BY <1>1, Sizes, Quotient
<1> QED BY <1>2, Sizes DEF Aligned

LEMMA PageAligned == PGSIZE \in Aligned
<1>1. 1 * PGSIZE \in Aligned
  BY AlignedMultiple
<1>2. 1 * PGSIZE = PGSIZE
  BY Sizes
<1> QED BY <1>1, <1>2

(* ROUND_UP.                                                               *)
LEMMA RoundUpIs ==
  ASSUME NEW n \in Nat
  PROVE  /\ RoundUp(n) \in Aligned /\ RoundUp(n) \in Nat
         /\ n <= RoundUp(n) /\ RoundUp(n) < n + PGSIZE
<1> DEFINE m == n + PGSIZE - 1
<1>1. m \in Nat /\ m \div PGSIZE \in Int /\ m % PGSIZE \in 0..(PGSIZE - 1)
  BY Sizes, Divided
<1>2. m = PGSIZE * (m \div PGSIZE) + (m % PGSIZE)
  BY <1>1, Sizes, Divided
<1>3. RoundUp(n) = (m \div PGSIZE) * PGSIZE
  BY DEF RoundUp
<1>4. RoundUp(n) = m - (m % PGSIZE)
  BY <1>1, <1>2, <1>3, Sizes
<1>5. RoundUp(n) \in Aligned
  BY <1>1, <1>3, AlignedMultiple
<1> QED BY <1>1, <1>4, <1>5, Sizes

-----------------------------------------------------------------------------
(* The sums of a segment that is accepted: its pages end in user space,    *)
(* even where uint32_t cuts the sums, and where it does not they are those *)
(* of the header.                                                          *)
LEMMA SegmentSums ==
  ASSUME NEW p \in Phdr, ValidateSegment(p)
  PROVE  LET R == ReadBytes(p)
             U == RoundUp(Into(p) + p.memsz)
             count == (R + ZeroBytes(p)) \div PGSIZE
         IN /\ R \in Nat /\ ZeroBytes(p) \in Nat /\ count \in Nat /\ U \in Aligned
            /\ Into(p) + p.memsz <= U /\ count * PGSIZE <= U
            /\ U < CountRange =>
                 /\ count * PGSIZE = U
                 /\ R = IF p.filesz > 0 THEN Into(p) + p.filesz ELSE 0
            /\ PageOf(p.vaddr) >= PGSIZE /\ PageOf(p.vaddr) + U <= KERN_BASE
<1> DEFINE R == ReadBytes(p)
           U == RoundUp(Into(p) + p.memsz)
           V == PageOf(p.vaddr)
           count == (R + ZeroBytes(p)) \div PGSIZE
<1>1. p.vaddr \in Nat /\ p.memsz \in Nat /\ p.filesz \in Nat
  BY Sizes DEF Phdr, Address
<1>2. Into(p) = p.vaddr - V /\ Into(p) \in Nat /\ V \in Aligned /\ V \in Int
  <2>1. V \in Aligned /\ p.vaddr % PGSIZE = p.vaddr - V /\ p.vaddr % PGSIZE \in 0..(PGSIZE - 1)
    BY <1>1, PageOfIs
  <2> HIDE DEF V
  <2> QED BY <2>1, Sizes DEF Into, Aligned
<1>3. U \in Aligned /\ U \in Nat /\ Into(p) + p.memsz <= U /\ U < Into(p) + p.memsz + PGSIZE
  BY <1>1, <1>2, RoundUpIs
<1>4. V >= PGSIZE
  <2>1. PGSIZE \in Aligned /\ p.vaddr >= PGSIZE
    BY PageAligned DEF ValidateSegment
  <2>2. p.vaddr < V + PGSIZE
    BY <1>1, PageOfIs
  <2>3. V < PGSIZE => V + PGSIZE <= PGSIZE
    BY <1>2, <2>1, Apart
  <2>4. V > 0
    BY <1>1, <1>2, <2>1, <2>2, Sizes
  <2> QED BY <1>2, <2>3, <2>4, Sizes
<1>5. V + U <= KERN_BASE
  <2>1. p.vaddr + p.memsz < KERN_BASE
    <3>1. p.vaddr + p.memsz < 2 * AddressRange /\ p.vaddr < AddressRange /\ p.memsz < AddressRange
      BY Sizes DEF Phdr, Address
    <3>2. p.vaddr + p.memsz >= AddressRange =>
            (p.vaddr + p.memsz) % AddressRange = p.vaddr + p.memsz - AddressRange
      <4> SUFFICES ASSUME p.vaddr + p.memsz >= AddressRange
                   PROVE  (p.vaddr + p.memsz) % AddressRange = p.vaddr + p.memsz - AddressRange
        OBVIOUS
      <4>1. p.vaddr + p.memsz = AddressRange * 1 + (p.vaddr + p.memsz - AddressRange)
        BY <1>1, Sizes
      <4>2. /\ p.vaddr + p.memsz - AddressRange \in Int
            /\ 0 <= p.vaddr + p.memsz - AddressRange
            /\ p.vaddr + p.memsz - AddressRange < AddressRange
        BY <1>1, <3>1, Sizes
      <4>3. \A r \in Int : 0 <= r /\ r < AddressRange => (AddressRange * 1 + r) % AddressRange = r
        BY Sizes, Quotient
      <4> QED BY ONLY <4>1, <4>2, <4>3
    <3>3. p.vaddr + p.memsz < AddressRange => (p.vaddr + p.memsz) % AddressRange = p.vaddr + p.memsz
      <4> SUFFICES ASSUME p.vaddr + p.memsz < AddressRange
                   PROVE  (p.vaddr + p.memsz) % AddressRange = p.vaddr + p.memsz
        OBVIOUS
      <4>1. p.vaddr + p.memsz = AddressRange * 0 + (p.vaddr + p.memsz)
        BY <1>1, Sizes
      <4> QED BY <1>1, <4>1, Sizes, Quotient
    <3>4. SegmentEnd(p) < KERN_BASE /\ SegmentEnd(p) >= p.vaddr
      BY DEF ValidateSegment
    <3> QED BY <1>1, <3>1, <3>2, <3>3, <3>4, Sizes DEF SegmentEnd
  <2>2. V + U \in Aligned /\ KERN_BASE \in Aligned
    <3>1. KERN_BASE \in Aligned
      BY LoadingAssumption, Sizes DEF Aligned
    <3> HIDE DEF U, V
    <3> QED BY <1>2, <1>3, <3>1, AlignedSums
  <2>3. V + U < p.vaddr + p.memsz + PGSIZE
    BY <1>1, <1>2, <1>3, Sizes
  <2>4. KERN_BASE < V + U => KERN_BASE + PGSIZE <= V + U
    BY <2>2, Apart
  <2> QED BY <1>1, <1>2, <1>3, <2>1, <2>3, <2>4, Sizes
<1>6. R \in Nat /\ ZeroBytes(p) \in Nat /\ R + ZeroBytes(p) <= U
      /\ (U < CountRange => /\ R + ZeroBytes(p) = U
                            /\ R = IF p.filesz > 0 THEN Into(p) + p.filesz ELSE 0)
  <2> DEFINE F == IF p.filesz > 0 THEN Into(p) + p.filesz ELSE 0
  <2>1. F \in Nat /\ F <= U
    BY <1>1, <1>2, <1>3 DEF ValidateSegment
  <2>2. \A n \in Int : /\ n % CountRange \in 0..(CountRange - 1)
                       /\ n >= 0 => n % CountRange <= n
                       /\ n \in 0..(CountRange - 1) => n % CountRange = n
    BY Sizes
  <2>3. R \in Nat /\ R < CountRange /\ R <= F /\ (F < CountRange => R = F)
    BY <2>1, <2>2, Sizes DEF ReadBytes
  <2>4. ZeroBytes(p) = (U - R) % CountRange /\ U - R \in Nat
    BY <1>3, <2>1, <2>3 DEF ZeroBytes
  <2>5. ZeroBytes(p) \in Nat /\ ZeroBytes(p) <= U - R /\ (U - R < CountRange => ZeroBytes(p) = U - R)
    BY <2>2, <2>4, Sizes
  <2> QED BY <1>3, <2>1, <2>3, <2>4, <2>5, Sizes
<1>7. count \in Nat /\ count * PGSIZE <= R + ZeroBytes(p)
  <2>1. R + ZeroBytes(p) = PGSIZE * count + ((R + ZeroBytes(p)) % PGSIZE)
        /\ count \in Int /\ (R + ZeroBytes(p)) % PGSIZE \in 0..(PGSIZE - 1)
    BY <1>6, Sizes, Divided
  <2>2. count >= 0
    <3>1. \A n \in Nat : n \div PGSIZE \in Nat
      BY Sizes
    <3> HIDE DEF R
    <3> QED BY <1>6, <3>1
  <2> QED BY <1>6, <2>1, <2>2, Sizes
<1>8. U < CountRange => count * PGSIZE = U
  <2>1. U = PGSIZE * (U \div PGSIZE) + 0 /\ U \div PGSIZE \in Int
    BY <1>3, Sizes, Divided DEF Aligned
  <2> QED BY <1>3, <1>6, <2>1, Sizes
<1>9. count * PGSIZE <= U
  BY <1>3, <1>6, <1>7, Sizes
<1> HIDE DEF R, U, V, count
<1>10. /\ R \in Nat /\ ZeroBytes(p) \in Nat /\ count \in Nat /\ U \in Aligned
       /\ Into(p) + p.memsz <= U /\ count * PGSIZE <= U
       /\ U < CountRange =>
            /\ count * PGSIZE = U
            /\ R = IF p.filesz > 0 THEN Into(p) + p.filesz ELSE 0
       /\ V >= PGSIZE /\ V + U <= KERN_BASE
  BY <1>3, <1>4, <1>5, <1>6, <1>7, <1>8, <1>9
<1> QED BY <1>10 DEF R, U, V, count

PageRec == [offset : Nat, read : 0..PGSIZE, writable : BOOLEAN]
(* A page of user space.                                                   *)
UserPage(va) == va \in Aligned /\ va >= PGSIZE /\ va + PGSIZE <= KERN_BASE

(* The pages of a segment.                                                 *)
LEMMA PagesOfSegment ==
  ASSUME NEW p \in Phdr, ValidateSegment(p), NEW va \in DOMAIN SegmentPages(p)
  PROVE  /\ UserPage(va) /\ SegmentPages(p)[va] \in PageRec
         /\ LET b == Smaller(va - PageOf(p.vaddr), ReadBytes(p))
            IN SegmentPages(p)[va] =
                 [offset |-> PageOf(p.offset) + b, read |-> Smaller(PGSIZE, ReadBytes(p) - b),
                  writable |-> p.writable]
<1> DEFINE R == ReadBytes(p)
           V == PageOf(p.vaddr)
           U == RoundUp(Into(p) + p.memsz)
           count == (R + ZeroBytes(p)) \div PGSIZE
           b == Smaller(va - V, R)
<1>1. /\ SegmentPages(p)[va] = [offset |-> PageOf(p.offset) + b, read |-> Smaller(PGSIZE, R - b),
                                writable |-> p.writable]
      /\ \E k \in 0..(count - 1) : va = V + k * PGSIZE
  BY DEF SegmentPages
<1>2. PICK k \in 0..(count - 1) : va = V + k * PGSIZE
  BY <1>1
<1>3. /\ R \in Nat /\ count \in Nat /\ U \in Aligned /\ count * PGSIZE <= U
      /\ V >= PGSIZE /\ V + U <= KERN_BASE
  BY SegmentSums
<1>4. V \in Aligned /\ PageOf(p.offset) \in Int /\ PageOf(p.offset) >= 0
  <2>1. p.vaddr \in Int /\ p.offset \in Nat
    BY Sizes DEF Phdr, Address
  <2>2. V \in Aligned
    BY <2>1, PageOfIs
  <2>3. PageOf(p.offset) \in Aligned /\ PageOf(p.offset) >= 0
    BY <2>1, PageOfIs
  <2> HIDE DEF V
  <2> QED BY <2>2, <2>3 DEF Aligned
<1> HIDE DEF R, V, U, count
<1>5. va \in Aligned /\ va >= V /\ va \in Int /\ V \in Int
  <2>0. k \in Nat /\ \A m, n \in Nat : m * n >= 0
    BY <1>3
  <2>1. k * PGSIZE \in Aligned /\ k * PGSIZE >= 0
    <3>1. k * PGSIZE \in Aligned
      BY <2>0, AlignedMultiple
    <3>2. k * PGSIZE >= 0
      BY <2>0, Sizes
    <3> QED BY <3>1, <3>2
  <2>2. V + k * PGSIZE \in Aligned
    BY <1>4, <2>1, AlignedSums
  <2> QED BY <1>2, <1>4, <2>1, <2>2 DEF Aligned
<1>6. va + PGSIZE <= V + U
  <2>1. k + 1 <= count
    BY <1>3
  <2>2. (k + 1) * PGSIZE <= count * PGSIZE
    BY <1>3, <2>1, Sizes
  <2> QED BY <1>2, <1>3, <1>5, <2>2, Sizes DEF Aligned
<1>7. UserPage(va)
  BY <1>3, <1>5, <1>6, Sizes DEF UserPage, Aligned
<1>8. b \in Nat /\ b <= R
  BY <1>3, <1>5 DEF Smaller
<1>9. Smaller(PGSIZE, R - b) \in 0..PGSIZE /\ PageOf(p.offset) + b \in Nat
  BY <1>3, <1>4, <1>8, Sizes DEF Smaller
<1>10. p.writable \in BOOLEAN
  BY DEF Phdr
<1> HIDE DEF b
<1>11. [offset |-> PageOf(p.offset) + b, read |-> Smaller(PGSIZE, R - b), writable |-> p.writable]
         \in PageRec
  BY <1>9, <1>10 DEF PageRec
<1> QED BY <1>1, <1>7, <1>11 DEF b, V, R

(* What the pages of a segment say of an address in it, where uint32_t     *)
(* does not cut the sums.                                                  *)
LEMMA InSegment ==
  ASSUME NEW p \in Phdr, ValidateSegment(p), RoundUp(Into(p) + p.memsz) < CountRange,
         NEW a \in p.vaddr..(p.vaddr + p.memsz - 1)
  PROVE  LET page == SegmentPages(p)[PageOf(a)]
         IN /\ PageOf(a) \in DOMAIN SegmentPages(p) /\ page.writable = p.writable
            /\ (IF a % PGSIZE < page.read THEN page.offset + (a % PGSIZE) ELSE Zero) =
                 IF a - p.vaddr < p.filesz THEN p.offset + a - p.vaddr ELSE Zero
<1> DEFINE R == ReadBytes(p)
           V == PageOf(p.vaddr)
           U == RoundUp(Into(p) + p.memsz)
           count == (R + ZeroBytes(p)) \div PGSIZE
           va == PageOf(a)
           b == Smaller(va - V, R)
           off == PageOf(p.offset)
<1>1. /\ p.vaddr \in Nat /\ p.memsz \in Nat /\ p.filesz \in Nat /\ p.offset \in Nat /\ a \in Int
      /\ p.vaddr <= a /\ a < p.vaddr + p.memsz
  BY Sizes DEF Phdr, Address
<1>2. /\ R \in Nat /\ count \in Nat /\ U \in Aligned /\ Into(p) + p.memsz <= U
      /\ count * PGSIZE = U /\ R = IF p.filesz > 0 THEN Into(p) + p.filesz ELSE 0
  BY SegmentSums
<1>3. /\ V \in Aligned /\ V <= p.vaddr /\ p.vaddr < V + PGSIZE /\ p.vaddr % PGSIZE = p.vaddr - V
      /\ off \in Aligned /\ p.offset % PGSIZE = p.offset - off
      /\ va \in Aligned /\ va <= a /\ a < va + PGSIZE /\ a % PGSIZE = a - va
  BY <1>1, PageOfIs
<1>4. p.offset - off = p.vaddr - V
  BY <1>3 DEF ValidateSegment
<1>5. Into(p) = p.vaddr - V
  BY <1>3 DEF Into
<1>6. va \in DOMAIN SegmentPages(p)
  <2>1. \E k \in 0..(count - 1) : va = V + k * PGSIZE
    <3> HIDE DEF R, V, U, count, va
    <3> DEFINE k == (va - V) \div PGSIZE
    <3>1. va - V \in Aligned /\ V \in Int /\ va \in Int /\ U \in Int
      BY <1>2, <1>3, AlignedSums DEF Aligned
    <3>2. va - V = PGSIZE * k + 0 /\ k \in Int
      BY <3>1, Sizes, Divided DEF Aligned
    <3>3. V <= va
      <4>1. va < V => va + PGSIZE <= V
        BY <1>3, Apart
      <4> QED BY <1>1, <1>3, <3>1, <4>1, Sizes
    <3>4. k \in Nat
      <4>1. \A n \in Nat : n \div PGSIZE \in Nat
        BY Sizes
      <4>2. va - V \in Nat
        BY <3>1, <3>3
      <4> QED BY <4>1, <4>2
    <3> HIDE DEF k
    <3>5. va - V < U
      BY <1>1, <1>2, <1>3, <1>5, <3>1, Sizes
    <3>6. k < count
      <4> SUFFICES ASSUME count <= k PROVE FALSE
        BY <1>2, <3>4
      <4>1. count * PGSIZE <= k * PGSIZE
        BY <1>2, <3>4, Sizes
      <4> QED BY <1>2, <3>1, <3>2, <3>4, <3>5, <4>1, Sizes
    <3>7. va = V + k * PGSIZE /\ k \in 0..(count - 1)
      BY <1>2, <3>1, <3>2, <3>4, <3>6, Sizes
    <3> QED BY <3>7
  <2> HIDE DEF va
  <2> QED BY <2>1 DEF SegmentPages
<1>7. SegmentPages(p)[va] = [offset |-> off + b, read |-> Smaller(PGSIZE, R - b),
                             writable |-> p.writable]
  BY <1>6, PagesOfSegment
<1>8. V <= va
  <2> HIDE DEF V, va
  <2>1. va < V => va + PGSIZE <= V
    BY <1>3, Apart
  <2> QED BY <1>1, <1>3, <2>1, Sizes DEF Aligned
<1> HIDE DEF R, V, U, count, va, off
<1>9. V \in Int /\ va \in Int /\ off \in Int
  BY <1>3 DEF Aligned
<1>10. CASE p.filesz = 0
  <2>1. R = 0
    BY <1>2, <1>10
  <2>2. b = 0
    BY <1>8, <1>9, <2>1 DEF Smaller
  <2>3. Smaller(PGSIZE, R - b) = 0
    BY <2>1, <2>2, Sizes DEF Smaller
  <2>4. ~(a % PGSIZE < 0) /\ ~(a - p.vaddr < p.filesz)
    BY <1>1, <1>3, <1>9, <1>10
  <2> HIDE DEF b
  <2> QED BY <1>6, <1>7, <2>3, <2>4 DEF va
<1>11. CASE p.filesz > 0
  <2>1. R = p.vaddr - V + p.filesz
    BY <1>2, <1>5, <1>11
  <2>2. ASSUME a - V < R
        PROVE  /\ a % PGSIZE < Smaller(PGSIZE, R - b)
               /\ off + b + (a % PGSIZE) = p.offset + a - p.vaddr
    <3>1. b = va - V
      BY <1>1, <1>2, <1>3, <1>9, <2>2 DEF Smaller
    <3> HIDE DEF b
    <3>2. a % PGSIZE < PGSIZE /\ a % PGSIZE < R - b /\ R - b \in Int /\ a % PGSIZE \in Int
      BY <1>1, <1>2, <1>3, <1>9, <2>2, <3>1, Sizes
    <3>3. off + b + (a % PGSIZE) = p.offset + a - p.vaddr
      BY <1>1, <1>3, <1>4, <1>9, <3>1
    <3> QED BY <3>2, <3>3 DEF Smaller
  <2>3. ASSUME a - V >= R PROVE ~(a % PGSIZE < Smaller(PGSIZE, R - b))
    BY <1>1, <1>2, <1>3, <1>8, <1>9, <2>3, Sizes DEF Smaller
  <2>4. a - V < R <=> a - p.vaddr < p.filesz
    BY <1>1, <1>9, <2>1
  <2> HIDE DEF b
  <2>5. a - V < R \/ a - V >= R
    BY <1>1, <1>2, <1>9
  <2>6. (IF a % PGSIZE < Smaller(PGSIZE, R - b) THEN off + b + (a % PGSIZE) ELSE Zero) =
          IF a - p.vaddr < p.filesz THEN p.offset + a - p.vaddr ELSE Zero
    BY <2>2, <2>3, <2>4, <2>5
  <2> QED BY <1>6, <1>7, <2>6 DEF va
<1> QED BY <1>1, <1>10, <1>11

(* A page of a segment can be read just when the file has every byte the   *)
(* header promises on it.                                                  *)
LEMMA WholeIs ==
  ASSUME NEW p \in Phdr, ValidateSegment(p), RoundUp(Into(p) + p.memsz) < CountRange,
         NEW a \in p.vaddr..(p.vaddr + p.memsz - 1)
  PROVE  Whole(SegmentPages(p)[PageOf(a)]) <=>
           ~\E b \in PageOf(a)..(PageOf(a) + PGSIZE - 1) :
              b - p.vaddr < p.filesz /\ OffsetAt(p, b) >= FileLength
<1> DEFINE R == ReadBytes(p)
           V == PageOf(p.vaddr)
           U == RoundUp(Into(p) + p.memsz)
           count == (R + ZeroBytes(p)) \div PGSIZE
           va == PageOf(a)
           b0 == Smaller(va - V, R)
           off == PageOf(p.offset)
           page == SegmentPages(p)[va]
           rest == \E b \in va..(va + PGSIZE - 1) : b - p.vaddr < p.filesz /\ OffsetAt(p, b) >= FileLength
<1>1. /\ p.vaddr \in Nat /\ p.memsz \in Nat /\ p.filesz \in Nat /\ p.offset \in Nat /\ a \in Int
      /\ p.vaddr <= a /\ a < p.vaddr + p.memsz
  BY Sizes DEF Phdr, Address
<1>2. R \in Nat /\ R = IF p.filesz > 0 THEN Into(p) + p.filesz ELSE 0
  BY SegmentSums
<1>3. /\ V \in Aligned /\ V <= p.vaddr /\ p.vaddr < V + PGSIZE /\ p.vaddr % PGSIZE = p.vaddr - V
      /\ off \in Aligned /\ p.offset % PGSIZE = p.offset - off
      /\ va \in Aligned /\ va <= a /\ a < va + PGSIZE
  BY <1>1, PageOfIs
<1>4. p.offset - off = p.vaddr - V /\ p.offset <= FileLength
  BY <1>3 DEF ValidateSegment
<1>5. Into(p) = p.vaddr - V
  BY <1>3 DEF Into
<1>6. va \in DOMAIN SegmentPages(p)
  BY InSegment
<1>7. page.offset = off + b0 /\ page.read = Smaller(PGSIZE, R - b0)
  BY <1>6, PagesOfSegment
<1>8. V <= va
  <2> HIDE DEF V, va
  <2>1. va < V => va + PGSIZE <= V
    BY <1>3, Apart
  <2> QED BY <1>1, <1>3, <2>1, Sizes DEF Aligned
<1> HIDE DEF R, V, U, count, va, off
<1>9. V \in Int /\ va \in Int /\ off \in Int /\ FileLength \in Int
  BY <1>3, LoadingAssumption DEF Aligned
<1>10. \A b \in va..(va + PGSIZE - 1) : b \in Int /\ OffsetAt(p, b) = off + b - V
  <2> SUFFICES ASSUME NEW x \in va..(va + PGSIZE - 1)
               PROVE  x \in Int /\ OffsetAt(p, x) = off + x - V
    OBVIOUS
  <2>1. x \in Int
    BY <1>9, Sizes
  <2>2. PICK o, v \in Int : o = p.offset /\ v = p.vaddr
    BY <1>1
  <2>3. o - off = v - V
    BY <1>4, <2>2
  <2>4. o + x - v = off + x - V
    BY <1>9, <2>1, <2>2, <2>3
  <2> QED BY <2>1, <2>2, <2>4 DEF OffsetAt
<1>11. CASE p.filesz = 0
  <2>1. b0 = 0 /\ R = 0
    BY <1>2, <1>8, <1>9, <1>11 DEF Smaller
  <2>2. page.read = 0
    BY <1>7, <2>1, Sizes DEF Smaller
  <2>3. ~rest
    BY <1>1, <1>4, <1>9, <1>10, <1>11
  <2> QED BY <2>2, <2>3 DEF Whole, va
<1>12. CASE p.filesz > 0
  <2>1. R = p.vaddr - V + p.filesz
    BY <1>2, <1>5, <1>12
  <2>2. CASE R <= va - V
    <3>1. b0 = R
      BY <1>2, <1>9, <2>2 DEF Smaller
    <3>2. page.read = 0
      BY <1>2, <1>7, <3>1, Sizes DEF Smaller
    <3>3. ~rest
      BY <1>1, <1>9, <1>10, <2>1, <2>2
    <3> QED BY <3>2, <3>3 DEF Whole, va
  <2>3. CASE va - V < R
    <3>1. b0 = va - V
      BY <1>2, <1>9, <2>3 DEF Smaller
    <3> DEFINE end == Smaller(va + PGSIZE, V + R)
    <3>2. end \in Int /\ end <= va + PGSIZE /\ end <= V + R /\ va < end
      BY <1>2, <1>9, <2>3, Sizes DEF Smaller
    <3>3. page.read = end - va /\ page.read # 0
      BY <1>2, <1>7, <1>9, <3>1, <3>2, Sizes DEF Smaller
    <3>4. page.offset + page.read = off - V + end
      BY <1>7, <1>9, <3>1, <3>2, <3>3
    <3>5. Whole(page) <=> off - V + end <= FileLength
      BY <3>3, <3>4 DEF Whole
    <3>6. \A b \in va..(va + PGSIZE - 1) : b - p.vaddr < p.filesz => b < end
      BY <1>1, <1>2, <1>9, <1>10, <2>1, Sizes DEF Smaller
    <3> HIDE DEF end
    <3>7. off - V + end <= FileLength => ~rest
      BY <1>9, <1>10, <3>2, <3>6, Sizes
    <3>8. ASSUME ~(off - V + end <= FileLength) PROVE rest
      <4>1. end - 1 \in va..(va + PGSIZE - 1)
        BY <1>9, <3>2, Sizes
      <4>2. end - 1 - p.vaddr < p.filesz
        BY <1>1, <1>2, <1>9, <2>1, <3>2
      <4>3. OffsetAt(p, end - 1) >= FileLength
        BY <1>9, <1>10, <3>2, <3>8, <4>1
      <4> QED BY <4>1, <4>2, <4>3
    <3> HIDE DEF rest, page
    <3>9. Whole(page) <=> ~rest
      BY <3>5, <3>7, <3>8
    <3> QED BY <3>9 DEF rest, page, va
  <2> QED BY <1>2, <1>9, <2>2, <2>3
<1> QED BY <1>1, <1>11, <1>12

-----------------------------------------------------------------------------
(* The inductive invariant.                                                *)

(* The line ends with a NUL, which strtok_r and strlen stop at.            *)
LineEnds == buffer \in Seq(Byte) /\ Len(buffer) >= 1 /\ buffer[Len(buffer)] = NUL

PagesTyped == \A va \in DOMAIN spt : UserPage(va) /\ spt[va] \in PageRec

(* The stack has all its pages from stack_bottom on.                       *)
StackThere ==
  /\ bottom \in Aligned /\ 2 * PGSIZE <= bottom /\ bottom < USER_STACK
  /\ \A va \in Aligned : bottom <= va /\ va < USER_STACK => va \in DOMAIN spt
OnStack == stage \in {"strings", "pointers", "ready"} => StackThere

(* Every page that is in memory could be read.                             *)
PresentWhole == \A va \in present : va \in DOMAIN spt /\ Whole(spt[va])
InMemory ==
  /\ stage \in {"create", "token", "open", "segments"} => present = {}
  /\ stage \in {"strings", "pointers", "ready"} => PresentWhole

(* The words that are on the stack have an address.                        *)
Addressed ==
  /\ stage \in {"strings", "pointers"} => next <= Len(argv)
  /\ stage = "strings" => \A i \in (next + 1)..Len(argv) : i \in DOMAIN address /\ address[i] \in Nat
  /\ stage = "pointers" => \A i \in 1..Len(argv) : address[i] \in Nat

(* Program header i has its pages.                                         *)
HeaderDone(i) ==
  LET p == image.phdrs[i]
  IN p.type = "load" =>
       /\ ValidateSegment(p)
       /\ \A va \in DOMAIN SegmentPages(p) : va \in DOMAIN spt /\ spt[va] = SegmentPages(p)[va]
HeadersDone ==
  /\ stage \in {"create", "token", "open"} => next = 1
  /\ stage = "segments" => next >= 1 /\ \A i \in DOMAIN image.phdrs : i < next => HeaderDone(i)
  /\ stage \in {"strings", "pointers", "ready"} => \A i \in DOMAIN image.phdrs : HeaderDone(i)

MemoryTyped == \A a \in DOMAIN memory : a \in Address /\ memory[a] \in Byte

(* What TypeOK says of the rest.                                           *)
Simple ==
  /\ stage \in {"create", "token", "open", "segments", "strings", "pointers", "ready", "failed",
                "killed", "panic", "overrun", "freed"}
  /\ command \in Commands /\ save \in 1..Len(buffer) /\ argv \in Seq(1..Len(buffer))
  /\ image \in Images /\ next \in Nat /\ oldStack \in OldStacks /\ bottom \in Address
  /\ present \subseteq Address /\ curr \in Nat /\ DOMAIN regs = {"rsp", "rdi", "rsi"}

LoadInv ==
  /\ Simple /\ LineEnds /\ PagesTyped /\ OnStack /\ InMemory /\ Addressed /\ HeadersDone /\ MemoryTyped

-----------------------------------------------------------------------------
(* A set of numbers has a least one.                                       *)
LEMMA Least ==
  ASSUME NEW S \in SUBSET Nat, S # {}
  PROVE  \E x \in S : \A y \in S : x <= y
<1> SUFFICES ASSUME \A x \in S : \E y \in S : y < x PROVE FALSE
  OBVIOUS
<1>1. PICK n \in S : TRUE
  OBVIOUS
<1> DEFINE D == {m \in 0..n : \E y \in S : y <= m}
           lower == [m \in D |-> m - 1]
<1>2. n \in D /\ D \in SUBSET (0..n)
  BY <1>1
<1>3. IsFiniteSet(D)
  <2>1. IsFiniteSet(0..n)
    BY <1>1, FS_Interval
  <2> HIDE DEF D
  <2> QED BY <1>2, <2>1, FS_Subset
<1>4. ASSUME NEW m \in D PROVE m - 1 \in D \ {n}
  <2>1. PICK y \in S : y <= m
    OBVIOUS
  <2>2. PICK z \in S : z < y
    OBVIOUS
  <2>3. m \in 0..n /\ n \in Nat /\ y \in Nat /\ z \in Nat
    BY <1>1
  <2>4. m - 1 \in 0..n /\ z <= m - 1 /\ m - 1 # n
    BY <2>1, <2>2, <2>3
  <2> QED BY <2>4
<1>5. lower \in Injection(D, D \ {n})
  <2>1. lower \in [D -> D \ {n}]
    BY <1>4
  <2>2. \A a, b \in D : lower[a] = lower[b] => a = b
    BY <1>2
  <2> QED BY <2>1, <2>2 DEF Injection, IsInjective
<1>6. /\ IsFiniteSet(D \ {n}) /\ Cardinality(D) \in Nat
      /\ Cardinality(D \ {n}) = Cardinality(D) - 1
  <2> HIDE DEF D
  <2> QED BY <1>2, <1>3, FS_RemoveElement, FS_CardinalityType
<1>7. Cardinality(D) <= Cardinality(D \ {n})
  BY <1>3, <1>5, <1>6, FS_Injection
<1> QED BY <1>6, <1>7

LEMMA LeastFrom ==
  ASSUME NEW S \in SUBSET Int, S # {}, NEW low \in Int, \A x \in S : low <= x
  PROVE  Min(S) \in S /\ \A y \in S : Min(S) <= y
<1> DEFINE T == {x - low : x \in S}
<1>1. T \in SUBSET Nat /\ T # {}
  <2>1. \A x \in S : x - low \in Nat
    OBVIOUS
  <2> QED BY <2>1
<1>2. PICK t \in T : \A u \in T : t <= u
  <2> HIDE DEF T
  <2> QED BY <1>1, Least
<1>3. PICK x \in S : t = x - low
  OBVIOUS
<1>4. \A y \in S : x <= y
  <2> TAKE y \in S
  <2>1. t <= y - low
    BY <1>2
  <2> QED BY <1>3, <2>1
<1> QED BY <1>4 DEF Min

(* strtok_r and strlen find what they look for, since the line ends.       *)
LEMMA FirstIs ==
  ASSUME LineEnds, NEW from \in 1..Len(buffer), NEW B, NUL \in B
  PROVE  /\ First(from, B) \in from..Len(buffer) /\ buffer[First(from, B)] \in B
         /\ \A q \in from..(First(from, B) - 1) : buffer[q] \notin B
<1> DEFINE S == {p \in from..Len(buffer) : buffer[p] \in B}
<1>1. Len(buffer) \in S /\ S \in SUBSET Int /\ \A x \in S : from <= x
  BY DEF LineEnds
<1>2. Min(S) \in S /\ \A y \in S : Min(S) <= y
  <2>1. S # {} /\ from \in Int
    BY <1>1
  <2> HIDE DEF S
  <2>2. PICK R : R = S
    OBVIOUS
  <2>3. R \in SUBSET Int /\ R # {} /\ \A x \in R : from <= x
    BY <1>1, <2>1, <2>2
  <2>4. Min(R) \in R /\ \A y \in R : Min(R) <= y
    BY <2>1, <2>3, LeastFrom
  <2> QED BY <2>2, <2>4
<1>3. PICK f : f = Min(S)
  OBVIOUS
<1>4. f \in from..Len(buffer) /\ buffer[f] \in B /\ Len(buffer) \in Nat
  BY <1>2, <1>3 DEF LineEnds
<1>5. ASSUME NEW q \in from..(f - 1), buffer[q] \in B PROVE FALSE
  <2>1. q \in from..Len(buffer) /\ q < f
    BY <1>4
  <2>2. q \in S
    BY <1>5, <2>1
  <2> HIDE DEF S
  <2>3. f <= q
    BY <1>2, <1>3, <2>2
  <2> QED BY <1>4, <2>1, <2>3
<1> QED BY <1>3, <1>4, <1>5 DEF First

(* A word of the line.                                                     *)
LEMMA StringIs ==
  ASSUME LineEnds, NEW p \in 1..Len(buffer)
  PROVE  StringAt(p) \in Seq(Byte)
<1>1. PICK f \in p..Len(buffer) : f = First(p, {NUL})
  BY FirstIs
<1> DEFINE n == f - 1
<1>2. p \in Nat /\ p >= 1 /\ n \in Int /\ n <= Len(buffer) /\ \A i \in p..n : i \in 1..Len(buffer)
  <2>1. Len(buffer) \in Nat
    BY DEF LineEnds
  <2>2. \A m \in Nat : \A q \in 1..m : \A g \in q..m :
          /\ q \in Nat /\ q >= 1 /\ g - 1 \in Int /\ g - 1 <= m
          /\ \A i \in q..(g - 1) : i \in 1..m
    OBVIOUS
  <2> QED BY <2>1, <2>2
<1>3. buffer \in Seq(Byte)
  BY DEF LineEnds
<1> HIDE DEF n
<1>4. SubSeq(buffer, p, n) \in Seq(Byte)
  BY <1>2, <1>3
<1> QED BY <1>1, <1>4 DEF StringAt, n

(* Entering pages of user space.                                           *)
Extended == \A va \in DOMAIN spt : va \in DOMAIN spt' /\ spt'[va] = spt[va]

LEMMA Allocated ==
  ASSUME PagesTyped, NEW pages, NEW then, AllocPages(pages, then),
         \A va \in DOMAIN pages : UserPage(va) /\ pages[va] \in PageRec
  PROVE  /\ PagesTyped' /\ Extended
         /\ \/ stage' = "panic"
            \/ stage' = then /\ \A va \in DOMAIN pages : va \in DOMAIN spt' /\ spt'[va] = pages[va]
<1>1. CASE DOMAIN pages \cap DOMAIN spt = {}
  <2>1. /\ stage' = then
        /\ spt' = [va \in DOMAIN spt \cup DOMAIN pages |->
                     IF va \in DOMAIN spt THEN spt[va] ELSE pages[va]]
    BY <1>1 DEF AllocPages
  <2>2. DOMAIN spt' = DOMAIN spt \cup DOMAIN pages
    BY <2>1
  <2>3. \A va \in DOMAIN spt : va \in DOMAIN spt' /\ spt'[va] = spt[va]
    BY <2>1, <2>2
  <2>4. \A va \in DOMAIN pages : va \in DOMAIN spt' /\ spt'[va] = pages[va]
    BY <1>1, <2>1, <2>2
  <2>5. PagesTyped'
    BY <2>2, <2>3, <2>4 DEF PagesTyped, UserPage
  <2> QED BY <2>1, <2>3, <2>4, <2>5 DEF Extended
<1>2. CASE DOMAIN pages \cap DOMAIN spt # {}
  BY <1>2 DEF AllocPages, PagesTyped, Extended, UserPage
<1> QED BY <1>1, <1>2

(* Pages that were entered for a header stay.                              *)
LEMMA HeaderStays ==
  ASSUME NEW i, HeaderDone(i), Extended, image' = image
  PROVE  HeaderDone(i)'
BY DEF HeaderDone, Extended

(* A fault loads the page, or grows the stack by a page that nothing else  *)
(* is on, or is the last thing the program does.                           *)
LEMMA FaultIs ==
  ASSUME LoadInv, stage \in {"strings", "pointers", "ready"}, NEW a \in Int, NEW fits,
         PageOf(a) \in DOMAIN spt \/ a < USER_STACK, Fault(a, fits)
  PROVE  /\ stage' \in {stage, "panic", "killed", "freed"} /\ PagesTyped' /\ Extended
         /\ bottom' \in Address /\ present' \subseteq Address
         /\ stage' = stage => StackThere' /\ PresentWhole'
<1> DEFINE known == PageOf(a) \in DOMAIN spt
<1>1. PagesTyped /\ StackThere /\ bottom \in Address /\ PresentWhole /\ present \subseteq Address
  BY DEF LoadInv, OnStack, InMemory, Simple
<1>2. \A va \in Int : UserPage(va) => va \in Address
  BY LoadingAssumption, Sizes DEF UserPage, Address
<1>3. CASE known /\ Whole(spt[PageOf(a)])
  <2>1. stage' = stage /\ spt' = spt /\ bottom' = bottom /\ present' = present \cup {PageOf(a)}
    BY <1>3 DEF Fault
  <2>2. PageOf(a) \in Address
    BY <1>1, <1>2, <1>3 DEF PagesTyped, UserPage, Aligned
  <2>3. PagesTyped' /\ Extended /\ StackThere'
    BY <1>1, <2>1 DEF PagesTyped, UserPage, Extended, StackThere
  <2>4. PresentWhole'
    BY <1>1, <1>3, <2>1 DEF PresentWhole, Whole
  <2> QED BY <1>1, <2>1, <2>2, <2>3, <2>4
<1>4. CASE /\ ~(known /\ Whole(spt[PageOf(a)]))
           /\ ~(fits /\ USER_STACK - StackRange <= a /\ a <= USER_STACK)
  <2>1. stage' = "killed" /\ spt' = spt /\ bottom' = bottom /\ present' = present
    BY <1>4 DEF Fault
  <2>2. stage' # stage
    BY <2>1
  <2> QED BY <1>1, <2>1, <2>2 DEF PagesTyped, UserPage, Extended
<1>5. CASE /\ ~(known /\ Whole(spt[PageOf(a)]))
           /\ fits /\ USER_STACK - StackRange <= a /\ a <= USER_STACK
  <2> DEFINE pages == [va \in {bottom - PGSIZE} |-> StackPage]
             then == IF known THEN "freed" ELSE stage
  <2>1. /\ AllocPages(pages, then) /\ bottom' = bottom - PGSIZE
        /\ present' = present \cup {bottom - PGSIZE}
    BY <1>5 DEF Fault
  <2>2. /\ PageOf(a) \in Aligned /\ PageOf(a) <= a /\ a < PageOf(a) + PGSIZE
        /\ PageOf(a) \in Int /\ bottom \in Aligned /\ bottom \in Int
        /\ 2 * PGSIZE <= bottom /\ bottom < USER_STACK
    BY <1>1, PageOfIs DEF StackThere, Aligned
  <2>3. PGSIZE \in Aligned /\ PGSIZE + PGSIZE \in Aligned
    BY PageAligned, AlignedSums
  <2>4. bottom - PGSIZE \in Aligned /\ bottom - PGSIZE \in Int
    BY <2>2, <2>3, AlignedSums, Sizes
  <2>5. UserPage(bottom - PGSIZE) /\ bottom - PGSIZE \in Address
    <3>1. USER_STACK <= KERN_BASE /\ KERN_BASE <= AddressRange
      BY LoadingAssumption
    <3> QED BY <2>2, <2>4, <3>1, Sizes DEF UserPage, Address
  <2>6. StackPage \in PageRec /\ Whole(StackPage)
    BY Sizes DEF StackPage, PageRec, Whole
  <2>7. PICK s : s = then
    OBVIOUS
  <2>8. PICK P : P = pages
    OBVIOUS
  <2>9. DOMAIN P = {bottom - PGSIZE} /\ P[bottom - PGSIZE] = StackPage
    BY <2>8
  <2>10. /\ PagesTyped' /\ Extended
         /\ \/ stage' = "panic"
            \/ stage' = s /\ \A va \in DOMAIN P : va \in DOMAIN spt' /\ spt'[va] = P[va]
    <3>1. \A va \in DOMAIN P : UserPage(va) /\ P[va] \in PageRec
      BY <2>5, <2>6, <2>9
    <3> QED BY <1>1, <2>1, <2>7, <2>8, <3>1, Allocated
  <2>11. present' \subseteq Address
    BY <1>1, <2>1, <2>5
  <2>12. ASSUME stage' = stage PROVE StackThere' /\ PresentWhole'
    <3>1. ~known /\ bottom - PGSIZE \in DOMAIN spt' /\ spt'[bottom - PGSIZE] = StackPage
      <4>1. stage' # "panic" /\ stage # "freed"
        BY <2>12
      <4> QED BY <2>7, <2>9, <2>10, <2>12, <4>1
    <3>2. PageOf(a) < bottom
      BY <1>1, <2>2, <3>1, Sizes DEF StackThere
    <3>3. PageOf(a) + PGSIZE <= bottom
      BY <2>2, <3>2, Apart
    <3>4. 2 * PGSIZE <= bottom - PGSIZE
      <4>1. 2 * PGSIZE <= a
        BY <1>5, LoadingAssumption, Sizes
      <4>2. PageOf(a) < PGSIZE + PGSIZE => PageOf(a) + PGSIZE <= PGSIZE + PGSIZE
        BY <2>2, <2>3, Apart
      <4> QED BY <2>2, <3>3, <4>1, <4>2, Sizes
    <3>5. ASSUME NEW va \in Aligned, bottom - PGSIZE <= va, va < USER_STACK
          PROVE  va \in DOMAIN spt'
      <4>1. va < bottom => va + PGSIZE <= bottom
        BY <2>2, Apart
      <4>2. va \in Int
        BY DEF Aligned
      <4>3. va = bottom - PGSIZE \/ bottom <= va
        BY <2>2, <3>5, <4>1, <4>2, Sizes
      <4>4. bottom <= va => va \in DOMAIN spt
        BY <1>1, <3>5 DEF StackThere
      <4> QED BY <2>10, <3>1, <4>3, <4>4 DEF Extended
    <3>6. bottom - PGSIZE < USER_STACK
      BY <2>2, Sizes
    <3>7. StackThere'
      BY <2>1, <2>4, <3>4, <3>5, <3>6 DEF StackThere
    <3>8. PresentWhole'
      <4> SUFFICES ASSUME NEW va \in present' PROVE va \in DOMAIN spt' /\ Whole(spt'[va])
        BY DEF PresentWhole, Whole
      <4>1. va \in present \/ va = bottom - PGSIZE
        BY <2>1
      <4>2. va \in present => va \in DOMAIN spt' /\ Whole(spt'[va])
        BY <1>1, <2>10 DEF PresentWhole, Extended
      <4> QED BY <2>6, <3>1, <4>1, <4>2
    <3> QED BY <3>7, <3>8
  <2>13. stage' \in {stage, "panic", "freed"}
    BY <2>7, <2>10
  <2> QED BY <2>1, <2>5, <2>10, <2>11, <2>12, <2>13
<1> QED BY <1>3, <1>4, <1>5

-----------------------------------------------------------------------------
(* The steps.                                                              *)

(* The program headers are a sequence, and none is beyond phnum.           *)
LEMMA Headers ==
  ASSUME image \in Images
  PROVE  /\ DOMAIN image.phdrs = 1..Len(image.phdrs) /\ Len(image.phdrs) \in Nat
         /\ image.phnum \in Nat /\ Len(image.phdrs) <= image.phnum
         /\ \A i \in 1..Len(image.phdrs) : image.phdrs[i] \in Phdr
<1>1. image.phdrs \in Seq(Phdr) /\ image.phnum \in Nat /\ Len(image.phdrs) <= image.phnum
  BY LoadingAssumption
<1> QED BY <1>1

LEMMA SimpleInit == LoadInit => LoadInv
<1> SUFFICES ASSUME LoadInit PROVE LoadInv
  OBVIOUS
<1>1. command \in Seq(Byte \ {NUL}) /\ NUL \in Byte
  BY LoadingAssumption, Sizes DEF LoadInit, Byte, NUL
<1>2. buffer \in Seq(Byte) /\ Len(buffer) = Len(command) + 1 /\ buffer[Len(command) + 1] = NUL
  <2>1. buffer = Append(command, NUL)
    BY DEF LoadInit
  <2>2. command \in Seq(Byte)
    BY <1>1
  <2> QED BY <1>1, <2>1, <2>2
<1>3. Len(command) \in Nat
  BY <1>1
<1>4. LineEnds
  BY <1>2, <1>3 DEF LineEnds
<1>5. Simple
  <2>1. 1 \in 1..Len(buffer) /\ 0 \in Address
    BY <1>2, <1>3, LoadingAssumption, Sizes DEF Address
  <2> QED BY <2>1 DEF Simple, LoadInit
<1>6. /\ stage = "create" /\ next = 1 /\ DOMAIN spt = {} /\ DOMAIN memory = {} /\ present = {}
  BY DEF LoadInit
<1> QED BY <1>4, <1>5, <1>6
     DEF LoadInv, PagesTyped, OnStack, InMemory, Addressed, HeadersDone, MemoryTyped

(* Before the executable is read there are no pages to keep.               *)
LEMMA CreateKeeps == ASSUME LoadInv, Create PROVE LoadInv'
<1> USE DEF LoadInv, Create, lineVars, fileVars, pageVars, stackVars
<1>1. Simple'
  BY DEF Simple
<1>2. LineEnds' /\ PagesTyped' /\ MemoryTyped'
  BY DEF LineEnds, PagesTyped, MemoryTyped, UserPage
<1>3. stage' \in {"token", "failed"} /\ next' = 1 /\ present' = {}
  BY DEF HeadersDone, InMemory
<1> QED BY <1>1, <1>2, <1>3 DEF OnStack, InMemory, Addressed, HeadersDone

LEMMA OpenKeeps == ASSUME LoadInv, Open PROVE LoadInv'
<1> USE DEF LoadInv, Open, lineVars, fileVars, pageVars, stackVars
<1>1. Simple'
  BY DEF Simple
<1>2. LineEnds' /\ PagesTyped' /\ MemoryTyped'
  BY DEF LineEnds, PagesTyped, MemoryTyped, UserPage
<1>3. stage' \in {"segments", "failed"} /\ next' = 1 /\ image' = image /\ present' = {}
  BY DEF HeadersDone, InMemory
<1>4. \A i \in DOMAIN image'.phdrs : ~(i < next')
  BY <1>1, <1>3, Headers DEF Simple
<1> QED BY <1>1, <1>2, <1>3, <1>4 DEF OnStack, InMemory, Addressed, HeadersDone

LEMMA TokenKeeps == ASSUME LoadInv, Token PROVE LoadInv'
<1> DEFINE start == First(save, Byte \ {Space})
           end == First(start, {Space, NUL})
<1>1. /\ LineEnds /\ save \in 1..Len(buffer) /\ argv \in Seq(1..Len(buffer)) /\ Len(buffer) \in Nat
  BY DEF LoadInv, Simple, LineEnds
<1>2. NUL \in Byte /\ NUL \in Byte \ {Space} /\ NUL \in {Space, NUL}
  BY LoadingAssumption, Sizes DEF Byte, NUL
<1>3. start \in 1..Len(buffer)
  <2>1. start \in save..Len(buffer)
    BY <1>1, <1>2, FirstIs
  <2> HIDE DEF start
  <2> QED BY <1>1, <2>1
<1>4. end \in 1..Len(buffer) /\ (buffer[end] = Space \/ buffer[end] = NUL)
  <2> HIDE DEF start
  <2>1. end \in start..Len(buffer) /\ buffer[end] \in {Space, NUL}
    BY <1>1, <1>2, <1>3, FirstIs
  <2> HIDE DEF end
  <2> QED BY <1>1, <1>3, <2>1
<1>5. \/ stage' = "open" /\ save' = start /\ UNCHANGED <<buffer, argv>>
      \/ /\ argv' = Append(argv, start) /\ buffer' = [buffer EXCEPT ![end] = NUL]
         /\ save' = IF buffer[end] = NUL THEN end ELSE end + 1
         /\ stage' \in {"overrun", "token"}
  BY DEF Token
<1> HIDE DEF start, end
<1>6. LineEnds' /\ Len(buffer') = Len(buffer) /\ save' \in 1..Len(buffer)
      /\ argv' \in Seq(1..Len(buffer)) /\ stage' \in {"open", "overrun", "token"}
  <2>1. CASE stage' = "open" /\ save' = start /\ UNCHANGED <<buffer, argv>>
    BY <1>1, <1>3, <2>1 DEF LineEnds
  <2>2. CASE /\ argv' = Append(argv, start) /\ buffer' = [buffer EXCEPT ![end] = NUL]
             /\ save' = IF buffer[end] = NUL THEN end ELSE end + 1
             /\ stage' \in {"overrun", "token"}
    <3>1. buffer' \in Seq(Byte) /\ Len(buffer') = Len(buffer)
      BY <1>1, <1>2, <1>4, <2>2 DEF LineEnds
    <3>2. buffer'[Len(buffer)] = NUL
      BY <1>1, <2>2 DEF LineEnds
    <3>3. buffer[end] # NUL => end # Len(buffer)
      BY <1>1 DEF LineEnds
    <3>4. save' \in 1..Len(buffer)
      BY <1>1, <1>4, <2>2, <3>3
    <3>5. argv' \in Seq(1..Len(buffer))
      BY <1>1, <1>3, <2>2
    <3> QED BY <1>1, <2>2, <3>1, <3>2, <3>4, <3>5 DEF LineEnds
  <2> QED BY <1>5, <2>1, <2>2
<1>7. /\ UNCHANGED <<command, image, next, spt, present, oldStack, bottom, curr, address, memory, regs>>
      /\ stage = "token"
  BY DEF Token, fileVars, pageVars, stackVars
<1>8. Simple'
  BY <1>6, <1>7 DEF LoadInv, Simple
<1>9. PagesTyped' /\ MemoryTyped'
  BY <1>7 DEF LoadInv, PagesTyped, MemoryTyped, UserPage
<1>10. next' = 1 /\ present' = {}
  BY <1>7 DEF LoadInv, HeadersDone, InMemory
<1> QED BY <1>6, <1>8, <1>9, <1>10 DEF LoadInv, OnStack, InMemory, Addressed, HeadersDone

LEMMA HeaderKeeps == ASSUME LoadInv, ProgramHeader PROVE LoadInv'
<1> USE DEF lineVars, stackVars
<1>1. /\ stage = "segments" /\ next' = next + 1 /\ next \in Nat /\ image \in Images
      /\ present' = {}
      /\ UNCHANGED <<command, buffer, save, argv, image, present, oldStack, bottom, curr, address,
                     memory, regs>>
  BY DEF LoadInv, Simple, InMemory, ProgramHeader
<1>2. PagesTyped /\ \A i \in DOMAIN image.phdrs : i < next => HeaderDone(i)
  BY <1>1 DEF LoadInv, HeadersDone
<1>n. PICK n : n = next
  OBVIOUS
<1>3. /\ PagesTyped' /\ Extended /\ stage' \in {"segments", "failed", "panic"}
      /\ stage' = "segments" => n \in DOMAIN image.phdrs /\ HeaderDone(n)'
  <2>1. CASE ~(next <= Len(image.phdrs))
    <3>1. stage' = "failed" /\ spt' = spt
      BY <2>1 DEF ProgramHeader
    <3> QED BY <1>2, <3>1 DEF PagesTyped, UserPage, Extended
  <2>2. CASE next <= Len(image.phdrs)
    <3> DEFINE p == image.phdrs[n]
    <3>0. n \in DOMAIN image.phdrs /\ p \in Phdr
      <4>1. next >= 1
        BY <1>1 DEF LoadInv, HeadersDone
      <4>2. n \in 1..Len(image.phdrs)
        BY <1>1, <1>n, <2>2, <4>1, Headers
      <4> QED BY <1>1, <4>2, Headers
    <3>1. CASE p.type # "load"
      <4>1. stage' \in {"segments", "failed"} /\ spt' = spt
        BY <1>1, <1>n, <2>2, <3>1 DEF ProgramHeader
      <4> QED BY <1>1, <1>2, <3>0, <3>1, <4>1 DEF PagesTyped, UserPage, Extended, HeaderDone
    <3>2. CASE p.type = "load" /\ ~ValidateSegment(p)
      <4>1. stage' = "failed" /\ spt' = spt
        BY <1>n, <2>2, <3>2 DEF ProgramHeader
      <4> QED BY <1>2, <4>1 DEF PagesTyped, UserPage, Extended
    <3>3. CASE p.type = "load" /\ ValidateSegment(p)
      <4>1. AllocPages(SegmentPages(p), "segments")
        BY <1>n, <2>2, <3>3 DEF ProgramHeader
      <4>2. PICK q : q = p
        OBVIOUS
      <4>3. \A va \in DOMAIN SegmentPages(q) : UserPage(va) /\ SegmentPages(q)[va] \in PageRec
        BY <3>0, <3>3, <4>2, PagesOfSegment
      <4>4. /\ PagesTyped' /\ Extended
            /\ \/ stage' = "panic"
               \/ /\ stage' = "segments"
                  /\ \A va \in DOMAIN SegmentPages(q) :
                       va \in DOMAIN spt' /\ spt'[va] = SegmentPages(q)[va]
        BY <1>2, <4>1, <4>2, <4>3, Allocated
      <4> QED BY <1>1, <3>0, <3>3, <4>2, <4>4 DEF HeaderDone
    <3> QED BY <3>1, <3>2, <3>3
  <2> QED BY <2>1, <2>2
<1>4. Simple'
  BY <1>1, <1>3 DEF LoadInv, Simple
<1>5. LineEnds' /\ MemoryTyped'
  BY <1>1 DEF LoadInv, LineEnds, MemoryTyped
<1>6. stage' = "segments" =>
        next' >= 1 /\ \A i \in DOMAIN image'.phdrs : i < next' => HeaderDone(i)'
  <2> SUFFICES ASSUME stage' = "segments", NEW i \in DOMAIN image.phdrs, i < next + 1
               PROVE  HeaderDone(i)'
    BY <1>1
  <2>1. i \in Int
    BY <1>1, Headers
  <2>2. CASE i = n
    BY <1>3, <2>2
  <2>3. CASE i < next
    <3>1. HeaderDone(i)
      BY <1>2, <2>3
    <3> QED BY <1>1, <1>3, <3>1, HeaderStays
  <2> QED BY <1>1, <1>n, <2>1, <2>2, <2>3
<1>7. HeadersDone'
  BY <1>3, <1>6 DEF HeadersDone
<1> QED BY <1>1, <1>3, <1>4, <1>5, <1>7 DEF LoadInv, OnStack, InMemory, Addressed

LEMMA StackKeeps == ASSUME LoadInv, SetupStack PROVE LoadInv'
<1> USE DEF lineVars, stackVars
<1>1. /\ stage = "segments" /\ next > image.phnum /\ image \in Images
      /\ bottom' = USER_STACK - PGSIZE /\ next' = Len(argv) /\ present' = {USER_STACK - PGSIZE}
      /\ UNCHANGED <<command, buffer, save, argv, image, oldStack, curr, address, memory, regs>>
  BY DEF LoadInv, Simple, InMemory, SetupStack
<1>2. /\ PagesTyped /\ next \in Nat
      /\ \A i \in DOMAIN image.phdrs : i < next => HeaderDone(i)
  BY <1>1 DEF LoadInv, HeadersDone, Simple
<1>3. argv \in Seq(1..Len(buffer)) /\ Len(argv) \in Nat
  BY DEF LoadInv, Simple
<1> DEFINE page == USER_STACK - PGSIZE
           pages == [va \in {page} |-> StackPage]
<1>4. UserPage(page) /\ page \in Address /\ page < USER_STACK /\ 2 * PGSIZE <= page
  <2>1. USER_STACK \in Aligned /\ 2 * PGSIZE + PGSIZE <= USER_STACK
    BY LoadingAssumption, Sizes DEF Aligned
  <2>2. page \in Aligned
    BY <2>1, PageAligned, AlignedSums
  <2> QED BY <2>1, <2>2, LoadingAssumption, Sizes DEF UserPage, Address
<1>5. /\ PagesTyped' /\ Extended
      /\ \/ stage' = "panic"
         \/ stage' = "strings" /\ page \in DOMAIN spt' /\ spt'[page] = StackPage
  <2>1. AllocPages(pages, "strings")
    BY DEF SetupStack
  <2>2. StackPage \in PageRec
    BY Sizes DEF StackPage, PageRec
  <2>3. DOMAIN pages = {page} /\ pages[page] = StackPage
    OBVIOUS
  <2> HIDE DEF pages, page
  <2> QED BY <1>2, <1>4, <2>1, <2>2, <2>3, Allocated
<1>6. Simple'
  BY <1>1, <1>3, <1>4, <1>5 DEF LoadInv, Simple
<1>7. LineEnds' /\ MemoryTyped'
  BY <1>1 DEF LoadInv, LineEnds, MemoryTyped
<1>8. OnStack'
  <2> SUFFICES ASSUME page \in DOMAIN spt' PROVE StackThere'
    BY <1>5 DEF OnStack
  <2>1. ASSUME NEW va \in Aligned, page <= va, va < USER_STACK PROVE va = page
    <3>1. page < va => page + PGSIZE <= va
      BY <1>4, Apart DEF UserPage
    <3>2. va \in Int /\ page \in Int
      BY Sizes DEF Aligned
    <3> QED BY <2>1, <3>1, <3>2, Sizes
  <2>2. page \in Aligned /\ 2 * PGSIZE <= page /\ page < USER_STACK
    BY <1>4, Sizes DEF UserPage
  <2> HIDE DEF page
  <2>3. bottom' = page
    BY <1>1 DEF page
  <2> QED BY <2>1, <2>2, <2>3 DEF StackThere
<1>9. Addressed'
  BY <1>1, <1>3, <1>5 DEF Addressed
<1>10. HeadersDone'
  <2>1. ASSUME NEW i \in DOMAIN image.phdrs PROVE HeaderDone(i)'
    <3>1. i < next
      BY <1>1, <1>2, Headers
    <3>2. HeaderDone(i)
      BY <1>2, <3>1
    <3> QED BY <1>1, <1>5, <3>2, HeaderStays
  <2> QED BY <1>1, <1>5, <2>1 DEF HeadersDone
<1>11. InMemory'
  <2>1. Whole(StackPage) /\ present' = {page}
    BY <1>1 DEF Whole, StackPage
  <2> HIDE DEF page
  <2> QED BY <1>5, <2>1 DEF InMemory, PresentWhole, Whole
<1> QED BY <1>5, <1>6, <1>7, <1>8, <1>9, <1>10, <1>11 DEF LoadInv

-----------------------------------------------------------------------------
(* Pushing onto the stack.                                                 *)

(* What the kernel cannot write is below the top of the stack.             *)
LEMMA MissingIs ==
  ASSUME curr \in Nat, NEW n \in Nat, Missing(Top - n, n) # {}
  PROVE  LET b == Min(Missing(Top - n, n))
         IN b \in Int /\ b < USER_STACK
<1> DEFINE M == Missing(Top - n, n)
<1>1. Top \in Int /\ Top <= USER_STACK
  BY Sizes DEF Top
<1>2. \A b \in M : b \in Int /\ Top - n <= b /\ b < USER_STACK
  <2>1. PICK t \in Int : t = Top /\ t <= USER_STACK
    BY <1>1
  <2>2. M = {b \in (t - n)..(t - n + n - 1) : PageOf(b) \notin present}
    BY <2>1 DEF Missing
  <2>3. \A b \in (t - n)..(t - n + n - 1) : b \in Int /\ t - n <= b /\ b < USER_STACK
    BY <2>1, Sizes
  <2> HIDE DEF M
  <2> QED BY <2>1, <2>2, <2>3
<1>3. Top - n \in Int
  BY <1>1
<1> HIDE DEF M
<1>4. M \in SUBSET Int /\ \A b \in M : Top - n <= b
  BY <1>2
<1>5. M # {}
  BY DEF M
<1>6. Min(M) \in M
  BY <1>3, <1>4, <1>5, LeastFrom
<1> QED BY <1>2, <1>6 DEF M

(* A fault leaves what has been loaded, whatever was to be pushed.         *)
LEMMA FaultKeeps ==
  ASSUME LoadInv, stage \in {"strings", "pointers"}, NEW n \in Nat, Missing(Top - n, n) # {},
         KernelFault(Min(Missing(Top - n, n))), DOMAIN regs' = DOMAIN regs,
         UNCHANGED <<command, buffer, save, argv, image, next, oldStack, curr, address, memory>>
  PROVE  LoadInv'
<1>1. curr \in Nat
  BY DEF LoadInv, Simple
<1>2. PICK b \in Int : b = Min(Missing(Top - n, n)) /\ b < USER_STACK
  BY <1>1, MissingIs
<1>3. /\ stage' \in {stage, "panic", "killed", "freed"} /\ PagesTyped' /\ Extended
      /\ bottom' \in Address /\ present' \subseteq Address
      /\ stage' = stage => StackThere' /\ PresentWhole'
  BY <1>2, FaultIs DEF KernelFault
<1>4. Simple'
  BY <1>3 DEF LoadInv, Simple
<1>5. LineEnds' /\ MemoryTyped'
  BY DEF LoadInv, LineEnds, MemoryTyped
<1>6. OnStack' /\ InMemory' /\ Addressed'
  BY <1>3 DEF LoadInv, OnStack, InMemory, Addressed
<1>7. HeadersDone'
  <2>1. ASSUME NEW i \in DOMAIN image.phdrs PROVE HeaderDone(i)'
    <3>1. HeaderDone(i)
      BY DEF LoadInv, HeadersDone
    <3> QED BY <1>3, <3>1, HeaderStays
  <2> QED BY <1>3, <2>1 DEF HeadersDone
<1> QED BY <1>3, <1>4, <1>5, <1>6, <1>7 DEF LoadInv

(* What is written lies in user space.                                     *)
LEMMA Written ==
  ASSUME LoadInv, stage \in {"strings", "pointers"}, NEW bytes \in Seq(Byte), Len(bytes) > 0,
         Missing(Top - Len(bytes), Len(bytes)) = {},
         memory' = [b \in DOMAIN memory \cup (Top - Len(bytes))..(Top - 1) |->
                      IF b \in (Top - Len(bytes))..(Top - 1)
                      THEN bytes[b - (Top - Len(bytes)) + 1] ELSE memory[b]]
  PROVE  MemoryTyped' /\ Top - Len(bytes) \in Nat
<1>1. PICK a \in Int : a = Top - Len(bytes)
  <2>1. Top \in Int /\ Len(bytes) \in Nat
    BY Sizes DEF LoadInv, Simple, Top
  <2> QED BY <2>1
<1>2. Len(bytes) \in Nat /\ Top \in Int /\ Top <= USER_STACK
  BY Sizes DEF LoadInv, Simple, Top
<1>3. PICK t \in Int : t = Top
  BY <1>2
<1>4. a = t - Len(bytes) /\ t <= USER_STACK
  BY <1>1, <1>2, <1>3
<1>5. ASSUME NEW b \in a..(t - 1) PROVE b \in Nat /\ b \in Address
  <2>1. b \in Int /\ a <= b /\ b <= a + Len(bytes) - 1 /\ b < USER_STACK
    BY <1>2, <1>4, Sizes
  <2>2. PageOf(b) \in DOMAIN spt
    <3>1. PageOf(b) \in present
      BY <1>1, <1>2, <2>1 DEF Missing
    <3> QED BY <3>1 DEF LoadInv, InMemory, PresentWhole
  <2>3. PageOf(b) >= PGSIZE /\ PageOf(b) <= b /\ PageOf(b) \in Int
    BY <2>1, <2>2, PageOfIs DEF LoadInv, PagesTyped, UserPage, Aligned
  <2>4. b < AddressRange
    BY <2>1, LoadingAssumption, Sizes
  <2> QED BY <2>1, <2>3, <2>4, Sizes DEF Address
<1>6. a \in Nat
  <2>1. a \in a..(t - 1)
    BY <1>2, <1>4
  <2> QED BY <1>5, <2>1
<1>7. memory' = [b \in DOMAIN memory \cup a..(t - 1) |->
                   IF b \in a..(t - 1) THEN bytes[b - a + 1] ELSE memory[b]]
  BY <1>1, <1>3
<1>8. ASSUME NEW b \in a..(t - 1) PROVE bytes[b - a + 1] \in Byte
  <2>1. b - a + 1 \in 1..Len(bytes)
    BY <1>2, <1>4
  <2> QED BY <2>1
<1>9. ASSUME NEW b \in DOMAIN memory' PROVE b \in Address /\ memory'[b] \in Byte
  <2>1. CASE b \in a..(t - 1)
    BY <1>5, <1>7, <1>8, <2>1
  <2>2. CASE b \notin a..(t - 1)
    BY <1>7, <2>2 DEF LoadInv, MemoryTyped
  <2> QED BY <2>1, <2>2
<1> QED BY <1>1, <1>6, <1>9 DEF MemoryTyped

(* The bytes that are pushed.                                              *)
LEMMA ZerosAre ==
  ASSUME NEW n \in Nat
  PROVE  Zeros(n) \in Seq(Byte) /\ Len(Zeros(n)) = n
<1>1. 0 \in Byte
  BY Sizes DEF Byte
<1> QED BY <1>1 DEF Zeros

LEMMA BytesAre ==
  ASSUME NEW v \in Nat
  PROVE  Bytes(v) \in Seq(Byte) /\ Len(Bytes(v)) = WordSize
<1>1. ASSUME NEW k \in 1..WordSize PROVE (v \div (ByteSize ^ (k - 1))) % ByteSize \in Byte
  <2>1. k - 1 \in 0..WordSize
    BY Sizes
  <2>2. PICK d \in Nat \ {0} : d = ByteSize ^ (k - 1)
    BY <2>1, LoadingAssumption
  <2>3. v \div d \in Int
    BY <2>2, Divided
  <2>4. \A m \in Int : m % ByteSize \in 0..(ByteSize - 1)
    BY Sizes, Divided
  <2>5. (v \div d) % ByteSize \in 0..(ByteSize - 1)
    BY <2>3, <2>4
  <2> QED BY <2>2, <2>5 DEF Byte
<1>2. Bytes(v) = [k \in 1..WordSize |-> (v \div (ByteSize ^ (k - 1))) % ByteSize]
  BY DEF Bytes
<1>3. Bytes(v) \in [1..WordSize -> Byte]
  BY <1>1, <1>2
<1>4. WordSize \in Nat
  BY Sizes
<1> QED BY <1>3, <1>4

(* What is loaded stays when something has been pushed.                    *)
LEMMA WriteKeeps ==
  ASSUME LoadInv, stage \in {"strings", "pointers"}, stage' \in {"strings", "pointers", "ready"},
         curr' \in Nat, next' \in Nat, MemoryTyped', Addressed', DOMAIN regs' = DOMAIN regs,
         UNCHANGED <<command, buffer, save, argv, image, spt, present, oldStack, bottom>>
  PROVE  LoadInv'
<1>1. Simple'
  BY DEF LoadInv, Simple
<1>2. LineEnds' /\ PagesTyped'
  BY DEF LoadInv, LineEnds, PagesTyped, UserPage
<1>3. OnStack' /\ InMemory'
  BY DEF LoadInv, OnStack, StackThere, InMemory, PresentWhole, Whole
<1>4. HeadersDone'
  <2>1. ASSUME NEW i \in DOMAIN image.phdrs PROVE HeaderDone(i)'
    <3>1. HeaderDone(i) /\ Extended
      BY DEF LoadInv, HeadersDone, Extended
    <3> QED BY <3>1, HeaderStays
  <2> QED BY <2>1 DEF HeadersDone
<1> QED BY <1>1, <1>2, <1>3, <1>4 DEF LoadInv

LEMMA StringKeeps == ASSUME LoadInv, PushString PROVE LoadInv'
<1>1. /\ stage = "strings" /\ next \in Nat /\ next > 0 /\ curr \in Nat /\ next <= Len(argv)
      /\ argv \in Seq(1..Len(buffer))
      /\ UNCHANGED <<command, buffer, save, argv, image, oldStack, regs>>
  BY DEF LoadInv, Simple, Addressed, PushString, lineVars
<1>2. StringAt(argv[next]) \in Seq(Byte)
  <2>1. argv[next] \in 1..Len(buffer)
    BY <1>1
  <2> QED BY <2>1, StringIs DEF LoadInv
<1>3. NUL \in Byte
  BY Sizes DEF Byte, NUL
<1>4. PICK s \in Seq(Byte) : s = Append(StringAt(argv[next]), NUL) /\ Len(s) > 0
  <2>1. Append(StringAt(argv[next]), NUL) \in Seq(Byte)
    BY <1>2, <1>3
  <2>2. Len(Append(StringAt(argv[next]), NUL)) > 0
    BY <1>2, LenProperties
  <2> QED BY <2>1, <2>2
<1>5. Len(s) \in Nat
  BY <1>4
<1>6. CASE Missing(Top - Len(s), Len(s)) # {}
  <2>1. /\ KernelFault(Min(Missing(Top - Len(s), Len(s))))
        /\ UNCHANGED <<next, curr, address, memory>>
    BY <1>4, <1>6 DEF PushString, Push
  <2> QED BY <1>1, <1>5, <1>6, <2>1, FaultKeeps
<1>7. CASE Missing(Top - Len(s), Len(s)) = {}
  <2>1. /\ curr' = curr + Len(s)
        /\ memory' = [b \in DOMAIN memory \cup (Top - Len(s))..(Top - 1) |->
                        IF b \in (Top - Len(s))..(Top - 1)
                        THEN s[b - (Top - Len(s)) + 1] ELSE memory[b]]
        /\ address' = [i \in DOMAIN address \cup {next} |->
                         IF i = next THEN Top - Len(s) ELSE address[i]]
        /\ next' = next - 1 /\ stage' = stage /\ UNCHANGED <<spt, present, bottom>>
    BY <1>4, <1>7 DEF PushString, Push
  <2>2. MemoryTyped' /\ Top - Len(s) \in Nat
    BY <1>4, <1>1, <1>7, <2>1, Written
  <2>3. PICK t \in Nat : t = Top - Len(s)
    BY <2>2
  <2>4. Addressed'
    <3>1. \A i \in (next + 1)..Len(argv) : i \in DOMAIN address /\ address[i] \in Nat
      BY <1>1 DEF LoadInv, Addressed
    <3>2. ASSUME NEW i \in (next' + 1)..Len(argv)
          PROVE  i \in DOMAIN address' /\ address'[i] \in Nat
      <4>1. i = next \/ i \in (next + 1)..Len(argv)
        BY <1>1, <2>1
      <4>2. address' = [j \in DOMAIN address \cup {next} |-> IF j = next THEN t ELSE address[j]]
        BY <2>1, <2>3
      <4> QED BY <3>1, <4>1, <4>2
    <3>3. stage' = "strings" /\ argv' = argv /\ next' <= Len(argv)
      BY <1>1, <2>1
    <3> QED BY <3>2, <3>3 DEF Addressed
  <2> QED BY <1>1, <1>5, <2>1, <2>2, <2>4, WriteKeeps
<1> QED BY <1>6, <1>7

LEMMA NullKeeps == ASSUME LoadInv, PushNull PROVE LoadInv'
<1>1. /\ stage = "strings" /\ next = 0 /\ curr \in Nat /\ argv \in Seq(1..Len(buffer))
      /\ Len(argv) \in Nat
      /\ UNCHANGED <<command, buffer, save, argv, image, oldStack, regs>>
  BY DEF LoadInv, Simple, PushNull, lineVars
<1>2. (Top % WordSize) + WordSize \in Nat /\ (Top % WordSize) + WordSize > 0
  <2>1. Top \in Int
    BY <1>1, Sizes DEF Top
  <2>2. Top % WordSize \in 0..(WordSize - 1)
    BY <2>1, Sizes, Divided
  <2> QED BY <2>2, Sizes
<1>3. PICK s \in Seq(Byte) : s = Zeros((Top % WordSize) + WordSize) /\ Len(s) > 0
  BY <1>2, ZerosAre
<1>4. Len(s) \in Nat
  BY <1>3
<1>5. CASE Missing(Top - Len(s), Len(s)) # {}
  <2>1. /\ KernelFault(Min(Missing(Top - Len(s), Len(s))))
        /\ UNCHANGED <<next, curr, address, memory>>
    BY <1>3, <1>5 DEF PushNull, Push
  <2> QED BY <1>1, <1>4, <1>5, <2>1, FaultKeeps
<1>6. CASE Missing(Top - Len(s), Len(s)) = {}
  <2>1. /\ curr' = curr + Len(s)
        /\ memory' = [b \in DOMAIN memory \cup (Top - Len(s))..(Top - 1) |->
                        IF b \in (Top - Len(s))..(Top - 1)
                        THEN s[b - (Top - Len(s)) + 1] ELSE memory[b]]
        /\ next' = Len(argv) /\ stage' = "pointers" /\ UNCHANGED <<address, spt, present, bottom>>
    BY <1>3, <1>6 DEF PushNull, Push
  <2>2. MemoryTyped'
    BY <1>3, <1>1, <1>6, <2>1, Written
  <2>3. Addressed'
    BY <1>1, <2>1 DEF LoadInv, Addressed
  <2> QED BY <1>1, <1>4, <2>1, <2>2, <2>3, WriteKeeps
<1> QED BY <1>5, <1>6

LEMMA PointerKeeps == ASSUME LoadInv, PushPointer PROVE LoadInv'
<1>1. /\ stage = "pointers" /\ next \in Nat /\ next > 0 /\ curr \in Nat /\ next <= Len(argv)
      /\ argv \in Seq(1..Len(buffer)) /\ Len(argv) \in Nat
      /\ UNCHANGED <<command, buffer, save, argv, image, oldStack, regs>>
  BY DEF LoadInv, Simple, Addressed, PushPointer, lineVars
<1>2. address[next] \in Nat
  BY <1>1 DEF LoadInv, Addressed
<1>3. PICK s \in Seq(Byte) : s = Bytes(address[next]) /\ Len(s) > 0
  BY <1>2, BytesAre, Sizes
<1>4. Len(s) \in Nat
  BY <1>3
<1>5. CASE Missing(Top - Len(s), Len(s)) # {}
  <2>1. /\ KernelFault(Min(Missing(Top - Len(s), Len(s))))
        /\ UNCHANGED <<next, curr, address, memory>>
    BY <1>3, <1>5 DEF PushPointer, Push
  <2> QED BY <1>1, <1>4, <1>5, <2>1, FaultKeeps
<1>6. CASE Missing(Top - Len(s), Len(s)) = {}
  <2>1. /\ curr' = curr + Len(s)
        /\ memory' = [b \in DOMAIN memory \cup (Top - Len(s))..(Top - 1) |->
                        IF b \in (Top - Len(s))..(Top - 1)
                        THEN s[b - (Top - Len(s)) + 1] ELSE memory[b]]
        /\ next' = next - 1 /\ stage' = stage /\ UNCHANGED <<address, spt, present, bottom>>
    BY <1>3, <1>6 DEF PushPointer, Push
  <2>2. MemoryTyped'
    BY <1>3, <1>1, <1>6, <2>1, Written
  <2>3. Addressed'
    BY <1>1, <2>1 DEF LoadInv, Addressed
  <2> QED BY <1>1, <1>4, <2>1, <2>2, <2>3, WriteKeeps
<1> QED BY <1>5, <1>6

LEMMA ReturnKeeps == ASSUME LoadInv, PushReturn PROVE LoadInv'
<1>1. /\ stage = "pointers" /\ next \in Nat /\ curr \in Nat
      /\ UNCHANGED <<command, buffer, save, argv, image, oldStack>>
      /\ DOMAIN regs' = DOMAIN regs
  BY DEF LoadInv, Simple, PushReturn, lineVars
<1>2. PICK s \in Seq(Byte) : s = Zeros(WordSize) /\ Len(s) > 0
  BY ZerosAre, Sizes
<1>3. Len(s) \in Nat
  BY <1>2
<1>4. CASE Missing(Top - Len(s), Len(s)) # {}
  <2>1. /\ KernelFault(Min(Missing(Top - Len(s), Len(s))))
        /\ UNCHANGED <<next, curr, address, memory>>
    BY <1>2, <1>4 DEF PushReturn, Push
  <2> QED BY <1>1, <1>3, <1>4, <2>1, FaultKeeps
<1>5. CASE Missing(Top - Len(s), Len(s)) = {}
  <2>1. /\ curr' = curr + Len(s)
        /\ memory' = [b \in DOMAIN memory \cup (Top - Len(s))..(Top - 1) |->
                        IF b \in (Top - Len(s))..(Top - 1)
                        THEN s[b - (Top - Len(s)) + 1] ELSE memory[b]]
        /\ stage' = "ready" /\ UNCHANGED <<next, address, spt, present, bottom>>
    BY <1>2, <1>5 DEF PushReturn, Push
  <2>2. MemoryTyped'
    BY <1>2, <1>1, <1>5, <2>1, Written
  <2>3. Addressed'
    BY <2>1 DEF Addressed
  <2> QED BY <1>1, <1>3, <2>1, <2>2, <2>3, WriteKeeps
<1> QED BY <1>4, <1>5

LEMMA TouchKeeps == ASSUME LoadInv, NEW va \in DOMAIN spt, Touch(va) PROVE LoadInv'
<1> USE DEF lineVars, fileVars, stackVars
<1>1. /\ stage = "ready"
      /\ UNCHANGED <<command, buffer, save, argv, image, next, oldStack, curr, address, memory, regs>>
  BY DEF Touch
<1>2. PICK a \in va..(va + PGSIZE - 1), fits \in BOOLEAN : Fault(a, fits)
  BY DEF Touch
<1>3. a \in Int /\ PageOf(a) \in DOMAIN spt
  <2>1. va \in Aligned /\ va \in Int
    BY DEF LoadInv, PagesTyped, UserPage, Aligned
  <2>2. a \in Int /\ va <= a /\ a < va + PGSIZE
    BY <2>1, Sizes
  <2>3. PageOf(a) = va
    BY <2>1, <2>2, SamePage
  <2> QED BY <2>2, <2>3
<1>4. /\ stage' \in {stage, "panic", "killed", "freed"} /\ PagesTyped' /\ Extended
      /\ bottom' \in Address /\ present' \subseteq Address
      /\ stage' = stage => StackThere' /\ PresentWhole'
  BY <1>1, <1>2, <1>3, FaultIs
<1>5. Simple' /\ LineEnds' /\ MemoryTyped'
  BY <1>1, <1>4 DEF LoadInv, Simple, LineEnds, MemoryTyped
<1>6. OnStack' /\ InMemory' /\ Addressed'
  BY <1>1, <1>4 DEF LoadInv, OnStack, InMemory, Addressed
<1>7. HeadersDone'
  <2>1. ASSUME NEW i \in DOMAIN image.phdrs PROVE HeaderDone(i)'
    <3>1. HeaderDone(i)
      BY <1>1 DEF LoadInv, HeadersDone
    <3> QED BY <1>1, <1>4, <3>1, HeaderStays
  <2> QED BY <1>1, <1>4, <2>1 DEF HeadersDone
<1> QED BY <1>4, <1>5, <1>6, <1>7 DEF LoadInv

LEMMA LoadStep == LoadInv /\ [LoadNext]_loadVars => LoadInv'
<1> SUFFICES ASSUME LoadInv, [LoadNext]_loadVars PROVE LoadInv'
  OBVIOUS
<1>1. CASE UNCHANGED loadVars
  <2> USE <1>1 DEF loadVars, lineVars, fileVars, pageVars, stackVars
  <2>1. Simple' /\ LineEnds' /\ MemoryTyped' /\ Addressed'
    BY DEF LoadInv, Simple, LineEnds, MemoryTyped, Addressed
  <2>2. PagesTyped' /\ OnStack' /\ InMemory'
    BY DEF LoadInv, PagesTyped, UserPage, OnStack, StackThere, InMemory, PresentWhole, Whole
  <2>3. HeadersDone'
    BY DEF LoadInv, HeadersDone, HeaderDone
  <2> QED BY <2>1, <2>2, <2>3 DEF LoadInv
<1> QED BY <1>1, CreateKeeps, TokenKeeps, OpenKeeps, HeaderKeeps, StackKeeps, StringKeeps, NullKeeps,
           PointerKeeps, ReturnKeeps, TouchKeeps DEF LoadNext

(* The pages are in user space, and at the end those of the headers.       *)
LEMMA LoadedIs == LoadInv => ImageLoaded
<1> SUFFICES ASSUME LoadInv PROVE ImageLoaded
  OBVIOUS
<1>1. PagesTyped /\ Simple /\ LineEnds /\ MemoryTyped
  BY DEF LoadInv
<1>2. UserPages
  BY <1>1 DEF PagesTyped, UserPage, UserPages
<1>3. LoadTypeOK
  <2>1. ASSUME NEW va \in DOMAIN spt
        PROVE  /\ va \in Address /\ va % PGSIZE = 0
               /\ spt[va] \in [offset : Nat, read : 0..PGSIZE, writable : BOOLEAN]
    <3>1. UserPage(va) /\ spt[va] \in PageRec
      BY <1>1 DEF PagesTyped
    <3>2. KERN_BASE <= AddressRange
      BY LoadingAssumption
    <3>3. va \in Int /\ va % PGSIZE = 0 /\ va >= PGSIZE /\ va + PGSIZE <= KERN_BASE
      BY <3>1 DEF UserPage, Aligned
    <3>4. va \in Address
      BY <3>2, <3>3, Sizes DEF Address
    <3> QED BY <3>1, <3>3, <3>4 DEF PageRec
  <2> QED BY <1>1, <2>1 DEF LoadTypeOK, Simple, LineEnds, MemoryTyped
<1>4. SegmentsLoaded
  <2> SUFFICES ASSUME stage = "ready", NEW i \in DOMAIN image.phdrs, image.phdrs[i].type = "load",
                      RoundUp(Into(image.phdrs[i]) + image.phdrs[i].memsz) < CountRange,
                      NEW a \in image.phdrs[i].vaddr..(image.phdrs[i].vaddr + image.phdrs[i].memsz - 1)
               PROVE  LET p == image.phdrs[i]
                      IN /\ PageOf(a) \in DOMAIN spt /\ spt[PageOf(a)].writable = p.writable
                         /\ Found(a) = Promised(p, a)
                         /\ PageOf(a) \in present => Found(a) # Nothing
    BY DEF SegmentsLoaded
  <2>1. PICK p \in Phdr : p = image.phdrs[i]
    BY <1>1, Headers DEF Simple
  <2>2. /\ p.type = "load" /\ ValidateSegment(p)
        /\ \A va \in DOMAIN SegmentPages(p) : va \in DOMAIN spt /\ spt[va] = SegmentPages(p)[va]
    BY <2>1 DEF LoadInv, HeadersDone, HeaderDone
  <2>3. a \in p.vaddr..(p.vaddr + p.memsz - 1) /\ RoundUp(Into(p) + p.memsz) < CountRange
    BY <2>1
  <2>4. LET page == SegmentPages(p)[PageOf(a)]
        IN /\ PageOf(a) \in DOMAIN SegmentPages(p) /\ page.writable = p.writable
           /\ (IF a % PGSIZE < page.read THEN page.offset + (a % PGSIZE) ELSE Zero) =
                IF a - p.vaddr < p.filesz THEN p.offset + a - p.vaddr ELSE Zero
    BY <2>2, <2>3, InSegment
  <2>5. spt[PageOf(a)] = SegmentPages(p)[PageOf(a)] /\ PageOf(a) \in DOMAIN spt
    BY <2>2, <2>4
  <2>6. Whole(spt[PageOf(a)]) <=>
          ~\E b \in PageOf(a)..(PageOf(a) + PGSIZE - 1) :
             b - p.vaddr < p.filesz /\ OffsetAt(p, b) >= FileLength
    BY <2>2, <2>3, <2>5, WholeIs
  <2>7. Found(a) = Promised(p, a)
    BY <2>4, <2>5, <2>6 DEF Found, Promised, OffsetAt
  <2>8. ASSUME PageOf(a) \in present PROVE Found(a) # Nothing
    <3>1. Whole(spt[PageOf(a)])
      BY <2>8 DEF LoadInv, InMemory, PresentWhole
    <3>2. OffsetAt(p, a) \in Int /\ (a - p.vaddr < p.filesz => a - p.vaddr >= 0)
      BY <2>3, Sizes DEF OffsetAt, Phdr, Address
    <3>3. spt[PageOf(a)].offset \in Nat /\ a % PGSIZE \in Nat
      <4>1. p.vaddr \in Int /\ p.memsz \in Int
        BY Sizes DEF Phdr, Address
      <4>2. a \in Int
        BY <2>3, <4>1
      <4>3. a % PGSIZE \in 0..(PGSIZE - 1)
        BY <4>2, Sizes, Divided
      <4> QED BY <1>1, <2>5, <4>3, Sizes DEF PagesTyped, PageRec
    <3> QED BY <3>1, <3>3 DEF Found, Zero, Nothing
  <2> QED BY <2>1, <2>4, <2>5, <2>7, <2>8
<1> QED BY <1>2, <1>3, <1>4 DEF ImageLoaded

(* The image of a program that is loaded is what its headers say, and its  *)
(* pages are in user space, whatever the executable and the command line.  *)
THEOREM Image == LoadSpec => []ImageLoaded
<1>1. LoadSpec => []LoadInv
  BY SimpleInit, LoadStep, PTL DEF LoadSpec
<1> QED BY <1>1, LoadedIs, PTL

-----------------------------------------------------------------------------
(* The arguments.                                                          *)

(* The words that begin before position s, and where a word ends.          *)
Below(s) == {q \in Starts : q < s}
WordEnd(p) == Min({q \in p..(Len(command) + 1) : q = Len(command) + 1 \/ command[q] = Space})

(* What strtok_r has done: it is at the beginning of a word or at the end, *)
(* has not touched what comes, and argv has the words before, in order,    *)
(* each ended by NUL.                                                      *)
Tokenized ==
  /\ command \in Seq(Byte \ {NUL}) /\ Len(buffer) = Len(command) + 1
  /\ \A q \in 1..Len(command) : command[q] # Space => buffer[q] = command[q]
  /\ \A q \in save..Len(command) : buffer[q] = command[q]
  /\ save = 1 \/ save = Len(buffer) \/ command[save - 1] = Space
  /\ Len(argv) = Cardinality(Below(save))
  /\ \A p \in Below(save) :
       /\ Cardinality(Below(p)) < Len(argv) /\ argv[Cardinality(Below(p)) + 1] = p
       /\ buffer[WordEnd(p)] = NUL
AllTokens ==
  stage \in {"open", "segments", "strings", "pointers", "ready"} => Below(save) = Starts

(* bytes are in memory m from address a on.                                *)
Holds(m, a, bytes) ==
  \A k \in 1..Len(bytes) : a + k - 1 \in DOMAIN m /\ m[a + k - 1] = bytes[k]

StringThere(i) ==
  address[i] \in Address /\ Holds(memory, address[i], Append(StringAt(argv[i]), NUL))
(* argv[i], ... and the NULL behind them, from address base on.            *)
PointersFrom(base, i) ==
  /\ \A j \in (i + 1)..Len(argv) : Holds(memory, base + (j - i - 1) * WordSize, Bytes(address[j]))
  /\ Holds(memory, base + (Len(argv) - i) * WordSize, Zeros(WordSize))

(* The stack, from the top of what has been pushed.                        *)
Layout ==
  /\ DOMAIN memory = Top..(USER_STACK - 1)
  /\ stage = "strings" => \A i \in (next + 1)..Len(argv) : StringThere(i)
  /\ stage \in {"pointers", "ready"} => \A i \in 1..Len(argv) : StringThere(i)
  /\ stage = "pointers" => Top % WordSize = 0 /\ PointersFrom(Top, next)
  /\ stage = "ready" =>
       /\ regs.rdi = Len(argv) /\ regs.rsi = regs.rsp + WordSize /\ regs.rsp \in Int
       /\ regs.rsp % WordSize = 0 /\ Holds(memory, regs.rsp, Zeros(WordSize))
       /\ PointersFrom(regs.rsi, 0)

ArgInv == LoadInv /\ Tokenized /\ AllTokens /\ Layout

-----------------------------------------------------------------------------
(* Words.                                                                  *)

LEMMA StartsAre ==
  ASSUME command \in Seq(Byte \ {NUL})
  PROVE  /\ Starts \in SUBSET (1..Len(command)) /\ IsFiniteSet(Starts)
         /\ \A s : IsFiniteSet(Below(s)) /\ Cardinality(Below(s)) \in Nat
<1>1. Len(command) \in Nat /\ DOMAIN command = 1..Len(command)
  OBVIOUS
<1>2. Starts \in SUBSET (1..Len(command))
  BY <1>1 DEF Starts
<1>3. IsFiniteSet(1..Len(command))
  BY <1>1, FS_Interval
<1>4. IsFiniteSet(Starts)
  BY <1>2, <1>3, FS_Subset
<1>5. ASSUME NEW s PROVE IsFiniteSet(Below(s)) /\ Cardinality(Below(s)) \in Nat
  <2>1. Below(s) \in SUBSET Starts
    BY DEF Below
  <2>2. IsFiniteSet(Below(s))
    BY <1>4, <2>1, FS_Subset
  <2> QED BY <2>2, FS_CardinalityType
<1> QED BY <1>2, <1>4, <1>5

(* The end of a word: the first space, or the end of the line.             *)
LEMMA WordEndIs ==
  ASSUME command \in Seq(Byte \ {NUL}), NEW p \in 1..Len(command)
  PROVE  /\ WordEnd(p) \in p..(Len(command) + 1)
         /\ WordEnd(p) = Len(command) + 1 \/ command[WordEnd(p)] = Space
         /\ \A q \in p..(WordEnd(p) - 1) : q \in 1..Len(command) /\ command[q] # Space
<1> DEFINE n == Len(command)
           S == {q \in p..(n + 1) : q = n + 1 \/ command[q] = Space}
<1>1. n \in Nat /\ p \in 1..n
  OBVIOUS
<1> HIDE DEF n
<1>2. n + 1 \in S /\ S \in SUBSET Int /\ \A x \in S : p <= x
  BY <1>1
<1>3. Min(S) \in S /\ \A y \in S : Min(S) <= y
  <2>1. S # {} /\ p \in Int
    BY <1>1, <1>2
  <2> HIDE DEF S
  <2>2. PICK R : R = S
    OBVIOUS
  <2>3. R \in SUBSET Int /\ R # {} /\ \A x \in R : p <= x
    BY <1>2, <2>1, <2>2
  <2>4. Min(R) \in R /\ \A y \in R : Min(R) <= y
    BY <2>1, <2>3, LeastFrom
  <2> QED BY <2>2, <2>4
<1>4. PICK e : e = Min(S)
  OBVIOUS
<1>5. e \in p..(n + 1) /\ (e = n + 1 \/ command[e] = Space)
  BY <1>3, <1>4
<1>6. ASSUME NEW q \in p..(e - 1) PROVE q \in 1..n /\ command[q] # Space
  <2>1. q \in 1..n /\ q \in p..(n + 1) /\ q < e
    BY <1>1, <1>5
  <2>2. q \in S => e <= q
    <3> HIDE DEF S
    <3> QED BY <1>3, <1>4
  <2> QED BY <1>1, <1>5, <2>1, <2>2
<1> QED BY <1>4, <1>5, <1>6 DEF WordEnd, n

(* A word that strtok_r has ended is the string of its beginning.          *)
LEMMA WordIs ==
  ASSUME LineEnds, Tokenized, NEW p \in Below(save)
  PROVE  LET s == Append(StringAt(p), NUL)
         IN /\ WordLength(p) \in Nat /\ Len(s) = WordLength(p) + 1
            /\ \A k \in 0..(WordLength(p) - 1) : s[k + 1] = command[p + k]
            /\ s[WordLength(p) + 1] = NUL
<1> DEFINE e == WordEnd(p)
           n == Len(command)
           f == First(p, {NUL})
<1>1. /\ command \in Seq(Byte \ {NUL}) /\ Len(buffer) = n + 1 /\ buffer[e] = NUL
      /\ \A q \in 1..n : command[q] # Space => buffer[q] = command[q]
  BY DEF Tokenized
<1>2. n \in Nat /\ p \in 1..n /\ \A q \in 1..n : command[q] # NUL
  <2>1. p \in Starts
    BY DEF Below
  <2>2. n \in Nat /\ \A q \in 1..n : command[q] # NUL
    BY <1>1
  <2> QED BY <1>1, <2>1, <2>2, StartsAre
<1>3. /\ e \in p..(n + 1)
      /\ \A q \in p..(e - 1) : q \in 1..n /\ command[q] # Space
  BY <1>1, <1>2, WordEndIs
<1>4. /\ f \in p..(n + 1) /\ buffer[f] = NUL
      /\ \A q \in p..(f - 1) : buffer[q] # NUL
  <2>1. p \in 1..Len(buffer)
    BY <1>1, <1>2
  <2>2. f \in p..Len(buffer) /\ buffer[f] \in {NUL} /\ \A q \in p..(f - 1) : buffer[q] \notin {NUL}
    BY <2>1, FirstIs
  <2> HIDE DEF f
  <2> QED BY <1>1, <2>2
<1> HIDE DEF e, n, f
<1>5. \A q \in p..(e - 1) : buffer[q] = command[q] /\ buffer[q] # NUL
  BY <1>1, <1>2, <1>3
<1>6. f = e
  <2>1. f \notin p..(e - 1)
    BY <1>4, <1>5
  <2>2. e \notin p..(f - 1)
    BY <1>1, <1>4
  <2> QED BY <1>2, <1>3, <1>4, <2>1, <2>2
<1>7. WordLength(p) = e - p /\ e - p \in Nat
  BY <1>2, <1>3 DEF WordLength, WordEnd, e
<1>8. PICK t : t = StringAt(p)
  OBVIOUS
<1>9. t = SubSeq(buffer, p, e - 1)
  BY <1>6, <1>8 DEF StringAt, f
<1>10. buffer \in Seq(Byte) /\ p \in 1..Len(buffer) /\ e - 1 \in 0..Len(buffer) /\ p \in Int
  BY <1>1, <1>2, <1>3 DEF LineEnds
<1>11. t \in Seq(Byte)
  BY <1>8, <1>10, StringIs
<1>12. /\ Len(t) = e - p
       /\ \A k \in 1..(e - p) : t[k] = buffer[p + k - 1]
  <2>1. p <= e - 1 \/ p = e
    BY <1>2, <1>3
  <2>2. t = [k \in 1..(e - 1 - p + 1) |-> buffer[p + k - 1]]
    BY <1>9, <1>10
  <2>3. e - 1 - p + 1 = e - p
    BY <1>2, <1>3
  <2> QED BY <1>7, <1>11, <2>2, <2>3
<1>13. ASSUME NEW k \in 0..(e - p - 1) PROVE Append(t, NUL)[k + 1] = command[p + k]
  <2>1. k + 1 \in 1..Len(t) /\ p + (k + 1) - 1 = p + k /\ p + k \in p..(e - 1)
    BY <1>2, <1>3, <1>7, <1>12
  <2>2. t[k + 1] = buffer[p + k]
    BY <1>12, <2>1
  <2>3. buffer[p + k] = command[p + k]
    BY <1>5, <2>1
  <2> QED BY <1>11, <2>1, <2>2, <2>3
<1>14. Len(Append(t, NUL)) = e - p + 1 /\ Append(t, NUL)[e - p + 1] = NUL
  BY <1>11, <1>12
<1> QED BY <1>7, <1>8, <1>13, <1>14

(* strtok_r from any position: the next word, if there is one, and what it *)
(* is next to.                                                             *)
LEMMA NextWord ==
  ASSUME LineEnds, Tokenized, save \in 1..Len(buffer), Space # NUL,
         NEW start, start = First(save, Byte \ {Space}),
         NEW end, end = First(start, {Space, NUL}), buffer[start] # NUL
  PROVE  /\ start \in Starts /\ start \in save..Len(command) /\ end = WordEnd(start)
         /\ end \in (start + 1)..(Len(command) + 1)
         /\ buffer[end] = NUL <=> end = Len(command) + 1
         /\ end <= Len(command) => command[end] = Space
         /\ Below(start) = Below(save) /\ Below(end) = Below(save) \cup {start}
         /\ end <= Len(command) => Below(end + 1) = Below(save) \cup {start}
<1> DEFINE n == Len(command)
<1>1. /\ command \in Seq(Byte \ {NUL}) /\ Len(buffer) = n + 1 /\ buffer \in Seq(Byte)
      /\ buffer[n + 1] = NUL /\ n \in Nat /\ DOMAIN command = 1..n
      /\ \A q \in save..n : buffer[q] = command[q]
      /\ save = 1 \/ save = n + 1 \/ command[save - 1] = Space
  <2>1. command \in Seq(Byte \ {NUL}) /\ Len(buffer) = Len(command) + 1
    BY DEF Tokenized
  <2> QED BY <2>1 DEF Tokenized, LineEnds
<1>2. \A q \in 1..n : command[q] # NUL /\ command[q] \in Byte
  BY <1>1
<1>3. NUL \in Byte \ {Space} /\ NUL \in {Space, NUL}
  BY Sizes DEF Byte, NUL
<1>4. /\ start \in save..(n + 1) /\ buffer[start] # Space
      /\ \A q \in save..(start - 1) : buffer[q] \notin Byte \ {Space}
  <2>1. /\ start \in save..Len(buffer) /\ buffer[start] \in Byte \ {Space}
        /\ \A q \in save..(start - 1) : buffer[q] \notin Byte \ {Space}
    BY <1>3, FirstIs
  <2> QED BY <1>1, <2>1
<1>5. start \in 1..n /\ start \in save..n /\ save \in 1..n /\ command[start] # Space
  BY <1>1, <1>4
<1>6. \A q \in save..(start - 1) : command[q] = Space
  <2> TAKE q \in save..(start - 1)
  <2>1. q \in save..n /\ q \in 1..n
    BY <1>1, <1>5
  <2> QED BY <1>1, <1>2, <1>4, <2>1
<1>7. /\ end \in start..(n + 1) /\ (buffer[end] = Space \/ buffer[end] = NUL)
      /\ \A q \in start..(end - 1) : buffer[q] \notin {Space, NUL}
  <2>1. start \in 1..Len(buffer)
    BY <1>1, <1>5
  <2>2. /\ end \in start..Len(buffer) /\ buffer[end] \in {Space, NUL}
        /\ \A q \in start..(end - 1) : buffer[q] \notin {Space, NUL}
    BY <1>3, <2>1, FirstIs
  <2> QED BY <1>1, <2>2
<1> HIDE DEF n
<1>8. \A q \in start..(end - 1) : q \in 1..n /\ command[q] # Space
  <2> TAKE q \in start..(end - 1)
  <2>1. q \in save..n \/ q = n + 1
    BY <1>1, <1>5, <1>7
  <2>2. q # n + 1
    BY <1>1, <1>7
  <2>3. q \in save..n /\ q \in 1..n
    BY <1>1, <1>5, <2>1, <2>2
  <2> QED BY <1>1, <1>7, <2>3
<1>9. /\ end \in (start + 1)..(n + 1) /\ (buffer[end] = NUL <=> end = n + 1)
      /\ end <= n => command[end] = Space
  <2>1. end # start
    BY <1>4, <1>7
  <2>2. end \in (start + 1)..(n + 1)
    BY <1>1, <1>5, <1>7, <2>1
  <2>3. end <= n => buffer[end] = command[end] /\ command[end] # NUL
    BY <1>1, <1>2, <1>5, <2>2
  <2> QED BY <1>1, <1>7, <2>2, <2>3
<1>10. end = WordEnd(start)
  <2> DEFINE e == WordEnd(start)
  <2>1. /\ e \in start..(n + 1) /\ (e = n + 1 \/ command[e] = Space)
        /\ \A q \in start..(e - 1) : q \in 1..n /\ command[q] # Space
    BY <1>1, <1>5, WordEndIs DEF n
  <2> HIDE DEF e
  <2>2. end \notin start..(e - 1)
    <3> SUFFICES ASSUME end \in start..(e - 1) PROVE FALSE
      OBVIOUS
    <3>1. end \in 1..n /\ command[end] # Space
      BY <2>1
    <3> QED BY <1>1, <1>9, <3>1
  <2>3. e \notin start..(end - 1)
    <3> SUFFICES ASSUME e \in start..(end - 1) PROVE FALSE
      OBVIOUS
    <3>1. e \in 1..n /\ command[e] # Space
      BY <1>8
    <3> QED BY <1>1, <2>1, <3>1
  <2> QED BY <1>1, <1>5, <1>9, <2>1, <2>2, <2>3 DEF e
<1>11. start \in Starts
  <2>1. start = 1 \/ command[start - 1] = Space
    <3>1. CASE start = save
      BY <1>1, <1>5, <3>1
    <3>2. CASE start # save
      <4>1. start - 1 \in save..(start - 1)
        BY <1>1, <1>5, <3>2
      <4> QED BY <1>6, <4>1
    <3> QED BY <3>1, <3>2
  <2> QED BY <1>1, <1>5, <2>1 DEF Starts
<1>12. Starts \in SUBSET (1..n)
  BY <1>1, StartsAre DEF n
<1>13. Below(start) = Below(save)
  <2>1. ASSUME NEW q \in Starts PROVE q < start <=> q < save
    <3>1. q \in 1..n /\ command[q] # Space
      BY <1>12 DEF Starts
    <3>2. q \notin save..(start - 1)
      BY <1>6, <3>1
    <3> QED BY <1>5, <3>1, <3>2
  <2> QED BY <2>1 DEF Below
<1>14. ASSUME NEW t \in {end, end + 1}, t = end + 1 => end <= n
       PROVE  Below(t) = Below(save) \cup {start}
  <2>1. ASSUME NEW q \in Starts PROVE q < t <=> q < save \/ q = start
    <3>1. q \in 1..n /\ command[q] # Space /\ (q = 1 \/ command[q - 1] = Space)
      BY <1>12 DEF Starts
    <3>2. q \notin save..(start - 1)
      BY <1>6, <3>1
    <3>3. q \notin (start + 1)..(end - 1)
      <4> SUFFICES ASSUME q \in (start + 1)..(end - 1) PROVE FALSE
        OBVIOUS
      <4>1. q - 1 \in start..(end - 1) /\ q # 1
        BY <1>5, <1>9, <3>1
      <4> QED BY <1>8, <3>1, <4>1
    <3>4. t = end + 1 => q # end
      BY <1>9, <1>14, <3>1
    <3> QED BY <1>5, <1>9, <1>14, <3>1, <3>2, <3>3, <3>4
  <2> QED BY <1>11, <2>1 DEF Below
<1>15. Below(end) = Below(save) \cup {start} /\ (end <= n => Below(end + 1) = Below(save) \cup {start})
  <2>1. Below(end) = Below(save) \cup {start}
    <3>1. end \in Int /\ end # end + 1
      BY <1>5, <1>9
    <3> QED BY <1>14, <3>1
  <2>2. end <= n => Below(end + 1) = Below(save) \cup {start}
    BY <1>14
  <2> QED BY <2>1, <2>2
<1> QED BY <1>5, <1>9, <1>10, <1>11, <1>13, <1>15 DEF n

(* After the last word strtok_r finds the end of the line.                 *)
LEMMA NoMoreWords ==
  ASSUME LineEnds, Tokenized, save \in 1..Len(buffer), Space # NUL,
         NEW start, start = First(save, Byte \ {Space}), buffer[start] = NUL
  PROVE  start = Len(buffer) /\ Below(save) = Starts /\ Below(start) = Starts
<1> DEFINE n == Len(command)
<1>1. /\ command \in Seq(Byte \ {NUL}) /\ Len(buffer) = n + 1 /\ buffer \in Seq(Byte) /\ n \in Nat
      /\ \A q \in save..n : buffer[q] = command[q]
  <2>1. command \in Seq(Byte \ {NUL}) /\ Len(buffer) = Len(command) + 1
    BY DEF Tokenized
  <2> QED BY <2>1 DEF Tokenized, LineEnds
<1>2. \A q \in 1..n : command[q] # NUL /\ command[q] \in Byte
  BY <1>1
<1>3. NUL \in Byte \ {Space}
  BY Sizes DEF Byte, NUL
<1>4. /\ start \in save..(n + 1)
      /\ \A q \in save..(start - 1) : buffer[q] \notin Byte \ {Space}
  <2>1. /\ start \in save..Len(buffer)
        /\ \A q \in save..(start - 1) : buffer[q] \notin Byte \ {Space}
    BY <1>3, FirstIs
  <2> QED BY <1>1, <2>1
<1>5. start = n + 1
  <2> SUFFICES ASSUME start # n + 1 PROVE FALSE
    OBVIOUS
  <2>1. start \in save..n /\ start \in 1..n
    BY <1>1, <1>4
  <2> QED BY <1>1, <1>2, <2>1
<1>6. Starts \in SUBSET (1..n)
  BY <1>1, StartsAre
<1> HIDE DEF n
<1>7. ASSUME NEW q \in Starts PROVE q < save /\ q < start
  <2>1. q \in 1..n /\ command[q] # Space
    BY <1>6 DEF Starts
  <2>2. q \notin save..n
    <3> SUFFICES ASSUME q \in save..n PROVE FALSE
      OBVIOUS
    <3>1. q \in save..(start - 1) /\ buffer[q] = command[q]
      BY <1>1, <1>5
    <3> QED BY <1>2, <1>4, <2>1, <3>1
  <2> QED BY <1>1, <1>5, <2>1, <2>2
<1> QED BY <1>1, <1>5, <1>7 DEF Below

LEMMA Spaces == Space # NUL /\ Space \in Byte
BY LoadingAssumption

LEMMA TokenizedInit == LoadInit => Tokenized /\ AllTokens
<1> SUFFICES ASSUME LoadInit PROVE Tokenized /\ AllTokens
  OBVIOUS
<1>1. command \in Seq(Byte \ {NUL}) /\ NUL \in Byte
  BY LoadingAssumption, Sizes DEF LoadInit, Byte, NUL
<1>2. buffer = Append(command, NUL) /\ save = 1 /\ argv = << >> /\ stage = "create"
  BY DEF LoadInit
<1>3. Len(buffer) = Len(command) + 1 /\ \A q \in 1..Len(command) : buffer[q] = command[q]
  BY <1>1, <1>2
<1>4. Below(save) = {}
  <2>1. Starts \in SUBSET (1..Len(command)) /\ Len(command) \in Nat
    BY <1>1, StartsAre
  <2>2. ASSUME NEW q \in Starts PROVE ~(q < save)
    <3>1. q \in 1..Len(command)
      BY <2>1
    <3> QED BY <1>2, <2>1, <3>1
  <2> QED BY <2>2 DEF Below
<1>5. Cardinality(Below(save)) = 0 /\ Len(argv) = 0
  BY <1>2, <1>4, FS_EmptySet
<1> QED BY <1>1, <1>2, <1>3, <1>4, <1>5 DEF Tokenized, AllTokens

(* Where the line is not touched.                                          *)
LEMMA TokenizedSame ==
  ASSUME Tokenized, UNCHANGED <<command, buffer, save, argv>>
  PROVE  Tokenized' /\ Below(save)' = Below(save) /\ Starts' = Starts
<1>1. Starts' = Starts /\ \A p : WordEnd(p)' = WordEnd(p)
  BY DEF Starts, WordEnd
<1>2. \A s : Below(s)' = Below(s)
  BY <1>1 DEF Below
<1>3. Below(save)' = Below(save)
  BY <1>1 DEF Below
<1>4. command' = command /\ buffer' = buffer /\ save' = save /\ argv' = argv
  OBVIOUS
<1> QED BY <1>1, <1>2, <1>3, <1>4 DEF Tokenized

LEMMA TokenizedStep == ASSUME LoadInv, Tokenized, Token PROVE Tokenized' /\ AllTokens'
<1>0. LineEnds /\ save \in 1..Len(buffer) /\ argv \in Seq(1..Len(buffer)) /\ Space # NUL
  BY Spaces DEF LoadInv, Simple
<1>1. PICK start : start = First(save, Byte \ {Space})
  OBVIOUS
<1>2. PICK end : end = First(start, {Space, NUL})
  OBVIOUS
<1>3. command' = command /\ Starts' = Starts /\ \A p : WordEnd(p)' = WordEnd(p)
  BY DEF Token, Starts, WordEnd
<1>4. \A s : Below(s)' = Below(s)
  BY <1>3 DEF Below
<1>5. CASE buffer[start] = NUL
  <2>1. stage' = "open" /\ save' = start /\ buffer' = buffer /\ argv' = argv
    BY <1>1, <1>2, <1>5 DEF Token
  <2>2. start = Len(buffer) /\ Below(save) = Starts /\ Below(start) = Starts
    BY <1>0, <1>1, <1>5, NoMoreWords
  <2>3. Below(save)' = Starts
    BY <1>3, <2>1, <2>2 DEF Below
  <2>4. Len(command) \in Nat /\ \A q \in save'..Len(command) : FALSE
    BY <2>1, <2>2 DEF Tokenized
  <2> QED BY <1>3, <1>4, <2>1, <2>2, <2>3, <2>4 DEF Tokenized, AllTokens
<1>6. CASE buffer[start] # NUL
  <2> DEFINE n == Len(command)
             t == IF buffer[end] = NUL THEN end ELSE end + 1
  <2>1. /\ argv' = Append(argv, start) /\ buffer' = [buffer EXCEPT ![end] = NUL]
        /\ save' = t /\ stage' \in {"overrun", "token"}
    BY <1>1, <1>2, <1>6 DEF Token
  <2>2. /\ start \in Starts /\ start \in save..n /\ end = WordEnd(start)
        /\ end \in (start + 1)..(n + 1) /\ (buffer[end] = NUL <=> end = n + 1)
        /\ end <= n => command[end] = Space
        /\ Below(start) = Below(save) /\ Below(end) = Below(save) \cup {start}
        /\ end <= n => Below(end + 1) = Below(save) \cup {start}
    BY <1>0, <1>1, <1>2, <1>6, NextWord
  <2>3. /\ command \in Seq(Byte \ {NUL}) /\ Len(buffer) = n + 1 /\ buffer \in Seq(Byte) /\ n \in Nat
        /\ \A q \in 1..n : command[q] # Space => buffer[q] = command[q]
        /\ \A q \in save..n : buffer[q] = command[q]
        /\ Len(argv) = Cardinality(Below(save))
        /\ \A p \in Below(save) :
             /\ Cardinality(Below(p)) < Len(argv) /\ argv[Cardinality(Below(p)) + 1] = p
             /\ buffer[WordEnd(p)] = NUL
    <3>1. command \in Seq(Byte \ {NUL}) /\ Len(buffer) = Len(command) + 1
      BY DEF Tokenized
    <3> QED BY <1>0, <3>1 DEF Tokenized, LineEnds
  <2> HIDE DEF n
  <2>4. /\ Len(buffer') = n + 1 /\ buffer'[end] = NUL
        /\ \A q \in 1..(n + 1) : q # end => buffer'[q] = buffer[q]
    BY <1>0, <2>1, <2>2, <2>3
  <2>5. /\ t \in {end, end + 1} /\ t \in 1..(n + 1) /\ (t = n + 1 \/ t = end + 1)
        /\ t = end + 1 => end <= n
    BY <1>0, <2>2, <2>3
  <2>6. Below(t) = Below(save) \cup {start}
    BY <2>2, <2>5
  <2> HIDE DEF t
  <2>7. t = n + 1 \/ command[t - 1] = Space
    BY <2>2, <2>3, <2>5
  <2>8. Below(save') = Below(t) /\ Below(save)' = Below(t)
    BY <1>3, <2>1 DEF Below
  <2>9. /\ Len(argv) \in Nat /\ Len(argv') = Len(argv) + 1
        /\ \A i \in 1..Len(argv) : argv'[i] = argv[i]
        /\ argv'[Len(argv) + 1] = start
    <3>1. argv \in Seq(Nat) /\ start \in Nat
      BY <1>0, <2>2, <2>3
    <3> QED BY <2>1, <3>1
  <2>10. Cardinality(Below(t)) = Len(argv) + 1
    <3>0. IsFiniteSet(Below(save))
      BY <2>3, StartsAre
    <3>1. IsFiniteSet(Below(save)) /\ start \notin Below(save)
      <4>1. ~(start < save)
        BY <1>0, <2>2, <2>3
      <4> QED BY <3>0, <4>1 DEF Below
    <3> QED BY <2>3, <2>6, <3>1, FS_AddElement
  <2>11. ASSUME NEW p \in Below(t)
         PROVE  /\ Cardinality(Below(p)) < Len(argv') /\ argv'[Cardinality(Below(p)) + 1] = p
                /\ buffer'[WordEnd(p)] = NUL
    <3>1. CASE p = start
      BY <2>2, <2>3, <2>4, <2>9, <3>1
    <3>2. CASE p \in Below(save)
      <4>1. /\ Cardinality(Below(p)) < Len(argv) /\ argv[Cardinality(Below(p)) + 1] = p
            /\ buffer[WordEnd(p)] = NUL
        BY <2>3, <3>2
      <4>2. Cardinality(Below(p)) \in Nat
        BY <2>3, StartsAre
      <4>3. Cardinality(Below(p)) + 1 \in 1..Len(argv)
        BY <2>9, <4>1, <4>2
      <4>4. WordEnd(p) \in 1..(n + 1)
        <5>1. p \in 1..Len(command)
          BY <2>3, <3>2, StartsAre DEF Below
        <5>2. WordEnd(p) \in p..(Len(command) + 1)
          BY <2>3, <5>1, WordEndIs
        <5> QED BY <2>3, <5>1, <5>2 DEF n
      <4>5. buffer'[WordEnd(p)] = NUL
        BY <2>4, <4>1, <4>4
      <4> QED BY <2>9, <4>1, <4>2, <4>3, <4>5
    <3> QED BY <2>6, <3>1, <3>2
  <2>12. \A q \in 1..n : command[q] # Space => buffer'[q] = command[q]
    BY <2>2, <2>3, <2>4
  <2>13. \A q \in t..n : buffer'[q] = command[q]
    <3> TAKE q \in t..n
    <3>1. q \in save..n /\ q # end /\ q \in 1..(n + 1)
      BY <1>0, <2>2, <2>3, <2>5
    <3> QED BY <2>3, <2>4, <3>1
  <2>14. Tokenized'
    <3>1. /\ command' \in Seq(Byte \ {NUL}) /\ Len(buffer') = Len(command') + 1
          /\ \A q \in 1..Len(command') : command'[q] # Space => buffer'[q] = command'[q]
          /\ \A q \in save'..Len(command') : buffer'[q] = command'[q]
          /\ save' = 1 \/ save' = Len(buffer') \/ command'[save' - 1] = Space
          /\ Len(argv') = Cardinality(Below(save)')
      BY <1>3, <2>1, <2>3, <2>4, <2>7, <2>8, <2>9, <2>10, <2>12, <2>13 DEF n
    <3>2. \A p \in Below(save)' :
            /\ Cardinality(Below(p)') < Len(argv') /\ argv'[Cardinality(Below(p)') + 1] = p
            /\ buffer'[WordEnd(p)'] = NUL
      BY <1>3, <1>4, <2>8, <2>11
    <3> QED BY <3>1, <3>2 DEF Tokenized
  <2> QED BY <2>1, <2>14 DEF AllTokens
<1> QED BY <1>5, <1>6

-----------------------------------------------------------------------------
(* The stack.                                                              *)

Kept == \A b \in DOMAIN memory : b \in DOMAIN memory' /\ memory'[b] = memory[b]

(* What has been pushed stays where it is.                                 *)
LEMMA HoldsKept ==
  ASSUME NEW a, NEW bytes, Holds(memory, a, bytes), Kept
  PROVE  Holds(memory', a, bytes)
BY DEF Holds, Kept

LEMMA StringKept ==
  ASSUME NEW i, StringThere(i), Kept, buffer' = buffer, argv' = argv, address'[i] = address[i]
  PROVE  StringThere(i)'
<1>1. PICK a : a = address[i]
  OBVIOUS
<1>2. PICK s : s = Append(StringAt(argv[i]), NUL)
  OBVIOUS
<1>3. s = Append(StringAt(argv[i])', NUL)
  BY <1>2 DEF StringAt, First
<1>4. a \in Address /\ Holds(memory, a, s)
  BY <1>1, <1>2 DEF StringThere
<1>5. Holds(memory', a, s)
  BY <1>4, HoldsKept
<1> QED BY <1>1, <1>3, <1>4, <1>5 DEF StringThere

LEMMA PointersKept ==
  ASSUME NEW base, NEW i, PointersFrom(base, i), Kept, address' = address, argv' = argv
  PROVE  PointersFrom(base, i)'
<1>1. ASSUME NEW j \in (i + 1)..Len(argv)
      PROVE  Holds(memory', base + (j - i - 1) * WordSize, Bytes(address[j]))
  <2>1. PICK s : s = Bytes(address[j])
    OBVIOUS
  <2>2. Holds(memory, base + (j - i - 1) * WordSize, s)
    BY <2>1 DEF PointersFrom
  <2> QED BY <2>1, <2>2, HoldsKept
<1>2. PICK n : n = Len(argv)
  OBVIOUS
<1>3. Holds(memory', base + (n - i) * WordSize, Zeros(WordSize))
  <2>1. Holds(memory, base + (n - i) * WordSize, Zeros(WordSize))
    BY <1>2 DEF PointersFrom
  <2> QED BY <2>1, HoldsKept
<1> QED BY <1>1, <1>2, <1>3 DEF PointersFrom

(* Bytes go directly below what is there.                                  *)
LEMMA PushedAt ==
  ASSUME curr \in Nat, DOMAIN memory = Top..(USER_STACK - 1),
         NEW bytes \in Seq(Byte), Len(bytes) > 0, curr' = curr + Len(bytes),
         memory' = [b \in DOMAIN memory \cup (Top - Len(bytes))..(Top - 1) |->
                      IF b \in (Top - Len(bytes))..(Top - 1)
                      THEN bytes[b - (Top - Len(bytes)) + 1] ELSE memory[b]]
  PROVE  /\ Top' = Top - Len(bytes) /\ Top' \in Int /\ Top \in Int /\ Kept
         /\ Holds(memory', Top - Len(bytes), bytes) /\ DOMAIN memory' = Top'..(USER_STACK - 1)
<1>1. Top' = Top - Len(bytes) /\ Top \in Int /\ Top <= USER_STACK /\ Len(bytes) \in Nat
  BY Sizes DEF Top
<1>2. PICK t \in Int : t = Top /\ t <= USER_STACK
  BY <1>1
<1>3. PICK n \in Nat : n = Len(bytes) /\ n > 0
  BY <1>1
<1>4. memory' = [b \in DOMAIN memory \cup (t - n)..(t - 1) |->
                   IF b \in (t - n)..(t - 1) THEN bytes[b - (t - n) + 1] ELSE memory[b]]
  BY <1>2, <1>3
<1>5. DOMAIN memory = t..(USER_STACK - 1)
  BY <1>2
<1>6. DOMAIN memory' = (t - n)..(USER_STACK - 1)
  <2>1. DOMAIN memory' = t..(USER_STACK - 1) \cup (t - n)..(t - 1)
    BY <1>4, <1>5
  <2> QED BY <1>2, <1>3, <2>1, Sizes
<1>7. Kept
  <2>1. ASSUME NEW b \in DOMAIN memory PROVE b \in DOMAIN memory' /\ memory'[b] = memory[b]
    <3>0. b \in t..(USER_STACK - 1)
      BY <1>5
    <3>1. b \notin (t - n)..(t - 1)
      BY <3>0, Sizes
    <3> QED BY <1>4, <3>1
  <2> QED BY <2>1 DEF Kept
<1>8. Holds(memory', t - n, bytes)
  <2>1. ASSUME NEW k \in 1..n
        PROVE  t - n + k - 1 \in DOMAIN memory' /\ memory'[t - n + k - 1] = bytes[k]
    <3>0. /\ t - n + k - 1 \in (t - n)..(t - 1)
          /\ (t - n + k - 1) - (t - n) + 1 = k
      OBVIOUS
    <3>1. PICK b \in (t - n)..(t - 1) : b = t - n + k - 1 /\ b - (t - n) + 1 = k
      BY ONLY <3>0
    <3>2. b \in DOMAIN memory' /\ memory'[b] = bytes[b - (t - n) + 1]
      BY <1>4
    <3> QED BY <3>1, <3>2
  <2> QED BY <1>3, <2>1 DEF Holds
<1> QED BY <1>1, <1>2, <1>3, <1>6, <1>7, <1>8

(* A fault moves nothing.                                                  *)
LEMMA FaultLayout ==
  ASSUME LoadInv, Layout, stage \in {"strings", "pointers"}, NEW n \in Nat,
         Missing(Top - n, n) # {}, KernelFault(Min(Missing(Top - n, n))),
         UNCHANGED <<buffer, argv, next, curr, address, memory>>
  PROVE  Layout' /\ stage' \in {stage, "panic", "killed", "freed"}
<1>1. curr \in Nat
  BY DEF LoadInv, Simple
<1>2. PICK b \in Int : b = Min(Missing(Top - n, n)) /\ b < USER_STACK
  BY <1>1, MissingIs
<1>3. stage' \in {stage, "panic", "killed", "freed"}
  BY <1>2, FaultIs DEF KernelFault
<1>4. Kept
  BY DEF Kept
<1>5. \A i : StringThere(i) => StringThere(i)'
  BY <1>4, StringKept
<1>6. Top' = Top
  BY DEF Top
<1>7. stage = "pointers" => Top' % WordSize = 0 /\ PointersFrom(Top, next)'
  <2> SUFFICES ASSUME stage = "pointers" PROVE Top' % WordSize = 0 /\ PointersFrom(Top, next)'
    OBVIOUS
  <2>1. Top % WordSize = 0 /\ PointersFrom(Top, next)
    BY DEF Layout
  <2> QED BY <1>6, <2>1 DEF PointersFrom
<1> QED BY <1>3, <1>5, <1>6, <1>7 DEF Layout

LEMMA LayoutString == ASSUME LoadInv, Layout, PushString PROVE Layout'
<1>1. /\ stage = "strings" /\ next \in Nat /\ next > 0 /\ curr \in Nat /\ next <= Len(argv)
      /\ argv \in Seq(1..Len(buffer)) /\ Len(argv) \in Nat
      /\ UNCHANGED <<buffer, argv>>
  BY DEF LoadInv, Simple, Addressed, PushString, lineVars
<1>2. StringAt(argv[next]) \in Seq(Byte)
  <2>1. argv[next] \in 1..Len(buffer)
    BY <1>1
  <2> QED BY <2>1, StringIs DEF LoadInv
<1>3. NUL \in Byte
  BY Sizes DEF Byte, NUL
<1>4. PICK s \in Seq(Byte) : s = Append(StringAt(argv[next]), NUL) /\ Len(s) > 0
  <2>1. Append(StringAt(argv[next]), NUL) \in Seq(Byte)
    BY <1>2, <1>3
  <2>2. Len(Append(StringAt(argv[next]), NUL)) > 0
    BY <1>2, LenProperties
  <2> QED BY <2>1, <2>2
<1>5. Len(s) \in Nat
  BY <1>4
<1>6. CASE Missing(Top - Len(s), Len(s)) # {}
  <2>1. /\ KernelFault(Min(Missing(Top - Len(s), Len(s))))
        /\ UNCHANGED <<next, curr, address, memory>>
    BY <1>4, <1>6 DEF PushString, Push
  <2> QED BY <1>1, <1>5, <1>6, <2>1, FaultLayout
<1>7. CASE Missing(Top - Len(s), Len(s)) = {}
  <2>1. /\ curr' = curr + Len(s)
        /\ memory' = [b \in DOMAIN memory \cup (Top - Len(s))..(Top - 1) |->
                        IF b \in (Top - Len(s))..(Top - 1)
                        THEN s[b - (Top - Len(s)) + 1] ELSE memory[b]]
        /\ address' = [i \in DOMAIN address \cup {next} |->
                         IF i = next THEN Top - Len(s) ELSE address[i]]
        /\ next' = next - 1 /\ stage' = stage
    BY <1>4, <1>7 DEF PushString, Push
  <2>2. /\ DOMAIN memory = Top..(USER_STACK - 1)
        /\ \A i \in (next + 1)..Len(argv) : StringThere(i)
    BY <1>1 DEF Layout
  <2>3. /\ Top' = Top - Len(s) /\ Kept /\ Holds(memory', Top - Len(s), s)
        /\ DOMAIN memory' = Top'..(USER_STACK - 1)
    BY <1>1, <1>4, <2>1, <2>2, PushedAt
  <2>4. MemoryTyped'
    BY <1>4, <1>1, <1>7, <2>1, Written
  <2>5. PICK t : t = Top - Len(s)
    OBVIOUS
  <2>6. PICK m : m = next
    OBVIOUS
  <2>7. t \in Address
    <3>1. t + 1 - 1 \in DOMAIN memory'
      BY <1>4, <1>5, <2>3, <2>5 DEF Holds
    <3>2. t + 1 - 1 = t
      BY <1>1, <1>5, <2>5, Sizes DEF Top
    <3> QED BY <2>4, <3>1, <3>2 DEF MemoryTyped
  <2>8. \A i \in DOMAIN address \cup {m} : address'[i] = IF i = m THEN t ELSE address[i]
    BY <2>1, <2>5, <2>6
  <2>9. StringThere(m)'
    <3>1. s = Append(StringAt(argv[m])', NUL)
      BY <1>1, <1>4, <2>6 DEF StringAt, First
    <3>2. address'[m] = t
      BY <2>8
    <3>3. Holds(memory', t, s)
      BY <2>3, <2>5
    <3> QED BY <1>1, <2>7, <3>1, <3>2, <3>3 DEF StringThere
  <2>10. ASSUME NEW i \in (m + 1)..Len(argv) PROVE StringThere(i)'
    <3>1. i \in DOMAIN address /\ i # m
      BY <1>1, <2>6 DEF LoadInv, Addressed
    <3>2. address'[i] = address[i]
      BY <2>8, <3>1
    <3>3. StringThere(i)
      BY <2>2, <2>6
    <3> QED BY <1>1, <2>3, <3>2, <3>3, StringKept
  <2>11. ASSUME NEW i \in (next' + 1)..Len(argv) PROVE StringThere(i)'
    <3>1. i = m \/ i \in (m + 1)..Len(argv)
      BY <1>1, <2>1, <2>6
    <3> QED BY <2>9, <2>10, <3>1
  <2> QED BY <1>1, <2>1, <2>3, <2>11 DEF Layout
<1> QED BY <1>6, <1>7

(* Multiples of a word.                                                    *)
LEMMA WordSums ==
  /\ \A t \in Int : (t - ((t % WordSize) + WordSize)) % WordSize = 0
  /\ \A t \in Int : t % WordSize = 0 => (t - WordSize) % WordSize = 0
  /\ \A m \in Int : m * WordSize \in Int /\ (m + 1) * WordSize = (m * WordSize) + WordSize
  /\ 0 * WordSize = 0
<1>1. ASSUME NEW t \in Int
      PROVE  /\ (t - ((t % WordSize) + WordSize)) % WordSize = 0
             /\ t % WordSize = 0 => (t - WordSize) % WordSize = 0
  <2>1. t \div WordSize \in Int /\ t % WordSize \in Int /\ t = WordSize * (t \div WordSize) + (t % WordSize)
    BY Sizes, Divided
  <2>2. t - ((t % WordSize) + WordSize) = WordSize * ((t \div WordSize) - 1) + 0
    BY <2>1, Sizes
  <2>3. (t \div WordSize) - 1 \in Int
    BY <2>1
  <2>4. \A q \in Int : (WordSize * q + 0) % WordSize = 0
    BY Sizes, Quotient
  <2>5. (t - ((t % WordSize) + WordSize)) % WordSize = 0
    BY ONLY <2>2, <2>3, <2>4
  <2>6. t % WordSize = 0 => t - ((t % WordSize) + WordSize) = t - WordSize
    BY Sizes
  <2> QED BY <2>5, <2>6
<1>2. \A m \in Int : m * WordSize \in Int /\ (m + 1) * WordSize = (m * WordSize) + WordSize
  BY Sizes
<1>3. 0 * WordSize = 0
  BY Sizes
<1> QED BY <1>1, <1>2, <1>3

LEMMA LayoutNull == ASSUME LoadInv, Layout, PushNull PROVE Layout'
<1>1. /\ stage = "strings" /\ next = 0 /\ curr \in Nat /\ argv \in Seq(1..Len(buffer))
      /\ Len(argv) \in Nat
      /\ UNCHANGED <<buffer, argv>>
  BY DEF LoadInv, Simple, PushNull, lineVars
<1>2. PICK t \in Int : t = Top
  BY <1>1, Sizes DEF Top
<1>3. PICK n \in Nat : n = (t % WordSize) + WordSize /\ n >= WordSize /\ n > 0
  <2>1. t % WordSize \in 0..(WordSize - 1)
    BY Sizes, Divided
  <2> QED BY <2>1, Sizes
<1>4. PICK s \in Seq(Byte) : s = Zeros(n) /\ Len(s) = n
  BY <1>3, ZerosAre
<1>5. s = Zeros((Top % WordSize) + WordSize) /\ Len(s) \in Nat /\ Len(s) > 0
  BY <1>2, <1>3, <1>4
<1>6. CASE Missing(Top - Len(s), Len(s)) # {}
  <2>1. /\ KernelFault(Min(Missing(Top - Len(s), Len(s))))
        /\ UNCHANGED <<next, curr, address, memory>>
    BY <1>5, <1>6 DEF PushNull, Push
  <2> QED BY <1>1, <1>5, <1>6, <2>1, FaultLayout
<1>7. CASE Missing(Top - Len(s), Len(s)) = {}
  <2>1. /\ curr' = curr + Len(s)
        /\ memory' = [b \in DOMAIN memory \cup (Top - Len(s))..(Top - 1) |->
                        IF b \in (Top - Len(s))..(Top - 1)
                        THEN s[b - (Top - Len(s)) + 1] ELSE memory[b]]
        /\ next' = Len(argv) /\ stage' = "pointers" /\ address' = address
    BY <1>5, <1>7 DEF PushNull, Push
  <2>2. /\ DOMAIN memory = Top..(USER_STACK - 1)
        /\ \A i \in (next + 1)..Len(argv) : StringThere(i)
    BY <1>1 DEF Layout
  <2>3. /\ Top' = Top - Len(s) /\ Kept /\ Holds(memory', Top - Len(s), s)
        /\ DOMAIN memory' = Top'..(USER_STACK - 1)
    BY <1>1, <1>5, <2>1, <2>2, PushedAt
  <2>4. ASSUME NEW i \in 1..Len(argv) PROVE StringThere(i)'
    <3>1. StringThere(i)
      BY <1>1, <2>2
    <3> QED BY <1>1, <2>1, <2>3, <3>1, StringKept
  <2>5. Top' = t - n
    BY <1>2, <1>4, <2>3
  <2>6. Top' % WordSize = 0
    BY <1>3, <2>5, WordSums
  <2>7. Holds(memory', t - n, Zeros(WordSize))
    <3>1. Holds(memory', t - n, s)
      BY <1>2, <1>4, <2>3
    <3>2. WordSize \in Nat /\ Len(Zeros(WordSize)) = WordSize
      BY Sizes, ZerosAre
    <3>3. ASSUME NEW k \in 1..WordSize PROVE k \in 1..n /\ Zeros(WordSize)[k] = s[k]
      <4>1. k \in 1..n
        BY <1>3, <3>2
      <4> QED BY <1>4, <4>1 DEF Zeros
    <3> QED BY <1>4, <3>1, <3>2, <3>3 DEF Holds
  <2>8. PointersFrom(Top, next)'
    <3>1. Top' + (Len(argv') - next') * WordSize = t - n
      BY <1>1, <2>1, <2>5, WordSums
    <3>2. (next' + 1)..Len(argv') = {}
      BY <1>1, <2>1
    <3> QED BY <2>7, <3>1, <3>2 DEF PointersFrom
  <2> QED BY <1>1, <2>1, <2>3, <2>4, <2>6, <2>8 DEF Layout
<1> QED BY <1>6, <1>7

LEMMA LayoutPointer == ASSUME LoadInv, Layout, PushPointer PROVE Layout'
<1>1. /\ stage = "pointers" /\ next \in Nat /\ next > 0 /\ curr \in Nat /\ next <= Len(argv)
      /\ argv \in Seq(1..Len(buffer)) /\ Len(argv) \in Nat
      /\ UNCHANGED <<buffer, argv>>
  BY DEF LoadInv, Simple, Addressed, PushPointer, lineVars
<1>2. address[next] \in Nat
  BY <1>1 DEF LoadInv, Addressed
<1>3. PICK s \in Seq(Byte) : s = Bytes(address[next]) /\ Len(s) = WordSize /\ Len(s) > 0
  BY <1>2, BytesAre, Sizes
<1>4. Len(s) \in Nat
  BY <1>3
<1>5. CASE Missing(Top - Len(s), Len(s)) # {}
  <2>1. /\ KernelFault(Min(Missing(Top - Len(s), Len(s))))
        /\ UNCHANGED <<next, curr, address, memory>>
    BY <1>3, <1>5 DEF PushPointer, Push
  <2> QED BY <1>1, <1>4, <1>5, <2>1, FaultLayout
<1>6. CASE Missing(Top - Len(s), Len(s)) = {}
  <2>1. /\ curr' = curr + Len(s)
        /\ memory' = [b \in DOMAIN memory \cup (Top - Len(s))..(Top - 1) |->
                        IF b \in (Top - Len(s))..(Top - 1)
                        THEN s[b - (Top - Len(s)) + 1] ELSE memory[b]]
        /\ next' = next - 1 /\ stage' = stage /\ address' = address
    BY <1>3, <1>6 DEF PushPointer, Push
  <2>2. /\ DOMAIN memory = Top..(USER_STACK - 1) /\ Top % WordSize = 0 /\ PointersFrom(Top, next)
        /\ \A i \in 1..Len(argv) : StringThere(i)
    BY <1>1 DEF Layout
  <2>3. /\ Top' = Top - Len(s) /\ Top \in Int /\ Kept /\ Holds(memory', Top - Len(s), s)
        /\ DOMAIN memory' = Top'..(USER_STACK - 1)
    BY <1>1, <1>3, <2>1, <2>2, PushedAt
  <2>4. ASSUME NEW i \in 1..Len(argv) PROVE StringThere(i)'
    <3>1. StringThere(i)
      BY <2>2
    <3> QED BY <1>1, <2>1, <2>3, <3>1, StringKept
  <2>5. PICK t \in Int : t = Top
    BY <2>3
  <2>6. PICK m \in Nat : m = next /\ m > 0 /\ m <= Len(argv)
    BY <1>1
  <2>7. Top' = t - WordSize /\ next' = m - 1
    BY <1>3, <2>1, <2>3, <2>5, <2>6
  <2>8. Top' % WordSize = 0
    BY <2>2, <2>5, <2>7, WordSums
  <2>9. PointersFrom(t, m)'
    BY <1>1, <2>1, <2>2, <2>3, <2>5, <2>6, PointersKept
  <2>10. ASSUME NEW j \in m..Len(argv)
         PROVE  Holds(memory', (t - WordSize) + (j - (m - 1) - 1) * WordSize, Bytes(address[j]))
    <3>1. CASE j = m
      <4>1. (t - WordSize) + (j - (m - 1) - 1) * WordSize = t - WordSize
        <5>1. j - (m - 1) - 1 = 0
          BY <3>1
        <5> QED BY <5>1, WordSums, Sizes
      <4>2. Holds(memory', t - WordSize, s)
        BY <1>3, <2>3, <2>5
      <4> QED BY <1>3, <2>6, <3>1, <4>1, <4>2
    <3>2. CASE j # m
      <4>1. j \in (m + 1)..Len(argv) /\ j - m - 1 \in Int /\ j - (m - 1) - 1 = (j - m - 1) + 1
        BY <1>1, <3>2
      <4>2. ((j - m - 1) + 1) * WordSize = ((j - m - 1) * WordSize) + WordSize
            /\ (j - m - 1) * WordSize \in Int
        BY <4>1, WordSums
      <4>3. (t - WordSize) + (j - (m - 1) - 1) * WordSize = t + (j - m - 1) * WordSize
        BY <4>1, <4>2, Sizes
      <4>4. Holds(memory', t + (j - m - 1) * WordSize, Bytes(address'[j]))
        BY <1>1, <2>9, <4>1 DEF PointersFrom
      <4> QED BY <2>1, <4>3, <4>4
    <3> QED BY <3>1, <3>2
  <2>11. Holds(memory', (t - WordSize) + (Len(argv) - (m - 1)) * WordSize, Zeros(WordSize))
    <3>1. Len(argv) - m \in Int /\ Len(argv) - (m - 1) = (Len(argv) - m) + 1
      BY <1>1
    <3>2. ((Len(argv) - m) + 1) * WordSize = ((Len(argv) - m) * WordSize) + WordSize
          /\ (Len(argv) - m) * WordSize \in Int
      BY <3>1, WordSums
    <3>3. (t - WordSize) + (Len(argv) - (m - 1)) * WordSize = t + (Len(argv) - m) * WordSize
      BY <3>1, <3>2, Sizes
    <3>4. Holds(memory', t + (Len(argv) - m) * WordSize, Zeros(WordSize))
      BY <1>1, <2>9 DEF PointersFrom
    <3> QED BY <3>3, <3>4
  <2>12. PointersFrom(Top, next)'
    <3>1. m - 1 + 1 = m
      OBVIOUS
    <3> QED BY <1>1, <2>1, <2>7, <2>10, <2>11, <3>1 DEF PointersFrom
  <2> QED BY <1>1, <2>1, <2>3, <2>4, <2>8, <2>12 DEF Layout
<1> QED BY <1>5, <1>6

LEMMA LayoutReturn == ASSUME LoadInv, Layout, PushReturn PROVE Layout'
<1>1. /\ stage = "pointers" /\ next = 0 /\ curr \in Nat /\ Len(argv) \in Nat
      /\ UNCHANGED <<buffer, argv>>
      /\ regs' = IF stage' = "ready"
                 THEN [rsp |-> Top', rdi |-> Len(argv), rsi |-> Top' + WordSize] ELSE regs
  BY DEF LoadInv, Simple, PushReturn, lineVars
<1>2. PICK s \in Seq(Byte) : s = Zeros(WordSize) /\ Len(s) = WordSize /\ Len(s) > 0
  BY ZerosAre, Sizes
<1>3. Len(s) \in Nat
  BY <1>2
<1>4. CASE Missing(Top - Len(s), Len(s)) # {}
  <2>1. /\ KernelFault(Min(Missing(Top - Len(s), Len(s))))
        /\ UNCHANGED <<next, curr, address, memory>>
    BY <1>2, <1>4 DEF PushReturn, Push
  <2> QED BY <1>1, <1>3, <1>4, <2>1, FaultLayout
<1>5. CASE Missing(Top - Len(s), Len(s)) = {}
  <2>1. /\ curr' = curr + Len(s)
        /\ memory' = [b \in DOMAIN memory \cup (Top - Len(s))..(Top - 1) |->
                        IF b \in (Top - Len(s))..(Top - 1)
                        THEN s[b - (Top - Len(s)) + 1] ELSE memory[b]]
        /\ stage' = "ready" /\ UNCHANGED <<next, address>>
    BY <1>2, <1>5 DEF PushReturn, Push
  <2>2. /\ DOMAIN memory = Top..(USER_STACK - 1) /\ Top % WordSize = 0 /\ PointersFrom(Top, 0)
        /\ \A i \in 1..Len(argv) : StringThere(i)
    BY <1>1 DEF Layout
  <2>3. /\ Top' = Top - Len(s) /\ Top \in Int /\ Kept /\ Holds(memory', Top - Len(s), s)
        /\ DOMAIN memory' = Top'..(USER_STACK - 1)
    BY <1>1, <1>2, <2>1, <2>2, PushedAt
  <2>4. ASSUME NEW i \in 1..Len(argv) PROVE StringThere(i)'
    <3>1. StringThere(i)
      BY <2>2
    <3> QED BY <1>1, <2>1, <2>3, <3>1, StringKept
  <2>5. PICK t \in Int : t = Top
    BY <2>3
  <2>6. Top' = t - WordSize /\ t - WordSize \in Int /\ (t - WordSize) + WordSize = t
    BY <1>2, <2>3, <2>5, Sizes
  <2>7. (t - WordSize) % WordSize = 0
    BY <2>2, <2>5, WordSums
  <2>8. PointersFrom(t, 0)'
    BY <1>1, <2>1, <2>2, <2>3, <2>5, PointersKept
  <2>9. /\ regs'.rsp = t - WordSize /\ regs'.rdi = Len(argv) /\ regs'.rsi = t
    BY <1>1, <2>1, <2>6
  <2>10. Holds(memory', regs'.rsp, Zeros(WordSize))
    BY <1>2, <2>3, <2>5, <2>9
  <2>11. PointersFrom(regs.rsi, 0)'
    BY <2>8, <2>9 DEF PointersFrom
  <2>12. regs'.rsi = regs'.rsp + WordSize /\ regs'.rsp \in Int /\ regs'.rsp % WordSize = 0
    BY <2>6, <2>7, <2>9
  <2> QED BY <1>1, <2>1, <2>3, <2>4, <2>9, <2>10, <2>11, <2>12 DEF Layout
<1> QED BY <1>4, <1>5

LEMMA LayoutInit == LoadInit => Layout
<1> SUFFICES ASSUME LoadInit PROVE Layout
  OBVIOUS
<1>1. stage = "create" /\ DOMAIN memory = {} /\ Top = USER_STACK
  BY Sizes DEF LoadInit, Top
<1>2. USER_STACK..(USER_STACK - 1) = {}
  BY Sizes
<1> QED BY <1>1, <1>2 DEF Layout

(* Before anything is pushed the stack is empty.                           *)
LEMMA LayoutEarly ==
  ASSUME Layout, UNCHANGED <<curr, memory>>,
         \/ stage' \in {"token", "open", "overrun", "segments", "failed", "panic"}
         \/ stage' = "strings" /\ next' = Len(argv') /\ Len(argv') \in Nat
  PROVE  Layout'
<1>1. DOMAIN memory' = Top'..(USER_STACK - 1)
  BY DEF Layout, Top
<1>2. stage' = "strings" => (next' + 1)..Len(argv') = {}
  OBVIOUS
<1> QED BY <1>1, <1>2 DEF Layout

(* What the program touches later moves nothing either.                    *)
LEMMA LayoutTouch == ASSUME LoadInv, Layout, NEW va, Touch(va) PROVE Layout'
<1>1. stage = "ready" /\ UNCHANGED <<buffer, argv, next, curr, address, memory, regs>>
  BY DEF Touch, lineVars, fileVars, stackVars
<1>2. stage' \in {"ready", "panic", "killed", "freed"}
  BY <1>1 DEF Touch, Fault, AllocPages
<1>3. \A i : StringThere(i) => StringThere(i)'
  BY <1>1, StringKept DEF Kept
<1>4. PointersFrom(regs.rsi, 0)' <=> PointersFrom(regs.rsi, 0)
  BY <1>1 DEF PointersFrom
<1>5. Top' = Top
  BY <1>1 DEF Top
<1> QED BY <1>1, <1>2, <1>3, <1>4, <1>5 DEF Layout

LEMMA ArgStep == ArgInv /\ [LoadNext]_loadVars => ArgInv'
<1> SUFFICES ASSUME ArgInv, [LoadNext]_loadVars PROVE ArgInv'
  OBVIOUS
<1> USE DEF lineVars, fileVars, pageVars, stackVars
<1>1. LoadInv /\ Tokenized /\ AllTokens /\ Layout /\ LoadInv'
  BY LoadStep DEF ArgInv
<1>2. CASE Token
  <2>1. Tokenized' /\ AllTokens'
    BY <1>1, <1>2, TokenizedStep
  <2>2. UNCHANGED <<curr, memory>> /\ stage' \in {"token", "open", "overrun"}
    BY <1>2 DEF Token
  <2> QED BY <1>1, <2>1, <2>2, LayoutEarly DEF ArgInv
<1>3. ASSUME UNCHANGED <<command, buffer, save, argv>>, Layout',
             stage' \in {"open", "segments", "strings", "pointers", "ready"} =>
               stage \in {"open", "segments", "strings", "pointers", "ready"}
      PROVE  ArgInv'
  <2>1. Tokenized' /\ Below(save)' = Below(save) /\ Starts' = Starts
    BY <1>1, <1>3, TokenizedSame
  <2>2. AllTokens'
    BY <1>1, <1>3, <2>1 DEF AllTokens
  <2> QED BY <1>1, <1>3, <2>1, <2>2 DEF ArgInv
<1>4. CASE Create
  <2>1. /\ UNCHANGED <<command, buffer, save, argv, curr, memory>> /\ stage' \in {"token", "failed"}
    BY <1>4 DEF Create
  <2> QED BY <1>1, <1>3, <2>1, LayoutEarly
<1>5. CASE Open
  <2>1. /\ UNCHANGED <<command, buffer, save, argv, curr, memory>> /\ stage' \in {"segments", "failed"}
        /\ stage = "open"
    BY <1>5 DEF Open
  <2> QED BY <1>1, <1>3, <2>1, LayoutEarly
<1>6. CASE ProgramHeader
  <2>1. /\ UNCHANGED <<command, buffer, save, argv, curr, memory>> /\ stage = "segments"
        /\ stage' \in {"segments", "failed", "panic"}
    BY <1>6 DEF ProgramHeader, AllocPages
  <2> QED BY <1>1, <1>3, <2>1, LayoutEarly
<1>7. CASE SetupStack
  <2>1. /\ UNCHANGED <<command, buffer, save, argv, curr, memory>> /\ stage = "segments"
        /\ stage' \in {"strings", "panic"} /\ next' = Len(argv')
    BY <1>7 DEF SetupStack, AllocPages
  <2>2. Len(argv') \in Nat
    BY <1>1, <2>1 DEF LoadInv, Simple
  <2> QED BY <1>1, <1>3, <2>1, <2>2, LayoutEarly
<1>8. CASE PushString
  <2>1. UNCHANGED <<command, buffer, save, argv>> /\ stage = "strings"
    BY <1>8 DEF PushString
  <2> QED BY <1>1, <1>3, <1>8, <2>1, LayoutString
<1>9. CASE PushNull
  <2>1. UNCHANGED <<command, buffer, save, argv>> /\ stage = "strings"
    BY <1>9 DEF PushNull
  <2> QED BY <1>1, <1>3, <1>9, <2>1, LayoutNull
<1>10. CASE PushPointer
  <2>1. UNCHANGED <<command, buffer, save, argv>> /\ stage = "pointers"
    BY <1>10 DEF PushPointer
  <2> QED BY <1>1, <1>3, <1>10, <2>1, LayoutPointer
<1>11. CASE PushReturn
  <2>1. UNCHANGED <<command, buffer, save, argv>> /\ stage = "pointers"
    BY <1>11 DEF PushReturn
  <2> QED BY <1>1, <1>3, <1>11, <2>1, LayoutReturn
<1>12. ASSUME NEW va \in DOMAIN spt, Touch(va) PROVE ArgInv'
  <2>1. UNCHANGED <<command, buffer, save, argv>> /\ stage = "ready"
    BY <1>12 DEF Touch
  <2> QED BY <1>1, <1>3, <1>12, <2>1, LayoutTouch
<1>13. CASE UNCHANGED loadVars
  <2>1. UNCHANGED <<command, buffer, save, argv>> /\ stage' = stage
    BY <1>13 DEF loadVars
  <2>2. \A i : StringThere(i)' <=> StringThere(i)
    BY <1>13 DEF loadVars, StringThere, StringAt, First
  <2>3. Layout'
    BY <1>1, <1>13, <2>2 DEF loadVars, Layout, Top, PointersFrom
  <2> QED BY <1>3, <2>1, <2>3
<1> QED BY <1>2, <1>4, <1>5, <1>6, <1>7, <1>8, <1>9, <1>10, <1>11, <1>12, <1>13 DEF LoadNext

(* A word in memory is the number whose bytes are there.                   *)
LEMMA WordThere ==
  ASSUME NEW a, NEW v \in Nat, Holds(memory, a, Bytes(v))
  PROVE  Word(a, v)
<1>1. Len(Bytes(v)) = WordSize
  BY BytesAre
<1> QED BY <1>1 DEF Holds, Word, Pushed

LEMMA NullThere ==
  ASSUME NEW a, Holds(memory, a, Zeros(WordSize))
  PROVE  Word(a, 0)
<1>1. Len(Zeros(WordSize)) = WordSize
  BY Sizes, ZerosAre
<1>2. ASSUME NEW k \in 1..WordSize PROVE Zeros(WordSize)[k] = 0 /\ Bytes(0)[k] = 0
  <2>1. Zeros(WordSize)[k] = 0
    BY DEF Zeros
  <2>2. Bytes(0)[k] = (0 \div (ByteSize ^ (k - 1))) % ByteSize
    BY DEF Bytes
  <2>3. PICK d \in Nat \ {0} : d = ByteSize ^ (k - 1)
    <3>1. k - 1 \in 0..WordSize
      BY Sizes
    <3> QED BY <3>1, LoadingAssumption
  <2>4. 0 \div d = 0
    <3>1. d * 0 + 0 = 0
      OBVIOUS
    <3>2. (d * 0 + 0) \div d = 0
      BY Quotient
    <3> QED BY <3>1, <3>2
  <2>5. 0 % ByteSize = 0
    <3>1. ByteSize * 0 + 0 = 0
      BY Sizes
    <3>2. (ByteSize * 0 + 0) % ByteSize = 0
      BY Sizes, Quotient
    <3> QED BY <3>1, <3>2
  <2> QED BY <2>1, <2>2, <2>3, <2>4, <2>5
<1> QED BY <1>1, <1>2 DEF Holds, Word, Pushed

LEMMA PassedIs == ArgInv => ArgumentsPassed
<1> SUFFICES ASSUME ArgInv, stage = "ready" PROVE ArgumentsPassed
  BY DEF ArgumentsPassed
<1>1. /\ LineEnds /\ Tokenized /\ Below(save) = Starts /\ argv \in Seq(1..Len(buffer))
  BY DEF ArgInv, AllTokens, LoadInv, Simple
<1>2. /\ \A i \in 1..Len(argv) : StringThere(i)
      /\ regs.rdi = Len(argv) /\ regs.rsi = regs.rsp + WordSize /\ regs.rsp \in Int
      /\ regs.rsp % WordSize = 0 /\ Holds(memory, regs.rsp, Zeros(WordSize))
      /\ PointersFrom(regs.rsi, 0)
  BY DEF ArgInv, Layout
<1>3. PICK rsi \in Int : rsi = regs.rsi
  BY <1>2, Sizes
<1>4. Len(argv) \in Nat /\ Len(argv) = Cardinality(Starts)
  BY <1>1 DEF Tokenized
<1>5. Word(regs.rsp, 0)
  BY <1>2, NullThere
<1>6. Word(regs.rsi + regs.rdi * WordSize, 0)
  <2>1. Len(argv) - 0 = Len(argv)
    BY <1>4
  <2>2. Holds(memory, regs.rsi + Len(argv) * WordSize, Zeros(WordSize))
    BY <1>2, <2>1 DEF PointersFrom
  <2> QED BY <1>2, <2>2, NullThere
<1>7. ASSUME NEW p \in Starts
      PROVE  LET i == Cardinality({q \in Starts : q < p})
             IN \E a \in Address :
                  /\ Word(regs.rsi + i * WordSize, a)
                  /\ \A k \in 0..(WordLength(p) - 1) : Pushed(a + k) = command[p + k]
                  /\ Pushed(a + WordLength(p)) = NUL
  <2>1. PICK i \in Nat : i = Cardinality(Below(p))
    BY <1>1, StartsAre DEF Tokenized
  <2>2. i < Len(argv) /\ argv[i + 1] = p
    BY <1>1, <2>1 DEF Tokenized
  <2>3. i + 1 \in 1..Len(argv)
    BY <1>4, <2>2
  <2>4. PICK a \in Address : a = address[i + 1] /\ Holds(memory, a, Append(StringAt(p), NUL))
    <3>1. StringThere(i + 1)
      BY <1>2, <2>3
    <3> QED BY <2>2, <3>1 DEF StringThere
  <2>5. a \in Nat
    BY Sizes DEF Address
  <2>6. Word(regs.rsi + i * WordSize, a)
    <3>1. i + 1 \in (0 + 1)..Len(argv) /\ i + 1 - 0 - 1 = i
      BY <2>3
    <3>2. Holds(memory, regs.rsi + i * WordSize, Bytes(address[i + 1]))
      BY <1>2, <3>1 DEF PointersFrom
    <3> QED BY <2>4, <2>5, <3>2, WordThere
  <2>7. PICK s : s = Append(StringAt(p), NUL)
    OBVIOUS
  <2>8. PICK n \in Nat : n = WordLength(p) /\ Len(s) = n + 1
                         /\ (\A k \in 0..(n - 1) : s[k + 1] = command[p + k]) /\ s[n + 1] = NUL
    BY <1>1, <2>7, WordIs
  <2>9. ASSUME NEW k \in 0..n PROVE Pushed(a + k) = s[k + 1]
    <3>1. k + 1 \in 1..Len(s) /\ a + (k + 1) - 1 = a + k
      BY <2>5, <2>8
    <3>2. a + k \in DOMAIN memory /\ memory[a + k] = s[k + 1]
      BY <2>4, <2>7, <3>1 DEF Holds
    <3> QED BY <3>2 DEF Pushed
  <2>10. \A k \in 0..(n - 1) : Pushed(a + k) = command[p + k]
    <3> TAKE k \in 0..(n - 1)
    <3>1. k \in 0..n
      BY <2>8
    <3> QED BY <2>8, <2>9, <3>1
  <2>11. Pushed(a + n) = NUL
    <3>1. n \in 0..n
      BY <2>8
    <3> QED BY <2>8, <2>9, <3>1
  <2>12. {q \in Starts : q < p} = Below(p)
    BY DEF Below
  <2> QED BY <2>1, <2>6, <2>8, <2>10, <2>11, <2>12
<1> QED BY <1>2, <1>4, <1>5, <1>6, <1>7 DEF ArgumentsPassed

(* main gets argc and argv with the words of the command line, each where  *)
(* its pointer says, whatever the command line and the executable.         *)
THEOREM Arguments == LoadSpec => []ArgumentsPassed
<1>1. LoadInit => ArgInv
  BY SimpleInit, TokenizedInit, LayoutInit DEF ArgInv
<1>2. LoadSpec => []ArgInv
  BY <1>1, ArgStep, PTL DEF LoadSpec
<1> QED BY <1>2, PassedIs, PTL
=============================================================================
