----------------------------- MODULE FileCalls -----------------------------
(***************************************************************************)
(* The file system calls of user programs (userprog/syscall.c), the file   *)
(* objects (filesys/file.c) and the descriptor tables that fork copies and *)
(* exit empties (userprog/process.c), over the inodes of Inodes.           *)
(*                                                                         *)
(* A parent sleeps in fork until its child has ended (ProcessLife shows    *)
(* it), and the kernel runs one program at a time, so of all processes     *)
(* only the youngest runs: they are a stack, 1..depth.                     *)
(***************************************************************************)
EXTENDS Inodes

CONSTANTS
  MaxDepth,    \* processes that exist at a time
  MaxFd,       \* MAX_FD_NUM
  MaxHeld,     \* bound: opens of a file that nobody closes
  MaxCreates,  \* bound: calls of create so far, when that many processes exist
  Programs,    \* names of programs
  Children,    \* names given to fork
  CallNames,   \* names given to the other calls, valid or not
  FirstLength, \* length of the program that is on the disk at first
  Lengths,     \* initial_size given to create, as off_t
  Positions,   \* positions given to seek
  Sizes,       \* sizes given to read and write
  Values       \* contents given to write

ASSUME FileCallsAssumption ==
  /\ MaxDepth \in Nat \ {0} /\ MaxFd \in Nat \ {0, 1, 2} /\ MaxHeld \in Nat /\ MaxCreates \in [1..MaxDepth -> Nat]
  /\ Programs \subseteq Names /\ Children \cup CallNames \subseteq STRING
  /\ FirstLength \in Nat /\ 2 + SectorsFor(FirstLength) <= NumSectors   \* fsutil_put succeeds
  /\ Lengths \subseteq Int
  /\ Positions \subseteq Nat /\ Sizes \subseteq Nat /\ Values \subseteq Int

Proc == 1..MaxDepth
Fd == 2..(MaxFd - 1)

VARIABLES
  depth,    \* the process that runs; 0 when none does
  exiting,  \* whether it is in process_exit
  fdTable,  \* file_descriptor_table, from 2 on: 0 and 1 never hold a file
  fdidx,    \* where the search for a free descriptor starts
  name,     \* name of the thread
  lock,     \* filesys_lock between calls: "free", or kept by the process
            \* that "dies", or "lost" with it
  held,     \* opens of load and do_mmap, which nothing closes
  creates   \* calls of create so far

procVars == <<depth, exiting, fdTable, fdidx, name, lock, creates>>
vars == <<diskVars, inode, op, procVars, held>>

NoFile == [inode |-> 0, pos |-> 0, deny_write |-> FALSE]
OpenFds(p) == {fd \in Fd : fdTable[p][fd] # NoFile}
FileOf(fd) == fdTable[depth][fd]
NoFds == [fd \in Fd |-> NoFile]

NoProcess ==
  /\ depth' = 0 /\ exiting' = FALSE
  /\ fdTable' = [p \in Proc |-> NoFds] /\ fdidx' = [p \in Proc |-> 2]
  /\ name' = [p \in Proc |-> NoName] /\ lock' = "free"

Init ==
  /\ \E n \in Programs : Formatted(n, FirstLength)
  /\ depth = 0 /\ exiting = FALSE
  /\ fdTable = [p \in Proc |-> NoFds] /\ fdidx = [p \in Proc |-> 2]
  /\ name = [p \in Proc |-> NoName] /\ lock = "free"
  /\ held = [s \in Sector |-> 0] /\ creates = 0

Running == depth > 0 /\ ~exiting /\ op = Idle

-----------------------------------------------------------------------------
LeftOpen == MapThenSumSet(LAMBDA s : held[s], Sector)

(* load opens the program and leaves it open, whether it can be run or not.*)
Load(n) ==
  /\ LeftOpen < MaxHeld
  /\ \E i \in Lookup(n) :
       /\ inode' = Opened(entries[i].sector)
       /\ held' = [held EXCEPT ![entries[i].sector] = @ + 1]

StartProgram(n) ==
  /\ depth = 0 /\ Load(n)
  /\ depth' = 1 /\ name' = [name EXCEPT ![1] = n]
  /\ UNCHANGED <<diskVars, op, exiting, fdTable, fdidx, lock, creates>>

Exec(n) ==
  /\ Running /\ Load(n)
  /\ UNCHANGED <<diskVars, op, procVars>>

(* do_mmap reopens the file and leaves it open.                            *)
Mmap(fd) ==
  /\ Running /\ fd \in OpenFds(depth)
  /\ LeftOpen < MaxHeld
  /\ inode' = Opened(FileOf(fd).inode)
  /\ held' = [held EXCEPT ![FileOf(fd).inode] = @ + 1]
  /\ UNCHANGED <<diskVars, op, procVars>>

(* variant: file_duplicate forgets that the file denies writes *)
DenyingForgotten(s) == {}

(* __do_fork: file_duplicate of every file.                                *)
Duplicates(s) == {fd \in OpenFds(depth) : FileOf(fd).inode = s}
Denying(s) == {fd \in Duplicates(s) : FileOf(fd).deny_write}

Fork(n) ==
  /\ Running /\ depth < MaxDepth /\ creates <= MaxCreates[depth + 1]
  /\ depth' = depth + 1
  /\ name' = [name EXCEPT ![depth + 1] = n]
  /\ fdTable' = [fdTable EXCEPT ![depth + 1] = fdTable[depth]]
  /\ fdidx' = [fdidx EXCEPT ![depth + 1] = fdidx[depth]]
  /\ inode' = [s \in Sector |->
       [inode[s] EXCEPT !.open_cnt = @ + Cardinality(Duplicates(s)),
                        !.deny_write_cnt = @ + Cardinality(Denying(s))]]
  /\ UNCHANGED <<diskVars, op, exiting, lock, creates, held>>

-----------------------------------------------------------------------------
Create(n, length) ==
  /\ Running /\ creates < MaxCreates[depth] /\ CreateSector(n, length)
  /\ creates' = creates + 1
  /\ UNCHANGED <<depth, exiting, fdTable, fdidx, name, lock, held>>

Remove(n) ==
  /\ Running /\ RemoveEntry(n)
  /\ UNCHANGED <<procVars, held>>

(* A program that opens its own file denies writes to it.  The search for  *)
(* a descriptor never goes back; without one the file is closed again.     *)
Open(n) ==
  /\ Running /\ lock = "free"
  /\ \E i \in Lookup(n), fd \in Fd \ OpenFds(depth) :
       LET s == entries[i].sector
           deny == name[depth] = n IN
       /\ fd = Min({f \in Fd \ OpenFds(depth) : f >= fdidx[depth]} \cup {MaxFd})
       /\ fdTable' = [fdTable EXCEPT ![depth][fd] =
                        [inode |-> s, pos |-> 0, deny_write |-> deny]]
       /\ fdidx' = [fdidx EXCEPT ![depth] = fd]
       /\ inode' = [Opened(s) EXCEPT ![s].deny_write_cnt = IF deny THEN @ + 1 ELSE @]
  /\ UNCHANGED <<diskVars, op, depth, exiting, name, lock, creates, held>>

Read(fd, size) ==
  /\ Running /\ fd \in OpenFds(depth)
  /\ fdTable' = [fdTable EXCEPT ![depth][fd].pos =
                   @ + Cardinality(DOMAIN ReadAt(FileOf(fd).inode, @, size))]
  /\ UNCHANGED <<diskVars, inode, op, depth, exiting, fdidx, name, lock, creates, held>>

Seek(fd, position) ==
  /\ Running /\ fd \in OpenFds(depth)
  /\ fdTable' = [fdTable EXCEPT ![depth][fd].pos = position]
  /\ UNCHANGED <<diskVars, inode, op, depth, exiting, fdidx, name, lock, creates, held>>

(* variant: asks the file object instead of the inode *)
WriteAsksFile(fd, size, v) ==
  /\ Running /\ fd \in OpenFds(depth) /\ lock = "free"
  /\ ~FileOf(fd).deny_write
  /\ op' = [at |-> "write", fd |-> fd, sector |-> FileOf(fd).inode,
            pos |-> FileOf(fd).pos, size |-> size, value |-> v]
  /\ UNCHANGED <<diskVars, inode, procVars, held>>

Write(fd, size, v) ==
  /\ Running /\ fd \in OpenFds(depth) /\ lock = "free"
  /\ inode[FileOf(fd).inode].deny_write_cnt = 0
  /\ op' = [at |-> "write", fd |-> fd, sector |-> FileOf(fd).inode,
            pos |-> FileOf(fd).pos, size |-> size, value |-> v]
  /\ UNCHANGED <<diskVars, inode, procVars, held>>

EndWrite ==
  /\ op.at = "write" /\ Chunk(op.sector, op.pos, op.size) <= 0
  /\ fdTable' = [fdTable EXCEPT ![depth][op.fd].pos = op.pos]
  /\ op' = Idle
  /\ UNCHANGED <<diskVars, inode, depth, exiting, fdidx, name, lock, creates, held>>

(* variant: inode_allow_write whether the file denies writes or not *)
CloseFdAllows(fd) ==
  LET s == FileOf(fd).inode IN
  /\ lock = "free"
  /\ fdTable' = [fdTable EXCEPT ![depth][fd] = NoFile]
  /\ CloseInode([inode EXCEPT ![s].deny_write_cnt = @ - 1], s)

(* close_syscall and file_close *)
CloseFd(fd) ==
  LET s == FileOf(fd).inode IN
  /\ lock = "free"
  /\ fdTable' = [fdTable EXCEPT ![depth][fd] = NoFile]
  /\ CloseInode([inode EXCEPT ![s].deny_write_cnt =
                   IF FileOf(fd).deny_write THEN @ - 1 ELSE @], s)

Close(fd) ==
  /\ Running /\ fd \in OpenFds(depth) /\ CloseFd(fd)
  /\ UNCHANGED <<diskVars, depth, exiting, fdidx, name, lock, creates, held>>

(* Descriptors 0 and 1 hold the numbers 1 and 2: file_close faults on them *)
(* after close_syscall has taken the lock, and the process ends with it.   *)
CloseConsole ==
  /\ Running /\ lock = "free"
  /\ lock' = "dies" /\ exiting' = TRUE
  /\ UNCHANGED <<diskVars, inode, op, depth, fdTable, fdidx, name, creates, held>>

-----------------------------------------------------------------------------
(* exit, a bad pointer, tell of any file, and any other call that faults   *)
(* on descriptor 0 or 1.                                                   *)
Exit ==
  /\ Running
  /\ exiting' = TRUE
  /\ UNCHANGED <<diskVars, inode, op, depth, fdTable, fdidx, name, lock, creates, held>>

(* process_exit closes the descriptors from 2 on.  With the lock kept the  *)
(* first of them panics; with the lock lost it blocks for ever.            *)
ExitClose ==
  /\ exiting /\ op = Idle
  /\ \E fd \in OpenFds(depth) :
       /\ \A f \in OpenFds(depth) : fd <= f
       /\ CloseFd(fd)
  /\ UNCHANGED <<diskVars, depth, exiting, fdidx, name, lock, creates, held>>

ExitDone ==
  /\ exiting /\ op = Idle /\ OpenFds(depth) = {}
  /\ depth' = depth - 1 /\ exiting' = FALSE
  /\ fdidx' = [fdidx EXCEPT ![depth] = 2] /\ name' = [name EXCEPT ![depth] = NoName]
  /\ lock' = IF lock = "dies" THEN "lost" ELSE lock
  /\ UNCHANGED <<diskVars, inode, op, fdTable, creates, held>>

(* halt, a power failure, or the panic that a failed ASSERT comes to: seek *)
(* without a file or to a negative position, create of a negative length   *)
(* (once its first sector is taken), open of a missing file by the program *)
(* of that name.                                                           *)
Crash ==
  /\ PowerOff /\ NoProcess /\ UNCHANGED creates
  /\ held' = [s \in Sector |-> 0]

-----------------------------------------------------------------------------
DiskStep ==
  /\ \/ CreateData \/ CreateInode \/ CreateZeros \/ CreateEntry \/ CreateUndo
     \/ ReleaseInode \/ ReleaseData \/ WriteChunk
  /\ UNCHANGED <<procVars, held>>

Call ==
  \/ \E n \in Programs : Exec(n)
  \/ \E n \in Children : Fork(n)
  \/ \E n \in CallNames :
       Remove(n) \/ Open(n) \/ \E length \in Lengths : Create(n, length)
  \/ \E fd \in Fd :
       \/ Mmap(fd) \/ Close(fd)
       \/ \E size \in Sizes : Read(fd, size) \/ \E v \in Values : Write(fd, size, v)
       \/ \E position \in Positions : Seek(fd, position)
  \/ Exit \/ CloseConsole

Next ==
  \/ \E n \in Programs : StartProgram(n)
  \/ Call \/ DiskStep \/ EndWrite \/ ExitClose \/ ExitDone
  \/ Crash

Spec == Init /\ [][Next]_vars

-----------------------------------------------------------------------------
InodeRec == [open_cnt : Nat, removed : BOOLEAN, deny_write_cnt : Nat,
             start : Sector, length : Nat]
FileRec == [inode : Sector, pos : Nat, deny_write : BOOLEAN]

Ops ==
  {Idle}
  \cup [at : {"data"}, name : CallNames, length : Lengths, sector : Sector]
  \cup [at : {"inode"}, name : CallNames, length : Lengths \cap Nat, sector : Sector, start : Sector]
  \cup [at : {"zeros"}, name : CallNames, length : Lengths \cap Nat, sector : Sector, start : Sector, i : Nat]
  \cup [at : {"undo"}, sector : Sector]
  \cup [at : {"release"}, sector : Sector, start : Sector, length : Nat]
  \cup [at : {"releaseData"}, start : Sector, length : Nat]
  \cup [at : {"write"}, fd : Fd, sector : Sector, pos : Nat, size : Nat, value : Values]

(* Types of the variables. *)
TypeOK ==
  /\ block \in [Sector -> [0..(SectorSize - 1) -> Int]]
  /\ used \subseteq Sector
  /\ entries \in [Slot -> {NoEntry} \cup [name : Names, sector : Sector]]
  /\ inode \in [Sector -> InodeRec]
  /\ op \in Ops
  /\ depth \in 0..MaxDepth /\ exiting \in BOOLEAN
  /\ fdTable \in [Proc -> [Fd -> FileRec]]
  /\ fdidx \in [Proc -> Fd] /\ name \in [Proc -> Programs \cup Children \cup {NoName}]
  /\ lock \in {"free", "dies", "lost"}
  /\ held \in [Sector -> Nat] /\ creates \in Nat

(* A file lives while it has a name or somebody has it open; these are its *)
(* sectors, as the disk describes them.                                    *)
Named == {entries[i].sector : i \in {j \in Slot : InUse(j)}}
Users(s) == {u \in Proc \X Fd : fdTable[u[1]][u[2]] # NoFile /\ fdTable[u[1]][u[2]].inode = s}
Objects == {fdTable[p][fd] : p \in Proc, fd \in Fd} \ {NoFile}
OpenFiles ==
  {s \in Sector : held[s] > 0} \cup {f.inode : f \in Objects}
DeniedFiles == {f.inode : f \in {g \in Objects : g.deny_write}}
Living == Named \cup OpenFiles
Data(s) == Run(block[s][0], SectorsFor(block[s][1]))

(* Sectors the call in progress has taken or is about to give back. *)
InCall ==
  (IF op.at \in {"data", "inode", "zeros", "undo", "release"} THEN {op.sector} ELSE {})
  \cup (IF op.at \in {"inode", "zeros", "release", "releaseData"}
        THEN Run(op.start, SectorsFor(op.length)) ELSE {})

(* At every moment at which the machine may go off, and after it: every    *)
(* sector of a living file, and every sector a call is about to release,   *)
(* is marked in the free map and belongs to it alone.                      *)
SectorsOwned ==
  /\ InCall \subseteq used \ {0}
  /\ \A s \in Living :
       /\ {s} \cup Data(s) \subseteq used \ ({0} \cup InCall)
       /\ s \notin Data(s)
       /\ \A t \in Living \ {s} : ({s} \cup Data(s)) \cap ({t} \cup Data(t)) = {}

(* The disk describes each living file, and an inode in memory what the    *)
(* disk describes; a directory entry is the only one of its file, and a    *)
(* file without one is marked as removed while somebody has it open.       *)
InodesAgree ==
  /\ \A s \in Living : block[s][0] \in Sector /\ block[s][1] \in Nat
  /\ \A s \in OpenFiles :
       /\ inode[s].start = block[s][0] /\ inode[s].length = block[s][1]
       /\ inode[s].removed <=> s \notin Named
  /\ \A i, j \in Slot : InUse(i) /\ entries[i].sector = entries[j].sector => i = j

(* What the call in progress has done so far: the inode of a new file and  *)
(* the sectors it has zeroed are on the disk, and a write is to a file     *)
(* that is open and that nobody denies.                                    *)
CallUnderway ==
  /\ 0 \in used
  /\ op.at \in {"inode", "zeros", "release"} => op.sector \notin Run(op.start, SectorsFor(op.length))
  /\ op.at = "zeros" =>
       /\ op.i <= SectorsFor(op.length)
       /\ block[op.sector] = InodeBlock(op.start, op.length)
       /\ \A t \in Run(op.start, op.i) : block[t] = Cells(0)
  /\ op.at = "write" =>
       /\ depth > 0 /\ FileOf(op.fd) # NoFile /\ FileOf(op.fd).inode = op.sector
       /\ inode[op.sector].deny_write_cnt = 0

(* A process that does not exist has no descriptors, nor does it exit. *)
FdsOfLiving ==
  /\ exiting => depth > 0
  /\ \A p \in Proc : p > depth => fdTable[p] = NoFds

(* Sectors that are marked although nothing leads to them. *)
Lost == used \ ({0} \cup InCall \cup UNION {{s} \cup Data(s) : s \in Living})

(* Sectors get lost when the machine goes off during a call or with a      *)
(* removed file open, and when a creation fails after its data sectors are *)
(* allocated; no other order of calls loses one.                           *)
LostOnlyThere ==
  [][ \/ Lost' \subseteq Lost
      \/ depth' = 0 /\ \A s \in Sector : inode'[s] = NotOpen
      \/ op.at = "zeros" /\ op'.at = "undo" ]_vars

(* The counters of an inode agree with the file objects that exist, of all *)
(* processes, the dead ones' included, so that the last close is known.    *)
OpenCounts ==
  \A s \in Sector :
    /\ inode[s].open_cnt = Cardinality(Users(s)) + held[s]
    /\ inode[s].deny_write_cnt =
         Cardinality({u \in Users(s) : fdTable[u[1]][u[2]].deny_write})

(* A file that some process has denied writes to, by opening itself, does  *)
(* not change until the last such descriptor, inherited ones included, is  *)
(* closed.                                                                 *)
DeniedUnchanged ==
  [][ \A s \in DeniedFiles : \A t \in {s} \cup Data(s) : block'[t] = block[t] ]_vars

CellAt(s, i) == block[block[s][0] + i \div SectorSize][i % SectorSize]
Content(s) == [i \in 0..(block[s][1] - 1) |-> CellAt(s, i)]

(* inode_read_at returns the cells from pos on up to size or the end of    *)
(* the file, wherever the sectors begin and end and however large pos is.  *)
ReadsContent ==
  \A s \in OpenFiles, pos \in Positions, size \in Sizes :
    ReadAt(s, pos, size) =
      [i \in {j \in DOMAIN Content(s) : pos <= j /\ j < pos + size} |-> Content(s)[i]]

(* At every moment at which the machine may go off: sectors have one owner *)
(* each, counters are right, and open files read as the disk has them.     *)
FilesInv ==
  /\ TypeOK /\ SectorsOwned /\ InodesAgree /\ CallUnderway
  /\ FdsOfLiving /\ OpenCounts /\ ReadsContent

Store == INSTANCE FileStore WITH
  File <- Sector, Name <- Names, Length <- Lengths \cup {FirstLength}, Cell <- Values \cup {0},
  names <- {<<entries[i].name, entries[i].sector>> : i \in {j \in Slot : InUse(j)}},
  open <- OpenFiles,
  content <- [s \in Living |-> Content(s)]

(* Seen through names and descriptors the disk is a store of files that    *)
(* live while named or open, and no crash between two writes of a call     *)
(* shows a file that was not there or loses one that was.                  *)
ImplementsFileStore == Store!Spec
=============================================================================
