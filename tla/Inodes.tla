------------------------------- MODULE Inodes -------------------------------
(***************************************************************************)
(* The file system of week_10 (filesys/inode.c, free-map.c, directory.c,   *)
(* filesys.c): the sectors of the disk, the free map, the root directory   *)
(* and the inodes that are open.                                           *)
(*                                                                         *)
(* Every write to the disk is a step of its own, because the machine may   *)
(* be switched off after any of them; op is what the call in progress does *)
(* next.  The free map fits one sector and is written after every change,  *)
(* so the map in memory and the one on disk are one variable.  A directory *)
(* entry never spans sectors.  Sector 0 stands for all that do_format lays *)
(* out: the free map, the root directory and their inodes.                 *)
(***************************************************************************)
EXTENDS Integers, FiniteSets, FiniteSetsExt

CONSTANTS
  NumSectors,  \* disk_size
  SectorSize,  \* cells in a sector; two of them hold an inode
  Names,       \* valid file names
  DirSlots     \* entries in the root directory, which cannot grow

NoName == ""   \* what an unused entry holds

ASSUME InodesAssumption ==
  /\ NumSectors \in Nat \ {0} /\ SectorSize \in Nat \ {0, 1}
  /\ DirSlots \in Nat \ {0} /\ NoName \notin Names /\ Names \subseteq STRING

Sector == 0..(NumSectors - 1)
Slot == 1..DirSlots

VARIABLES
  block,    \* the sectors of the disk
  used,     \* sectors the free map marks
  entries,  \* the root directory
  inode,    \* the list open_inodes; open_cnt is 0 for those not in it
  op        \* the call in progress

diskVars == <<block, used, entries>>

Idle == [at |-> "idle"]
NoEntry == [name |-> NoName, sector |-> 0]
NotOpen == [open_cnt |-> 0, removed |-> FALSE, deny_write_cnt |-> 0,
            start |-> 0, length |-> 0]

Cells(v) == [i \in 0..(SectorSize - 1) |-> v]
InodeBlock(start, length) ==
  [i \in 0..(SectorSize - 1) |-> IF i = 0 THEN start ELSE IF i = 1 THEN length ELSE 0]

(* bytes_to_sectors, and the sectors of a run *)
SectorsFor(length) == (length + SectorSize - 1) \div SectorSize
Run(start, cnt) == start..(start + cnt - 1)

(* do_format, and fsutil_put of one file.                                  *)
Formatted(n, length) ==
  LET start == IF length = 0 THEN 0 ELSE 2 IN
  /\ block = [s \in Sector |-> IF s = 1 THEN InodeBlock(start, length) ELSE Cells(0)]
  /\ used = {0, 1} \cup Run(start, SectorsFor(length))
  /\ entries = [i \in Slot |-> IF i = 1 THEN [name |-> n, sector |-> 1] ELSE NoEntry]
  /\ inode = [s \in Sector |-> NotOpen] /\ op = Idle

Opened(s) == [inode EXCEPT ![s] =
  IF @.open_cnt > 0 THEN [inode[s] EXCEPT !.open_cnt = @ + 1]
  ELSE [NotOpen EXCEPT !.open_cnt = 1, !.start = block[s][0], !.length = block[s][1]]]

InUse(i) == entries[i] # NoEntry
Lookup(n) == {i \in Slot : InUse(i) /\ entries[i].name = n}
FreeSlot == {i \in Slot : ~InUse(i)}

-----------------------------------------------------------------------------
(* bitmap_scan finds the first run that fits; a run of none is at 0.       *)
Fits(cnt) == {s \in 0..(NumSectors - cnt) : Run(s, cnt) \cap used = {}}
Allocated(cnt, s) ==
  /\ s = Min(Fits(cnt))
  /\ used' = used \cup Run(s, cnt)

Release(s, cnt) == used' = used \ Run(s, cnt)

(* filesys_create and inode_create: the steps of a creation.               *)
CreateSector(n, length) ==
  /\ op = Idle
  /\ IF Fits(1) = {} THEN UNCHANGED <<used, op>>
     ELSE \E s \in Sector :
            /\ Allocated(1, s)
            /\ op' = [at |-> "data", name |-> n, length |-> length, sector |-> s]
  /\ UNCHANGED <<block, entries, inode>>

CreateData ==
  /\ op.at = "data" /\ op.length >= 0
  /\ LET cnt == SectorsFor(op.length) IN
     IF Fits(cnt) = {} THEN
       /\ op' = [at |-> "undo", sector |-> op.sector]
       /\ UNCHANGED used
     ELSE \E s \in Sector :
       /\ Allocated(cnt, s)
       /\ op' = [at |-> "inode", name |-> op.name, length |-> op.length,
                 sector |-> op.sector, start |-> s]
  /\ UNCHANGED <<block, entries, inode>>

CreateInode ==
  /\ op.at = "inode"
  /\ block' = [block EXCEPT ![op.sector] = InodeBlock(op.start, op.length)]
  /\ op' = [at |-> "zeros", name |-> op.name, length |-> op.length,
            sector |-> op.sector, start |-> op.start, i |-> 0]
  /\ UNCHANGED <<used, entries, inode>>

(* variant: the sectors keep what the file before left in them *)
CreateZerosSkipped ==
  /\ op.at = "zeros" /\ op.i < SectorsFor(op.length)
  /\ op' = [op EXCEPT !.i = @ + 1]
  /\ UNCHANGED <<block, used, entries, inode>>

CreateZeros ==
  /\ op.at = "zeros" /\ op.i < SectorsFor(op.length)
  /\ block' = [block EXCEPT ![op.start + op.i] = Cells(0)]
  /\ op' = [op EXCEPT !.i = @ + 1]
  /\ UNCHANGED <<used, entries, inode>>

(* dir_add *)
CreateEntry ==
  /\ op.at = "zeros" /\ op.i = SectorsFor(op.length)
  /\ IF op.name \notin Names \/ Lookup(op.name) # {} \/ FreeSlot = {} THEN
       /\ op' = [at |-> "undo", sector |-> op.sector]
       /\ UNCHANGED entries
     ELSE
       /\ entries' = [entries EXCEPT ![Min(FreeSlot)] =
                        [name |-> op.name, sector |-> op.sector]]
       /\ op' = Idle
  /\ UNCHANGED <<block, used, inode>>

(* A failed creation gives back the sector of the inode and nothing else.  *)
CreateUndo ==
  /\ op.at = "undo"
  /\ Release(op.sector, 1)
  /\ op' = Idle
  /\ UNCHANGED <<block, entries, inode>>

-----------------------------------------------------------------------------
(* variant: the sectors are released although others have the file open *)
CloseInodeEarly(ino, s) ==
  LET last == ino[s].open_cnt = 1 IN
  /\ inode' = [ino EXCEPT ![s] = IF last THEN NotOpen ELSE [ino[s] EXCEPT !.open_cnt = @ - 1]]
  /\ op' = IF ino[s].removed
           THEN [at |-> "release", sector |-> s,
                 start |-> ino[s].start, length |-> ino[s].length]
           ELSE Idle

(* inode_close, with ino the list it finds: the last close of a removed    *)
(* file goes on to release its sectors.                                    *)
CloseInode(ino, s) ==
  LET last == ino[s].open_cnt = 1 IN
  /\ inode' = [ino EXCEPT ![s] = IF last THEN NotOpen ELSE [ino[s] EXCEPT !.open_cnt = @ - 1]]
  /\ op' = IF last /\ ino[s].removed
           THEN [at |-> "release", sector |-> s,
                 start |-> ino[s].start, length |-> ino[s].length]
           ELSE Idle

ReleaseInode ==
  /\ op.at = "release"
  /\ Release(op.sector, 1)
  /\ op' = [at |-> "releaseData", start |-> op.start, length |-> op.length]
  /\ UNCHANGED <<block, entries, inode>>

(* variant: a last sector that is not full is forgotten *)
ReleaseDataRounded ==
  /\ op.at = "releaseData"
  /\ Release(op.start, op.length \div SectorSize)
  /\ op' = Idle
  /\ UNCHANGED <<block, entries, inode>>

ReleaseData ==
  /\ op.at = "releaseData"
  /\ Release(op.start, SectorsFor(op.length))
  /\ op' = Idle
  /\ UNCHANGED <<block, entries, inode>>

(* dir_remove *)
RemoveEntry(n) ==
  /\ op = Idle
  /\ \E i \in Lookup(n) :
       LET s == entries[i].sector IN
       /\ entries' = [entries EXCEPT ![i] = NoEntry]
       /\ CloseInode([Opened(s) EXCEPT ![s].removed = TRUE], s)
  /\ UNCHANGED <<block, used>>

-----------------------------------------------------------------------------
(* variant: the end of the file is not looked at *)
ChunkPastEnd(s, pos, size) == Min({size, SectorSize - (pos % SectorSize)})

(* inode_read_at and inode_write_at go from sector to sector.              *)
Chunk(s, pos, size) ==
  Min({size, inode[s].length - pos, SectorSize - (pos % SectorSize)})
SectorOf(s, pos) == inode[s].start + pos \div SectorSize

WriteChunk ==
  /\ op.at = "write"
  /\ LET s == op.sector
         n == Chunk(s, op.pos, op.size)
         from == op.pos % SectorSize IN
     /\ n > 0
     /\ block' = [block EXCEPT ![SectorOf(s, op.pos)] =
          [i \in DOMAIN @ |-> IF i \in from..(from + n - 1) THEN op.value ELSE @[i]]]
     /\ op' = [op EXCEPT !.pos = @ + n, !.size = @ - n]
  /\ UNCHANGED <<used, entries, inode>>

(* The cells a read returns, chunk by chunk.                               *)
ReadAt(s, pos, size) ==
  LET read[n \in 0..size] ==   \* what is returned when n cells are left to read
        LET at == pos + size - n
            chunk == Chunk(s, at, n)
            ofs == at % SectorSize IN
        IF n = 0 \/ chunk <= 0 THEN [i \in {} |-> 0]
        ELSE [i \in (at..(at + chunk - 1)) \cup DOMAIN read[n - chunk] |->
                IF i < at + chunk THEN block[SectorOf(s, at)][ofs + i - at]
                ELSE read[n - chunk][i]]
  IN read[size]

(* Nothing but the disk survives when the machine goes off.                *)
PowerOff ==
  /\ inode' = [s \in Sector |-> NotOpen] /\ op' = Idle
  /\ UNCHANGED diskVars
=============================================================================
