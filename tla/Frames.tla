------------------------------- MODULE Frames -------------------------------
(***************************************************************************)
(* Virtual memory (vm/vm.c, anon.c, file.c, uninit.c): the address space   *)
(* of one running program, its page faults, the frames of the user pool,   *)
(* the swap disk, mapped files and the growth of the stack.                *)
(*                                                                         *)
(* A virtual address is the number of its page, the contents of a page is  *)
(* one value.  Frames are taken from the pool in order and never given     *)
(* back while the program runs, so frame_table is 1..used.  Each address   *)
(* of Files is where the program maps one file.                            *)
(***************************************************************************)
EXTENDS Integers, FiniteSets, FiniteSetsExt

CONSTANTS
  Top,         \* page of the initial stack, the highest address
  StackLimit,  \* lowest page that USER_STACK - 0x100000 allows
  Segment,     \* pages that load_segment creates
  Files,       \* addresses given to mmap
  FullPages,   \* per file: pages it fills completely
  HasRest,     \* per file: whether it has bytes beyond those
  NumFrames,   \* pages in the user pool
  NumSlots,    \* slots in swap_table
  Values       \* contents a program writes; 0 is what executables and files hold

VA == 1..Top
Frame == 1..NumFrames
Slot == 1..NumSlots

ASSUME FramesAssumption ==
  /\ Top \in Nat /\ StackLimit \in VA /\ NumFrames \in Nat \ {0} /\ NumSlots \in Nat
  /\ Segment \subseteq VA \ {Top} /\ Files \subseteq VA \ (Segment \cup {Top})
  /\ FullPages \in [Files -> Nat] /\ HasRest \in [Files -> BOOLEAN]
  /\ \A addr \in Files : addr + FullPages[addr] \in VA
  /\ Values \subseteq Nat /\ 0 \in Values

VARIABLES
  page,      \* the supplemental page table
  frame,     \* page table: the frame a present page is mapped to, or 0
  accessed,  \* accessed bits of the pages some frame belongs to
  dirty,     \* dirty bits of file pages: nobody asks for those of the others
  used,      \* length of frame_table
  owner,     \* frame.page
  start,     \* where vm_get_victim goes on; 0 is the end of frame_table
  mem,       \* contents of the frames
  swap,      \* contents of the slots that swap_table marks, Unused elsewhere
  disk,      \* contents of the files, by the address they are mapped to
  stackBottom,
  state,     \* "run"; "done" after exit; "broken" when pages are damaged
  memory,    \* what the program last wrote to each page, Unknown if nothing
  unmapped   \* pages of files that munmap has been called for

tableVars == <<page, stackBottom>>
pteVars   == <<frame, accessed, dirty>>
frameVars == <<used, owner, start, mem>>
storeVars == <<swap, disk>>
history == <<memory, unmapped>>
vars == <<tableVars, pteVars, frameVars, storeVars, state, history>>

Unused == -1
Unknown == -2

(* uninit_new; type and backed (page_read_bytes > 0) stay readable when    *)
(* ops changes, slot is swap_index.                                        *)
NewPage(type, backed) ==
  [ops |-> "uninit", type |-> type, backed |-> backed, slot |-> 0]
NoPage == [NewPage("none", FALSE) EXCEPT !.ops = "none"]

Found(va) == page[va].ops # "none"
Present(va) == frame[va] # 0

(* load: segments are created, the stack page is claimed at once.          *)
Init ==
  /\ page = [va \in VA |->
       IF va = Top THEN [NewPage("stack", FALSE) EXCEPT !.ops = "anon"]
       ELSE IF va \in Segment THEN NewPage("segment", TRUE) ELSE NoPage]
  /\ stackBottom = Top
  /\ frame = [va \in VA |-> IF va = Top THEN 1 ELSE 0]
  /\ accessed = {} /\ dirty = {}
  /\ used = 1 /\ owner = [f \in Frame |-> IF f = 1 THEN Top ELSE 0]
  /\ start = 0
  /\ mem = [f \in Frame |-> 0]
  /\ swap = [s \in Slot |-> Unused] /\ disk = [va \in VA |-> 0]
  /\ state = "run"
  /\ memory = [va \in VA |-> IF va \in Segment THEN 0 ELSE Unknown]
  /\ unmapped = {}

-----------------------------------------------------------------------------
(* An access to a present page.  A page stays in the table after munmap,   *)
(* so the program can go on using it; that is no write to the file for     *)
(* anybody, so what the page and the file hold afterwards is Unknown.      *)
Read(va) ==
  /\ state = "run" /\ Present(va)
  /\ accessed' = accessed \cup {va}
  /\ UNCHANGED <<tableVars, frame, dirty, frameVars, storeVars, state, history>>

Write(va, v) ==
  /\ state = "run" /\ Present(va)
  /\ mem' = [mem EXCEPT ![frame[va]] = v]
  /\ memory' = [memory EXCEPT ![va] = IF va \in unmapped THEN Unknown ELSE v]
  /\ accessed' = accessed \cup {va}
  /\ dirty' = IF page[va].type = "file" THEN dirty \cup {va} ELSE dirty
  /\ UNCHANGED <<tableVars, frame, used, owner, start, storeVars, state, unmapped>>

-----------------------------------------------------------------------------
(* vm_get_victim goes round from start: Turn(f) is when it comes to f.     *)
Turn(f) == IF start = 0 \/ f >= start THEN f ELSE f + used
(* It passes by a frame whose page was accessed and clears the bit, so a   *)
(* second frame of the same page (after munmap) is not passed by.          *)
Passed(f) ==
  owner[f] \in accessed /\ \A g \in 1..used : owner[g] = owner[f] => Turn(g) >= Turn(f)
NotPassed == {f \in 1..used : ~Passed(f)}
Earliest(S) == CHOOSE f \in S : \A g \in S : Turn(f) <= Turn(g)
Latest(S) == CHOOSE f \in S : \A g \in S : Turn(f) >= Turn(g)

Owners == {owner[f] : f \in 1..used}

(* Variant: whoever is next, accessed or not.                              *)
VictimNext == Earliest(1..used)
Victim == IF NotPassed = {} THEN Latest(1..used) ELSE Earliest(NotPassed)

PassedBy(victim) ==
  {owner[f] : f \in {g \in 1..used : Turn(g) < Turn(victim) \/ Passed(victim)}}

(* swap_out of page va, whose frame is taken: to a slot, or to its file if *)
(* it is dirty.  A variant of swap_table has a bit too many, another never *)
(* writes to the file.                                                     *)
FreeSlotsTooMany ==
  {s \in 1..(NumSlots + 1) : s \notin Slot \/ swap[s] = Unused}
FreeSlots == {s \in Slot : swap[s] = Unused}
WrittenBackNever(va) == FALSE
WrittenBack(va) == page[va].ops = "file" /\ page[va].backed /\ va \in dirty

(* palloc_get_page would not return NULL.                                  *)
PoolFree == used < NumFrames

(* vm_get_frame: the frame it returns, a new one without an owner or one   *)
(* that is taken from its owner.  When no slot is free anon_swap_out       *)
(* returns false, nobody looks at it, and the frame is used although the   *)
(* old page is still mapped to it.                                         *)
Claimable == IF PoolFree THEN used + 1 ELSE Victim
SwapFull(f) == owner[f] # 0 /\ page[owner[f]].ops = "anon" /\ FreeSlots = {}

(* What swap_in puts into the frame; the first time, uninit_initialize.    *)
Contents(va, p, f, files) ==
  IF p.ops = "anon" THEN swap[p.slot]
  ELSE IF p.type = "stack" THEN mem[f]
  ELSE IF p.type = "file" /\ p.backed THEN files[va] ELSE 0

Initialized(p) ==
  IF p.ops # "uninit" THEN p
  ELSE [p EXCEPT !.ops = IF p.type = "file" THEN "file" ELSE "anon"]

(* Variant of swap_table after swap_in: the slot stays taken.              *)
SlotKept(p, slots) == slots
SlotFreed(p, slots) ==
  IF p.ops = "anon" THEN [slots EXCEPT ![p.slot] = Unused] ELSE slots

(* The page table when f is taken from out for va; a variant leaves the    *)
(* old page mapped.                                                        *)
InstalledOver(va, f, out) == [frame EXCEPT ![va] = f]
Installed(va, f, out) ==
  [v \in VA |-> IF v = va THEN f ELSE IF v = out THEN 0 ELSE frame[v]]

(* vm_do_claim_page for page p at va, with the frame f.                    *)
Claim(va, p, f) ==
  LET out == owner[f]
      toSwap == out # 0 /\ page[out].ops = "anon"
      toFile == out # 0 /\ WrittenBack(out)
      slot == Min(FreeSlots)
      files == IF toFile THEN [disk EXCEPT ![out] = mem[frame[out]]] ELSE disk
      slots == IF toSwap THEN [swap EXCEPT ![slot] = mem[f]] ELSE swap
      table == IF toSwap THEN [page EXCEPT ![out].slot = slot] ELSE page
      passed == IF out = 0 THEN {} ELSE PassedBy(f)
      read == IF toFile THEN {out} ELSE {}
  IN  /\ used' = IF out = 0 THEN f ELSE used
      /\ start' = IF out = 0 \/ Passed(f) THEN start ELSE f
      /\ owner' = [owner EXCEPT ![f] = va]
      /\ frame' = Installed(va, f, out)
      /\ accessed' = (((accessed \ passed) \cup read) \ {va}) \cap Owners'
      /\ dirty' = dirty \ {va, out}
      /\ mem' = [mem EXCEPT ![f] = Contents(va, p, f, files)]
      /\ disk' = files
      /\ swap' = SlotFreed(p, slots)
      /\ page' = [table EXCEPT ![va] = Initialized(p)]

(* Two pages are in one frame, a panic, or an access to a file that is not *)
(* there: what the code then does is not modelled, and no property speaks  *)
(* of it.                                                                  *)
Damage == state' = "broken" /\ UNCHANGED <<tableVars, pteVars, frameVars, storeVars, history>>

(* vm_try_handle_fault: a page the table knows is claimed.                 *)
Fault(va) ==
  /\ state = "run" /\ ~Present(va) /\ Found(va)
  /\ LET f == Claimable
     IN  IF SwapFull(f) THEN Damage
         ELSE Claim(va, page[va], f) /\ UNCHANGED <<stackBottom, state, history>>

(* One it does not know, where the stack may grow: the page below the      *)
(* bottom is created and claimed, whatever the address; the program        *)
(* repeats the access.  vm_alloc_page panics if that page exists.          *)
StackGrowth(va) ==
  /\ state = "run" /\ ~Found(va) /\ va >= StackLimit
  /\ LET f == Claimable
     IN  IF Found(stackBottom - 1) \/ SwapFull(f) THEN Damage
         ELSE /\ Claim(stackBottom - 1, NewPage("stack", FALSE), f)
              /\ stackBottom' = stackBottom - 1
              /\ UNCHANGED <<state, history>>

-----------------------------------------------------------------------------
(* do_mmap creates one page more than the file fills: the rest of the file,*)
(* or a page without bytes.  It panics where a page exists; the first is   *)
(* tested by mmap_syscall.                                                 *)
Mapping(addr) == addr..(addr + FullPages[addr])

Mmap(addr) ==
  /\ state = "run" /\ ~Found(addr)
  /\ IF \E va \in Mapping(addr) : Found(va) THEN Damage
     ELSE /\ page' = [va \in VA |->
               IF va \notin Mapping(addr) THEN page[va]
               ELSE NewPage("file", va < addr + FullPages[addr] \/ HasRest[addr])]
          /\ memory' = [va \in VA |->
               IF va \in Mapping(addr) THEN disk[va] ELSE memory[va]]
          /\ UNCHANGED <<pteVars, frameVars, storeVars, stackBottom, state, unmapped>>

(* do_munmap goes on to the first address without a page.  The pages stay  *)
(* in the table.                                                           *)
Onward(addr) == {va \in VA : va >= addr /\ \A w \in addr..va : Found(w)}

(* The files after it: a variant saves the first page only.                *)
SavedFirst(pages) ==
  [va \in VA |-> IF va \in pages /\ (va - 1) \notin pages /\ WrittenBack(va)
                 THEN mem[frame[va]] ELSE disk[va]]
Saved(pages) ==
  [va \in VA |-> IF va \in pages /\ WrittenBack(va) THEN mem[frame[va]] ELSE disk[va]]

(* It takes each page for one of a file: one that is not would be written  *)
(* to, or read from, a file that is not there.                             *)
Unmap(pages) ==
  /\ disk' = Saved(pages)
  /\ accessed' = accessed \cup {va \in pages : WrittenBack(va)}
  /\ dirty' = dirty \ pages
  /\ frame' = [va \in VA |-> IF va \in pages THEN 0 ELSE frame[va]]
  /\ UNCHANGED <<tableVars, frameVars, swap, memory>>

OnlyFiles(pages) == \A va \in pages : page[va].type = "file"

Munmap(addr) ==
  /\ state = "run" /\ Found(addr)
  /\ IF OnlyFiles(Onward(addr))
       THEN /\ Unmap(Onward(addr)) /\ UNCHANGED state
            /\ unmapped' = unmapped \cup Onward(addr)
       ELSE Damage

(* process_cleanup: every file page is unmapped, then the table is freed.  *)
FilePages == {va \in VA : page[va].ops = "file"}

Exit ==
  /\ state = "run"
  /\ LET pages == UNION {Onward(va) : va \in FilePages}
     IN  IF OnlyFiles(pages)
           THEN Unmap(pages) /\ state' = "done" /\ UNCHANGED unmapped
           ELSE Damage

Stopped == state # "run" /\ UNCHANGED vars

Next ==
  \/ \E va \in VA : \/ Read(va) \/ Fault(va) \/ StackGrowth(va)
                    \/ \E v \in Values : Write(va, v)
  \/ \E addr \in Files : Mmap(addr) \/ Munmap(addr)
  \/ Exit \/ Stopped

Spec == Init /\ [][Next]_vars

-----------------------------------------------------------------------------
PageType ==
  [ops : {"none", "uninit", "anon", "file"}, backed : BOOLEAN, slot : 0..NumSlots,
   type : {"none", "segment", "stack", "file"}]

TypeOK ==
  /\ page \in [VA -> PageType] /\ stackBottom \in VA
  /\ frame \in [VA -> 0..NumFrames]
  /\ accessed \subseteq VA /\ dirty \subseteq VA
  /\ used \in 0..NumFrames /\ start \in 0..NumFrames
  /\ owner \in [Frame -> 0..Top]
  /\ mem \in [Frame -> Values]
  /\ swap \in [Slot -> Values \cup {Unused}] /\ disk \in [VA -> Values]
  /\ state \in {"run", "done", "broken"}
  /\ memory \in [VA -> Values \cup {Unknown}] /\ unmapped \subseteq VA

(* What the program would read at va now, in a frame, on the swap disk, in *)
(* the file or not yet loaded: what it wrote last, through any number of   *)
(* evictions.  Bytes beyond the end of a file are not kept.  Nothing is    *)
(* promised of an unmapped page: by tests/vm/mmap-unmap.c:1 it "is         *)
(* inaccessible", though the code lets the program read the file again.    *)
Visible(va) ==
  IF Present(va) THEN mem[frame[va]]
  ELSE IF page[va].ops = "anon" THEN swap[page[va].slot]
  ELSE IF page[va].type = "file" THEN disk[va] ELSE 0

ContentsKept ==
  state = "run" =>
    \A va \in VA \ unmapped :
      Found(va) /\ memory[va] # Unknown /\ (page[va].type = "file" => page[va].backed)
        => Visible(va) = memory[va]

(* No two pages share a frame, and the frame knows the page it has to save *)
(* when it is taken.                                                       *)
FrameOfOnePage ==
  \A va \in VA : Present(va) =>
    /\ frame[va] \in 1..used /\ owner[frame[va]] = va
    /\ Found(va) /\ page[va].ops # "uninit"

(* A slot is taken exactly while one anonymous page is in it.              *)
SlotOfOnePage ==
  LET swapped == {va \in VA : page[va].ops = "anon" /\ ~Present(va)}
  IN  /\ \A va, w \in swapped : page[va].slot = page[w].slot => va = w
      /\ {page[va].slot : va \in swapped} = Slot \ FreeSlots

(* Page table, frame_table, pages and swap slots agree, whatever has been  *)
(* evicted, unmapped or loaded again.                                      *)
FramesInv == TypeOK /\ FrameOfOnePage /\ SlotOfOnePage

(* What a page of a file held while it was mapped is in the file when the  *)
(* program has ended, whether it was evicted, unmapped or neither; unless  *)
(* the program wrote to it after munmap.                                   *)
MappedSaved ==
  state = "done" =>
    \A va \in VA : page[va].type = "file" /\ page[va].backed /\ memory[va] # Unknown
      => disk[va] = memory[va]

(* Memory and files have what was written to them.                         *)
MemoryKept == ContentsKept /\ MappedSaved

(* A page that was accessed since the hand went by is not evicted while    *)
(* another was not.  A page that munmap left two frames is not counted.    *)
SecondChance ==
  [][\A f \in Frame :
       /\ owner[f] # 0 /\ owner'[f] # owner[f] /\ owner[f] \in accessed
       /\ \A g \in 1..used : owner[g] = owner[f] => g = f
       => \A g \in 1..used : owner[g] \in accessed]_vars
=============================================================================
