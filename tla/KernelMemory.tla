---------------------------- MODULE KernelMemory ----------------------------
(***************************************************************************)
(* The users of the kernel pool together: threads that allocate blocks     *)
(* (Malloc) and processes that build and destroy page tables (PageTables), *)
(* all on one page allocator (PagePool); and a hash table (HashTable),     *)
(* which belongs to one process and notices the heap only when an          *)
(* allocation fails.                                                       *)
(***************************************************************************)
EXTENDS Malloc, PageTables, HashTable

CONSTANT Loads   \* bound: which actors are at work, how many pages the rest
                 \* of the kernel leaves them, how many blocks they have,
                 \* which addresses processes use, and whether somebody
                 \* uses the hash table

ASSUME LoadsAssumption ==
  /\ Actors = Callers \cup Procs /\ Callers \cap Procs = {}
  /\ Loads \subseteq [actors : SUBSET (Callers \cup Procs), pages : 0..NumPages, blocks : Nat,
                      touched : SUBSET Vas, hashing : BOOLEAN]

VARIABLE load    \* the one of Loads that is in force

vars == <<poolVars, heapVars, tableVars, hashVars, load>>

(* Pages that the rest of the kernel has.                                  *)
Elsewhere == load.pages..(NumPages - 1)

(* Blocks that callers own or ask for.                                     *)
Outstanding == Cardinality(held) + Cardinality({t \in Callers : job[t].op \in {"malloc", "realloc"}})

Init ==
  /\ load \in Loads
  /\ used = Elsewhere
  /\ PoolInit /\ HeapInit /\ TablesInit /\ TableInit

Next ==
  /\ UNCHANGED load
  /\ \/ \E t \in Callers \cap load.actors :
          /\ HeapStep(t) /\ Outstanding' <= load.blocks
          /\ UNCHANGED <<tableVars, hashVars>>
     \/ \E p \in Procs \cap load.actors :
          /\ TableStep(p) \/ \E va \in load.touched : UseStep(p, va)
          /\ UNCHANGED <<heapVars, hashVars>>
     \/ load.hashing /\ HashStep /\ UNCHANGED <<poolVars, heapVars, tableVars>>

Spec == Init /\ [][Next]_vars

-----------------------------------------------------------------------------
Places == PoolPlaces \cup {"idle", "alloc", "pop", "return", "free", "put",
                           "walk", "unwind", "unlink", "activate", "destroy"}

TypeOK ==
  /\ used \subseteq Pages
  /\ poolLock \in Actors \cup {Nobody}
  /\ hand \in [Actors -> SUBSET Pages]
  /\ at \in [Actors -> Places]
  /\ arena \in [Pages -> Arenas]
  /\ freeList \in [Descs -> Seq(Units)]
  /\ descLock \in [Descs -> Callers \cup {Nobody}]
  /\ mem \in [Units -> Contents]
  /\ held \subseteq Owned
  /\ job \in [Callers -> Jobs]
  /\ root \in [Procs -> Pages \cup {NoPage}]
  /\ node \in [Pages -> [Index -> Pages \cup {NoPage}]]
  /\ pte \in [Pages -> [Index -> Ptes]]
  /\ frames \subseteq Frames
  /\ walk \in [Procs -> Walks]
  /\ gone \in [Procs -> SUBSET (Pages \cup Frames)]
  /\ running \in Procs
  /\ cr3 \in Pages \cup {BasePml4}
  /\ tlb \subseteq [va : Vas, frame : Frames, dirty : BOOLEAN]

(* Pages that a palloc call has taken or is giving back.                   *)
InHand(a) == IF at[a] \in {"got", "fill", "clear"} THEN hand[a] ELSE {}

(* The ones it is giving back.                                             *)
Freeing(a) == IF at[a] \in {"fill", "clear"} THEN hand[a] ELSE {}

(* Pages of the arena of normal blocks, or of the big block, that begins   *)
(* at page p.                                                              *)
ArenaSpan(p) ==
  IF arena[p].desc = NULL THEN {}
  ELSE IF arena[p].desc = Big THEN Span(p, arena[p].freeCnt) ELSE {p}
ArenaPages(p) == ArenaSpan(p) \ UNION {Freeing(t) : t \in Callers}

(* The nodes of the tree of p, also of the tree that it is destroying, by  *)
(* level and by the indices that lead to them; a node that has been freed  *)
(* and all below it do not belong to the tree.                             *)
Slots == {s \in (0..3) \X Index \X Index : (s[1] < 2 => s[2] = 0) /\ (s[1] < 3 => s[3] = 0)}

Live(p, q) == IF q \in gone[p] THEN NoPage ELSE q
Top(p) == Live(p, IF root[p] # NoPage THEN root[p] ELSE walk[p].root)
LivePdp(p) == Live(p, Down(Top(p), 0))
LivePd(p, i) == Live(p, Down(LivePdp(p), i))
LivePt(p, i, j) == Live(p, Down(LivePd(p, i), j))

NodeAt(p, s) ==
  CASE s[1] = 0 -> Top(p)
    [] s[1] = 1 -> LivePdp(p)
    [] s[1] = 2 -> LivePd(p, s[2])
    [] OTHER -> LivePt(p, s[2], s[3])

(* The frame that p's tree maps va to.                                     *)
FrameAt(p, va) ==
  LET t == LivePt(p, va[1], va[2])
  IN IF t = NoPage \/ ~pte[t][va[3]].present THEN NoPage ELSE Live(p, pte[t][va[3]].frame)

(* What a page of the kernel pool belongs to: an arena or big block, a     *)
(* place in a tree, a call of the page allocator.                          *)
Owners(q) ==
  {<<"arena", p>> : p \in {x \in Pages : q \in ArenaPages(x)}}
  \cup {<<"node", x>> : x \in {y \in Procs \X Slots : NodeAt(y[1], y[2]) = q /\ q \notin Freeing(y[1])}}
  \cup {<<"call", a>> : a \in {x \in Actors : q \in InHand(x)}}

(* No page of the pool is lost and none belongs to two: a page whose bit   *)
(* is set has exactly one owner and a free page none, between the steps of *)
(* palloc_get_multiple and palloc_free_multiple, of a walk that fails and  *)
(* undoes its nodes, and of pml4_destroy, too.                             *)
PagesOwned ==
  \A q \in Pages \ Elsewhere : Cardinality(Owners(q)) = IF q \in used THEN 1 ELSE 0

(* The same for the frames that mmu.c hangs into the trees: a frame that   *)
(* is taken is mapped once, or is the argument of a pml4_set_page that has *)
(* not succeeded yet; pml4_destroy frees the ones still mapped, once.      *)
FrameOwners(f) ==
  {<<"mapped", x>> : x \in {y \in Procs \X (Index \X Index \X Index) : FrameAt(y[1], y[2]) = f}}
  \cup {<<"call", p>> : p \in {x \in Procs : walk[x].frame = f}}

FramesOwned ==
  \A f \in Frames : Cardinality(FrameOwners(f)) = IF f \in frames THEN 1 ELSE 0

(* The page allocator and its clients agree on every page, at each step.   *)
PoolInv == TypeOK /\ PagesOwned /\ FramesOwned

-----------------------------------------------------------------------------
(* Blocks that callers own or that a call of theirs is about to give them  *)
(* or to free, and blocks in the free lists.                               *)
Handed ==
  {h.block : h \in held}
  \cup ({job[t].block : t \in Callers} \ {NULL})
  \cup {job[t].old.block : t \in {u \in Callers : at[u] \notin {"fill", "clear"}
                                              /\ job[u].old # NoBlock
                                              /\ job[u].old \notin held}}

Free == UNION {Elems(freeList[d]) : d \in Descs}

Headers(p) == IF arena[p].desc = NULL THEN {} ELSE Span(p * PageSize, HeaderSize)

(* What malloc gives out is memory of its own: every block, free or not,   *)
(* lies in an arena that is valid (as block_to_arena asserts) and whose    *)
(* pages are taken; it overlaps no other block and no arena header, and is *)
(* not in a free list and handed out, or in a list twice.                  *)
BlocksDisjoint ==
  /\ \A b \in Handed \cup Free :
       /\ arena[PageOf(b)].desc # NULL
       /\ \A u \in Span(b, BlockSize(b)) :
            /\ PageOf(u) \in used
            /\ u \notin Headers(PageOf(u))
            /\ \A c \in (Handed \cup Free) \ {b} : u \notin Span(c, BlockSize(c))
  /\ Handed \cap Free = {}
  /\ \A d \in Descs : NoDuplicates(freeList[d])

(* free_cnt of an arena is the number of its blocks in the free list, and  *)
(* an arena without a block in use does not stay: while nobody is inside   *)
(* the descriptor's lock.                                                  *)
ArenaCounts ==
  \A d \in Descs : descLock[d] = Nobody =>
    \A p \in Pages : arena[p].desc = d =>
      /\ arena[p].freeCnt = Cardinality({b \in Elems(freeList[d]) : PageOf(b) = p})
      /\ arena[p].freeCnt < BlocksPerArena(d)

(* Nothing the allocator does changes what a caller has stored in a block, *)
(* what calloc has cleared or realloc has copied; nor do callers and the   *)
(* 0xcc of free reach the headers and links of the allocator.              *)
ContentsKept ==
  /\ \A h \in held \cup {job[t].old : t \in {u \in Callers : job[u].op = "realloc"}} :
       h # NoBlock => \A u \in Span(h.block, h.size) : mem[u] = "data"
  /\ \A p \in Pages : \A u \in Headers(p) : mem[u] = "arena"
  /\ \A b \in Free : mem[b] = "link"

(* No path through the allocators, of success or failure, leaves with a    *)
(* lock: a thread holds the pool's while it sets bits, and a descriptor's  *)
(* while it refills that descriptor or gives back one of its arenas.       *)
LocksReleased ==
  /\ \A a \in Actors : poolLock = a <=> at[a] = "flip"
  /\ \A d \in Descs, t \in Callers : descLock[d] = t =>
       \/ at[t] \in {"get", "flip", "got", "pop"} /\ DescFor(job[t].size) = d
       \/ at[t] \in {"fill", "clear"}

(* Threads that wait for a lock do not wait in a circle: whenever one is   *)
(* inside a call, one that is does not have to wait.                       *)
HasToWait(a) ==
  \/ at[a] = "get" /\ poolLock # Nobody
  \/ at[a] = "alloc" /\ DescFor(job[a].size) # Big /\ descLock[DescFor(job[a].size)] # Nobody
  \/ at[a] = "put" /\ descLock[arena[PageOf(job[a].old.block)].desc] # Nobody

CallsGoOn ==
  (\E a \in Actors : at[a] # "idle") => \E a \in Actors : at[a] # "idle" /\ ~HasToWait(a)

(* Blocks are disjoint, counted, and keep what their owners put there;     *)
(* locks are released, so that every call can come to its end.             *)
HeapInv == BlocksDisjoint /\ ArenaCounts /\ ContentsKept /\ LocksReleased /\ CallsGoOn

-----------------------------------------------------------------------------
(* The TLB is never behind the page tables in memory: a cached translation *)
(* is the one the active tree has, and bits that the processor will not    *)
(* set again because it thinks they are set are set.  pml4_clear_page,     *)
(* pml4_set_dirty and pml4_set_accessed must flush for this.               *)
TlbCurrent ==
  \A e \in tlb :
    /\ Mapped(cr3, e.va) /\ GetPage(cr3, e.va) = e.frame
    /\ Entry(cr3, e.va).accessed
    /\ e.dirty => Entry(cr3, e.va).dirty

(* The processor never runs on page tables that have been freed, whatever  *)
(* interrupts process_cleanup ("Correct ordering here is crucial",         *)
(* process.c): the active root is a live process's or not yet touched.     *)
ActiveTreeWhole ==
  cr3 # BasePml4 =>
    \E p \in Procs :
      \/ root[p] = cr3
      \/ walk[p].root = cr3 /\ at[p] = "activate"

(* What the processor translates with is what the kernel has in memory.    *)
ProcessorInv == TlbCurrent /\ ActiveTreeWhole

(* The trees implement maps from addresses to frames: pml4_set_page maps   *)
(* one address in one step or, out of memory, changes nothing, and         *)
(* pml4_destroy is seen as emptying the map at once.  (While a failed walk *)
(* has freed a node and not unlinked it, the entry may lead into the tree  *)
(* of another process; nobody follows it, and FrameAt leaves it out.)      *)
NotMapped == [frame |-> NoPage, dirty |-> FALSE]

AddressMap ==
  [p \in Procs |-> [va \in Vas |->
     IF root[p] # NoPage /\ FrameAt(p, va) # NoPage
     THEN [frame |-> FrameAt(p, va), dirty |-> Entry(root[p], va).dirty]
     ELSE NotMapped]]

Maps == INSTANCE AddressMaps
          WITH Proc <- Procs, Va <- Vas, Frame <- Frames, Unmapped <- NotMapped, map <- AddressMap

ImplementsAddressMaps == Maps!Spec

-----------------------------------------------------------------------------
(* Every element of the hash table is in the bucket that find_bucket will  *)
(* look in, once, and elem_cnt counts them, whatever the table has grown,  *)
(* shrunk or failed to.                                                    *)
TableSound ==
  /\ \A i \in DOMAIN buckets :
       /\ NoDuplicates(buckets[i])
       /\ \A e \in Elems(buckets[i]) : BucketOf(e, Len(buckets)) = i
  /\ elemCnt = Cardinality(Members(buckets))

(* The table implements a set of elements with different keys: each call   *)
(* finds, returns and replaces the equal element if there is one, and an   *)
(* allocation that fails changes nothing that a caller sees.               *)
Keyed == INSTANCE KeyedSet
           WITH Element <- Elements, KeyOf <- Key, None <- NoElement,
                members <- Members(buckets), answer <- result

ImplementsKeyedSet == Keyed!Spec

=============================================================================
