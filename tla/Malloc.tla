------------------------------- MODULE Malloc -------------------------------
(***************************************************************************)
(* The block allocator (threads/malloc.c) over the page pool: a descriptor *)
(* for each block size, with a lock and a list of free blocks; arenas of   *)
(* one page that are divided into blocks; whole pages for big blocks.      *)
(*                                                                         *)
(* A block is its address, in units of one byte; sizes are scaled down     *)
(* with the page.  mem says what each unit holds, as far as its owner can  *)
(* tell the values apart.  What a thread does under a descriptor's lock is *)
(* cut only at the calls of the page allocator.                            *)
(***************************************************************************)
EXTENDS PagePool, KernelLists

CONSTANTS Callers,
          PageSize,   \* PGSIZE
          HeaderSize, \* sizeof (struct arena)
          MinBlock,   \* the smallest block
          Sizes       \* arguments of malloc, calloc and realloc

ASSUME MallocAssumption ==
  /\ Callers \subseteq Actors
  /\ {PageSize, HeaderSize, MinBlock} \subseteq Nat \ {0}
  /\ 2 * HeaderSize <= PageSize
  /\ Sizes \subseteq Nat \ {0}

VARIABLES arena,    \* arena header of each page that begins with one
          freeList, \* desc.free_list
          descLock, \* holder of desc.lock
          mem,      \* contents of the pages
          held,     \* blocks that callers own, with the size they asked for
          job       \* the call each thread is in

heapVars == <<arena, freeList, descLock, mem, held, job>>

(* malloc_init: powers of two below half a page.                           *)
Descs == {s \in MinBlock..(PageSize \div 2 - 1) : \E i \in 0..9 : s = MinBlock * 2 ^ i}

BlocksPerArena(d) == (PageSize - HeaderSize) \div d

Big == 0      \* stands for the null descriptor of a big block
NULL == -1

(* The smallest descriptor that satisfies the request.                     *)
DescFor(size) ==
  LET fit == {d \in Descs : size <= d} IN IF fit = {} THEN Big ELSE Min(fit)

PageCount(size) == (size + HeaderSize + PageSize - 1) \div PageSize

NoArena == [desc |-> NULL, freeCnt |-> 0]
Arenas == [desc : Descs \cup {Big, NULL}, freeCnt : 0..(NumPages * PageSize)]

Units == 0..(NumPages * PageSize - 1)
Span(b, n) == b..(b + n - 1)

PageOf(b) == b \div PageSize
BlockAt(p, d, i) == p * PageSize + HeaderSize + i * d
Blocks(p, d) == [i \in 1..BlocksPerArena(d) |-> BlockAt(p, d, i - 1)]

(* block_size: the units a block has.                                      *)
BlockSize(b) ==
  LET a == arena[PageOf(b)]
  IN IF a.desc = Big THEN PageSize * a.freeCnt - (b % PageSize) ELSE a.desc

(* What a unit holds: the header of an arena, the link of a free block,    *)
(* the 0xcc of freed memory (and of memory that was never used), or what its  *)
(* owner counts on: what it has stored, or the zeroes of calloc.           *)
Contents == {"arena", "link", "cc", "data"}

Written(units, v) == [u \in Units |-> IF u \in units THEN v ELSE mem[u]]

Owned == [block : Units, size : Sizes]
NoBlock == [block |-> NULL, size |-> 0]
NoJob == [op |-> "none", size |-> 0, old |-> NoBlock, block |-> NULL]
Jobs == [op : {"none", "malloc", "realloc", "free"}, size : {0} \cup Sizes,
         old : Owned \cup {NoBlock}, block : Units \cup {NULL}]

HeapInit ==
  /\ arena = [p \in Pages |-> NoArena]
  /\ freeList = [d \in Descs |-> <<>>]
  /\ descLock = [d \in Descs |-> Nobody]
  /\ mem = [u \in Units |-> "cc"]
  /\ held = {}
  /\ job = [t \in Callers |-> NoJob]

Begin(t, op, size, old, place) ==
  /\ at[t] = "idle"
  /\ job' = [job EXCEPT ![t] = [op |-> op, size |-> size, old |-> old, block |-> NULL]]
  /\ Goto(t, place)

(* malloc or calloc of size bytes; realloc of a block the caller owns.     *)
StartMalloc(t, size) ==
  /\ Begin(t, "malloc", size, NoBlock, "alloc")
  /\ UNCHANGED <<used, poolLock, hand, arena, freeList, descLock, mem, held>>

StartRealloc(t, old, size) ==
  /\ Begin(t, "realloc", size, old, "alloc")
  /\ held' = held \ {old}
  /\ UNCHANGED <<used, poolLock, hand, arena, freeList, descLock, mem>>

(* free of a block the caller owns, also as realloc (b, 0).                *)
StartFree(t, old) ==
  /\ Begin(t, "free", 0, old, "free")
  /\ held' = held \ {old}
  /\ UNCHANGED <<used, poolLock, hand, arena, freeList, descLock, mem>>

(* A small request takes its descriptor's lock and looks at the free list; *)
(* a big one goes to the page allocator without a lock.                    *)
Alloc(t) ==
  LET d == DescFor(job[t].size) IN
  /\ at[t] = "alloc"
  /\ IF d = Big THEN Goto(t, "get") /\ UNCHANGED descLock
     ELSE /\ descLock[d] = Nobody
          /\ descLock' = [descLock EXCEPT ![d] = t]
          /\ Goto(t, IF freeList[d] = <<>> THEN "get" ELSE "pop")
  /\ UNCHANGED <<used, poolLock, hand, arena, freeList, mem, held, job>>

AskPages(t) ==
  LET d == DescFor(job[t].size) IN
  /\ GetScan(t, IF d = Big THEN PageCount(job[t].size) ELSE 1)
  /\ UNCHANGED heapVars

(* The page is there: it becomes an arena and its blocks join the list.    *)
NewArena(t, p) ==
  LET d == DescFor(job[t].size) IN
  /\ arena' = [arena EXCEPT ![p] = [desc |-> d, freeCnt |-> BlocksPerArena(d)]]
  /\ freeList' = [freeList EXCEPT ![d] = @ \o Blocks(p, d)]
  /\ mem' = [u \in Units |->
               IF u \in Span(p * PageSize, HeaderSize) THEN "arena"
               ELSE IF u \in Elems(Blocks(p, d)) THEN "link" ELSE mem[u]]
  /\ Goto(t, "pop")
  /\ UNCHANGED <<descLock, job>>

(* The pages are there: the first one gets a header, the rest is the       *)
(* block.                                                                  *)
NewBigBlock(t, p) ==
  /\ arena' = [arena EXCEPT ![p] = [desc |-> Big, freeCnt |-> Cardinality(hand[t])]]
  /\ mem' = Written(Span(p * PageSize, HeaderSize), "arena")
  /\ job' = [job EXCEPT ![t].block = p * PageSize + HeaderSize]
  /\ Goto(t, "return")
  /\ UNCHANGED <<freeList, descLock>>

(* No pages: the lock is released and the call returns NULL.               *)
NoPages(t) ==
  /\ descLock' = [d \in Descs |-> IF descLock[d] = t THEN Nobody ELSE descLock[d]]
  /\ Goto(t, "return")
  /\ UNCHANGED <<arena, freeList, mem, job>>

GotPages(t) ==
  /\ at[t] = "got"
  /\ IF hand[t] = {} THEN NoPages(t)
     ELSE IF DescFor(job[t].size) = Big THEN NewBigBlock(t, Min(hand[t]))
     ELSE NewArena(t, Min(hand[t]))
  /\ hand' = [hand EXCEPT ![t] = {}]
  /\ UNCHANGED <<used, poolLock, held>>

Pop(t) ==
  LET d == DescFor(job[t].size)
      b == Head(freeList[d]) IN
  /\ at[t] = "pop"
  /\ freeList' = [freeList EXCEPT ![d] = Tail(@)]
  /\ arena' = [arena EXCEPT ![PageOf(b)].freeCnt = @ - 1]
  /\ descLock' = [descLock EXCEPT ![d] = Nobody]
  /\ job' = [job EXCEPT ![t].block = b]
  /\ Goto(t, "return")
  /\ UNCHANGED <<used, poolLock, hand, mem, held>>

(* Variant: the whole old block.                                           *)
CopiedAll(t) == Span(job[t].block, BlockSize(job[t].old.block))

(* What realloc copies: the smaller of the old block and the new size.     *)
Copied(t) == Span(job[t].block, Min({job[t].size, BlockSize(job[t].old.block)}))

(* What the block holds when the call is over and the caller has stored to *)
(* what realloc left of it: calloc clears it, realloc copies.              *)
Filled(t) ==
  LET j == job[t] IN
  [u \in Units |->
     IF j.op = "realloc" /\ u \in Copied(t) \ Span(j.block + j.old.size, j.size)
     THEN mem[j.old.block + (u - j.block)]
     ELSE IF u \in Span(j.block, j.size) THEN "data" ELSE mem[u]]

(* The call returns, or realloc goes on to free the old block.             *)
Return(t) ==
  LET j == job[t] IN
  /\ at[t] = "return"
  /\ IF j.block = NULL
     THEN /\ held' = held \cup ({j.old} \ {NoBlock})
          /\ job' = [job EXCEPT ![t] = NoJob]
          /\ Goto(t, "idle")
          /\ UNCHANGED mem
     ELSE /\ held' = held \cup {[block |-> j.block, size |-> j.size]}
          /\ mem' = Filled(t)
          /\ IF j.op = "realloc"
             THEN /\ job' = [job EXCEPT ![t].op = "free", ![t].block = NULL, ![t].size = 0]
                  /\ Goto(t, "free")
             ELSE /\ job' = [job EXCEPT ![t] = NoJob]
                  /\ Goto(t, "idle")
  /\ UNCHANGED <<used, poolLock, hand, arena, freeList, descLock>>

(* free fills a normal block, before it takes the lock; a big block's      *)
(* pages go straight to the page allocator.                                *)
FreeClear(t) ==
  LET b == job[t].old.block
      a == arena[PageOf(b)] IN
  /\ at[t] = "free"
  /\ IF a.desc = Big
     THEN /\ hand' = [hand EXCEPT ![t] = Span(PageOf(b), a.freeCnt)]
          /\ Goto(t, "fill")
          /\ UNCHANGED mem
     ELSE /\ mem' = Written(Span(b, a.desc), "cc")
          /\ Goto(t, "put")
          /\ UNCHANGED hand
  /\ UNCHANGED <<used, poolLock, arena, freeList, descLock, held, job>>

(* Variant: free does not count the block.                                 *)
FreedCountNot(p) == arena[p].freeCnt

FreedCount(p) == arena[p].freeCnt + 1

(* Variant: one block more than there are.                                 *)
EmptyNever(p) == FreedCount(p) > BlocksPerArena(arena[p].desc)

(* The arena has no block in use when this one is freed.                   *)
Empty(p) == FreedCount(p) >= BlocksPerArena(arena[p].desc)

(* Variant: the arena's blocks stay in the list.                           *)
RemainingAll(list, p) == list

Remaining(list, p) == Without(list, {b \in Elems(list) : PageOf(b) = p})

(* Under the lock the block joins the front of the list; the last block of *)
(* an arena takes all of them out again and the page is freed.             *)
FreePut(t) ==
  LET b == job[t].old.block
      p == PageOf(b)
      d == arena[p].desc
      list == <<b>> \o freeList[d] IN
  /\ at[t] = "put" /\ descLock[d] = Nobody
  /\ arena' = [arena EXCEPT ![p].freeCnt = FreedCount(p)]
  /\ mem' = [mem EXCEPT ![b] = "link"]
  /\ IF Empty(p)
     THEN /\ freeList' = [freeList EXCEPT ![d] = Remaining(list, p)]
          /\ hand' = [hand EXCEPT ![t] = {p}]
          /\ descLock' = [descLock EXCEPT ![d] = t]
          /\ Goto(t, "fill")
          /\ UNCHANGED job
     ELSE /\ freeList' = [freeList EXCEPT ![d] = list]
          /\ job' = [job EXCEPT ![t] = NoJob]
          /\ Goto(t, "idle")
          /\ UNCHANGED <<hand, descLock>>
  /\ UNCHANGED <<used, poolLock, held>>

FillPages(t) ==
  /\ FreeFill(t)
  /\ mem' = Written({u \in Units : PageOf(u) \in hand[t]}, "cc")
  /\ arena' = [p \in Pages |-> IF p \in hand[t] THEN NoArena ELSE arena[p]]
  /\ UNCHANGED <<freeList, descLock, held, job>>

(* The last bit is reset: the descriptor's lock is released, if held, and  *)
(* free returns.                                                           *)
ClearPages(t) ==
  /\ FreeBit(t, "idle")
  /\ IF Cardinality(hand[t]) = 1
     THEN /\ descLock' = [d \in Descs |-> IF descLock[d] = t THEN Nobody ELSE descLock[d]]
          /\ job' = [job EXCEPT ![t] = NoJob]
     ELSE UNCHANGED <<descLock, job>>
  /\ UNCHANGED <<arena, freeList, mem, held>>

HeapStep(t) ==
  \/ \E size \in Sizes : StartMalloc(t, size)
  \/ \E b \in held : StartFree(t, b) \/ \E size \in Sizes : StartRealloc(t, b, size)
  \/ Alloc(t) \/ AskPages(t)
  \/ GetFlip(t) /\ UNCHANGED heapVars
  \/ GotPages(t) \/ Pop(t) \/ Return(t)
  \/ FreeClear(t) \/ FreePut(t) \/ FillPages(t) \/ ClearPages(t)

=============================================================================
