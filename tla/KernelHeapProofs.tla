-------------------------- MODULE KernelHeapProofs --------------------------
(***************************************************************************)
(* Theorems about KernelMemory: the heap, and the whole.                   *)
(*                                                                         *)
(* HeapOK says what the heap needs beside MemInv of KernelMemoryProofs:    *)
(* arenas that do not overlap, blocks that are free or have one owner,     *)
(* counters, where each call is and what memory holds.  Together they are  *)
(* KernelInv, which is inductive, for any number of pages, threads,        *)
(* processes and blocks; PoolInv and HeapInv follow.                       *)
(*                                                                         *)
(* With CacheInv, what the processor has cached is what the tree of the    *)
(* running process says.  ProcessorInv follows, and that mmu.c implements  *)
(* AddressMaps: every step is shown as one of the maps or as none (Shown). *)
(***************************************************************************)
EXTENDS KernelMemoryProofs

(* What division yields.                                                   *)
LEMMA DivIs ==
  ASSUME NEW n \in Nat, NEW m \in Nat \ {0}
  PROVE  n \div m \in Nat /\ m * (n \div m) <= n /\ n < m * (n \div m) + m
OBVIOUS

(* A number in its m-ary form.                                             *)
LEMMA DivOf ==
  ASSUME NEW x \in Nat, NEW m \in Nat \ {0}, NEW k \in 0..(m - 1)
  PROVE  (x * m + k) \div m = x /\ (x * m + k) % m = k
OBVIOUS

(* Multiplication by a natural number is monotonic.                        *)
LEMMA TimesMono ==
  ASSUME NEW a \in Int, NEW b \in Int, NEW c \in Nat, a <= b
  PROVE  a * c <= b * c
<1>1. c * (b - a) >= 0
  OBVIOUS
<1> QED BY <1>1

(* A page has room for a header and a block of each size at least.         *)
LEMMA Sizing ==
  /\ PageSize \in Nat \ {0} /\ HeaderSize \in Nat \ {0} /\ HeaderSize < PageSize
  /\ NumPages \in Nat \ {0} /\ Pages = 0..(NumPages - 1)
  /\ Sizes \subseteq Nat \ {0}
  /\ \A d \in Descs : d \in Nat \ {0} /\ d # Big /\ d # NULL
BY MallocAssumption, PoolAssumption DEF Descs, Big, NULL, Pages

(* The blocks of an arena fit in its page.                                 *)
LEMMA PerArena ==
  ASSUME NEW d \in Descs
  PROVE  /\ BlocksPerArena(d) \in Nat \ {0}
         /\ BlocksPerArena(d) * d + HeaderSize <= PageSize
         /\ BlocksPerArena(d) <= PageSize
<1>1. d \in Nat \ {0} /\ d < PageSize \div 2
  BY MallocAssumption DEF Descs
<1>2. PageSize \in Nat \ {0} /\ HeaderSize \in Nat \ {0} /\ HeaderSize < PageSize /\
        2 * HeaderSize <= PageSize
  BY Sizing, MallocAssumption
<1>3. 2 * (PageSize \div 2) <= PageSize
  BY <1>2, DivIs
<1>4. d <= PageSize - HeaderSize
  BY <1>1, <1>2, <1>3
<1>5. PICK n : n = PageSize - HeaderSize
  OBVIOUS
<1>6. n \in Nat /\ d <= n /\ BlocksPerArena(d) = n \div d
  BY <1>2, <1>4, <1>5 DEF BlocksPerArena
<1>7. n \div d \in Nat /\ d * (n \div d) <= n /\ n < d * (n \div d) + d
  BY <1>1, <1>6, DivIs
<1>8. n \div d # 0
  BY <1>1, <1>6, <1>7
<1>9. n \div d <= d * (n \div d)
  BY <1>1, <1>7
<1> QED BY <1>1, <1>2, <1>5, <1>6, <1>7, <1>8, <1>9

(* A unit of memory is in the page it was counted from.                    *)
LEMMA PageOfUnit ==
  ASSUME NEW x \in Pages, NEW k \in 0..(PageSize - 1)
  PROVE  PageOf(x * PageSize + k) = x /\ x * PageSize + k \in Units /\ (x * PageSize + k) % PageSize = k
<1>1. x \in Nat /\ x + 1 <= NumPages /\ NumPages \in Nat /\ PageSize \in Nat \ {0}
  BY Sizing
<1>2. (x + 1) * PageSize <= NumPages * PageSize
  BY <1>1, TimesMono
<1>3. (x + 1) * PageSize = x * PageSize + PageSize
  BY <1>1
<1>4. x * PageSize \in Nat /\ NumPages * PageSize \in Nat
  BY <1>1
<1> QED BY <1>1, <1>2, <1>3, <1>4, DivOf DEF PageOf, Units

(* The page of a unit of memory, and where that begins and ends.           *)
LEMMA UnitPage ==
  ASSUME NEW u \in Units
  PROVE  PageOf(u) \in Pages /\ u >= PageOf(u) * PageSize /\ u < PageOf(u) * PageSize + PageSize
<1>1. PageSize \in Nat \ {0} /\ NumPages \in Nat
  BY Sizing
<1>2. u \in Nat /\ u < NumPages * PageSize
  BY <1>1 DEF Units
<1>3. PICK x : x = u \div PageSize
  OBVIOUS
<1>4. x \in Nat /\ PageSize * x <= u /\ u < PageSize * x + PageSize
  BY <1>1, <1>2, <1>3, DivIs
<1>5. x < NumPages
  <2> SUFFICES ASSUME NumPages <= x PROVE FALSE
    BY <1>1, <1>4
  <2>1. NumPages * PageSize <= x * PageSize
    BY <1>1, <1>4, TimesMono
  <2> QED BY <2>1, <1>1, <1>2, <1>4
<1> QED BY <1>1, <1>3, <1>4, <1>5 DEF PageOf, Pages

(* The units of a block lie in its page behind the header.                 *)
LEMMA NormalUnits ==
  ASSUME NEW x \in Pages, NEW d \in Descs, NEW i \in 0..(BlocksPerArena(d) - 1),
         NEW u \in Span(BlockAt(x, d, i), d)
  PROVE  u \in Units /\ PageOf(u) = x /\ u >= x * PageSize + HeaderSize
<1>1. BlocksPerArena(d) \in Nat /\ BlocksPerArena(d) * d + HeaderSize <= PageSize /\ d \in Nat \ {0}
      /\ HeaderSize \in Nat /\ PageSize \in Nat /\ x \in Nat
  BY PerArena, Sizing
<1>2. PICK k : k = u - x * PageSize
  OBVIOUS
<1>3. PICK base : base = x * PageSize
  OBVIOUS
<1>4. base \in Nat /\ i * d \in Nat
  BY <1>1, <1>3
<1>5. u \in base + HeaderSize + i * d .. base + HeaderSize + i * d + d - 1
  BY <1>3 DEF Span, BlockAt
<1>6. (i + 1) * d <= BlocksPerArena(d) * d /\ (i + 1) * d = i * d + d
  BY <1>1, TimesMono
<1>7. k \in Int /\ k >= HeaderSize + i * d /\ k <= HeaderSize + i * d + d - 1
  BY <1>1, <1>2, <1>3, <1>4, <1>5
<1>8. k \in HeaderSize..(PageSize - 1) /\ u = base + k
  BY <1>1, <1>2, <1>3, <1>4, <1>5, <1>6, <1>7
<1>9. k \in 0..(PageSize - 1)
  BY <1>1, <1>8
<1>10. PageOf(x * PageSize + k) = x /\ x * PageSize + k \in Units
  BY <1>9, PageOfUnit
<1> QED BY <1>1, <1>3, <1>4, <1>8, <1>10

(* Two blocks of an arena have nothing in common.                          *)
LEMMA NormalApart ==
  ASSUME NEW x \in Pages, NEW d \in Descs, NEW i \in 0..(BlocksPerArena(d) - 1),
         NEW j \in 0..(BlocksPerArena(d) - 1), i # j, NEW u \in Span(BlockAt(x, d, i), d)
  PROVE  u \notin Span(BlockAt(x, d, j), d) /\ BlockAt(x, d, i) # BlockAt(x, d, j)
<1>1. BlocksPerArena(d) \in Nat /\ d \in Nat \ {0} /\ HeaderSize \in Nat /\ PageSize \in Nat /\ x \in Nat
  BY PerArena, Sizing
<1>2. PICK base : base = x * PageSize + HeaderSize
  OBVIOUS
<1>3. base \in Nat /\ i * d \in Nat /\ j * d \in Nat
  BY <1>1, <1>2
<1>4. BlockAt(x, d, i) = base + i * d /\ BlockAt(x, d, j) = base + j * d
  BY <1>2 DEF BlockAt
<1>5. u \in base + i * d .. base + i * d + d - 1
  BY <1>4 DEF Span
<1>6. CASE i < j
  <2>1. (i + 1) * d <= j * d /\ (i + 1) * d = i * d + d
    BY <1>1, <1>6, TimesMono
  <2> QED BY <2>1, <1>1, <1>3, <1>4, <1>5 DEF Span
<1>7. CASE j < i
  <2>1. (j + 1) * d <= i * d /\ (j + 1) * d = j * d + d
    BY <1>1, <1>7, TimesMono
  <2> QED BY <2>1, <1>1, <1>3, <1>4, <1>5 DEF Span
<1> QED BY <1>1, <1>6, <1>7

(* The units of a big block lie in its pages behind the header.            *)
LEMMA BigUnits ==
  ASSUME NEW x \in Pages, NEW n \in Nat \ {0}, x + n <= NumPages,
         NEW u \in Span(x * PageSize + HeaderSize, PageSize * n - HeaderSize)
  PROVE  u \in Units /\ PageOf(u) \in Span(x, n) /\ u >= x * PageSize + HeaderSize
<1>1. PageSize \in Nat \ {0} /\ HeaderSize \in Nat \ {0} /\ HeaderSize < PageSize /\
        NumPages \in Nat /\ x \in Nat
  BY Sizing
<1>2. (x + n) * PageSize <= NumPages * PageSize /\ (x + n) * PageSize = x * PageSize + n * PageSize
  BY <1>1, TimesMono
<1>3. PICK base : base = x * PageSize
  OBVIOUS
<1>4. PICK len : len = n * PageSize
  OBVIOUS
<1>5. base \in Nat /\ len \in Nat /\ NumPages * PageSize \in Nat
  BY <1>1, <1>3, <1>4
<1>6. PageSize * n = len
  BY <1>1, <1>4
<1>7. u \in base + HeaderSize .. base + HeaderSize + (len - HeaderSize) - 1
  BY <1>3, <1>6 DEF Span
<1>8. u \in Nat /\ base + HeaderSize <= u /\ u < base + len
  BY <1>1, <1>5, <1>7
<1>9. u \in Units
  BY <1>2, <1>3, <1>4, <1>5, <1>8 DEF Units
<1>10. PICK y : y = PageOf(u)
  OBVIOUS
<1>11. y \in Pages /\ u >= y * PageSize /\ u < y * PageSize + PageSize
  BY <1>9, <1>10, UnitPage
<1>12. y \in Nat
  BY <1>11, Sizing
<1>13. x <= y
  <2> SUFFICES ASSUME y + 1 <= x PROVE FALSE
    BY <1>1, <1>12
  <2>1. (y + 1) * PageSize <= x * PageSize /\ (y + 1) * PageSize = y * PageSize + PageSize /\
          y * PageSize \in Nat
    BY <1>1, <1>12, TimesMono
  <2> QED BY <2>1, <1>1, <1>3, <1>5, <1>8, <1>11
<1>14. y < x + n
  <2> SUFFICES ASSUME x + n <= y PROVE FALSE
    BY <1>1, <1>12
  <2>1. (x + n) * PageSize <= y * PageSize /\ y * PageSize \in Nat
    BY <1>1, <1>12, TimesMono
  <2> QED BY <2>1, <1>1, <1>2, <1>3, <1>4, <1>5, <1>8, <1>11
<1> QED BY <1>1, <1>3, <1>8, <1>9, <1>10, <1>12, <1>13, <1>14 DEF Span

-----------------------------------------------------------------------------
(***************************************************************************)
(* The inductive invariant of the heap.                                    *)
(***************************************************************************)
HeapTypes ==
  /\ arena \in [Pages -> Arenas]
  /\ freeList \in [Descs -> Seq(Units)]
  /\ descLock \in [Descs -> Callers \cup {Nobody}]
  /\ mem \in [Units -> Contents]
  /\ held \subseteq Owned
  /\ job \in [Callers -> Jobs]

(* The arenas and big blocks lie apart and inside the pool.                *)
SpansApart ==
  /\ \A x, y \in Pages : x # y => ArenaSpan(x) \cap ArenaSpan(y) = {}
  /\ \A x \in Pages : arena[x].desc = Big => arena[x].freeCnt # 0 /\ x + arena[x].freeCnt <= NumPages

(* An arena that nobody is giving back, and the blocks that it has.        *)
InHeap(x) == arena[x].desc # NULL /\ \A t \in Callers : x \notin Freeing(t)

(* b is a block of an arena: a place for one in an arena of small blocks,  *)
(* or the only one of a big arena.                                         *)
IsBlock(b) ==
  /\ InHeap(PageOf(b))
  /\ IF arena[PageOf(b)].desc = Big THEN b = PageOf(b) * PageSize + HeaderSize
     ELSE \E i \in 0..(BlocksPerArena(arena[PageOf(b)].desc) - 1) :
            b = BlockAt(PageOf(b), arena[PageOf(b)].desc, i)

(* The block that a call is about to return, and the one it is given.      *)
NewOf(t) == job[t].block
(* The block that a call has taken from its owner and not yet given back.  *)
OldOf(t) == IF at[t] \in {"fill", "clear"} THEN NULL ELSE job[t].old.block

(* What is in the free lists or belongs to somebody is a block, ...        *)
ListsInv ==
  \A d \in Descs :
    /\ NoDuplicates(freeList[d])
    /\ \A b \in Elems(freeList[d]) : IsBlock(b) /\ arena[PageOf(b)].desc = d

(* What an owner or a call has is a block as large as was asked for.       *)
OwnersInv ==
  /\ \A h \in held : IsBlock(h.block) /\ h.size <= BlockSize(h.block)
  /\ \A t \in Callers : NewOf(t) # NULL => IsBlock(NewOf(t)) /\ job[t].size <= BlockSize(NewOf(t))
  /\ \A t \in Callers : OldOf(t) # NULL => IsBlock(OldOf(t)) /\ job[t].old.size <= BlockSize(OldOf(t))

(* ... and it belongs to one.                                              *)
NotListed(b) == \A d \in Descs : b \notin Elems(freeList[d])

(* A block has one owner: whoever asked for it, a call, or a free list.    *)
SoleOwner ==
  /\ \A h \in held : NotListed(h.block)
  /\ \A t \in Callers : NewOf(t) # NULL => NotListed(NewOf(t))
  /\ \A t \in Callers : OldOf(t) # NULL => NotListed(OldOf(t))
  /\ \A h, k \in held : h.block = k.block => h = k
  /\ \A h \in held : \A t \in Callers : NewOf(t) # h.block /\ OldOf(t) # h.block
  /\ \A t, u \in Callers : NewOf(t) # NULL => NewOf(t) # OldOf(u)
  /\ \A t, u \in Callers : NewOf(t) # NULL /\ NewOf(t) = NewOf(u) => t = u
  /\ \A t, u \in Callers : OldOf(t) # NULL /\ OldOf(t) = OldOf(u) => t = u

(* The counters; an arena of which no block is in use is new.              *)
HoldsAt(d, x) == {b \in Elems(freeList[d]) : PageOf(b) = x}

(* free_cnt of an arena of small blocks is the number of its blocks on the *)
(* free list, and an arena that is all free is one that was just made.     *)
CountsInv ==
  \A x \in Pages : InHeap(x) /\ arena[x].desc \in Descs =>
    /\ arena[x].freeCnt = Cardinality(HoldsAt(arena[x].desc, x))
    /\ arena[x].freeCnt = BlocksPerArena(arena[x].desc) =>
         \E t \in Callers : /\ at[t] = "pop" /\ DescFor(job[t].size) = arena[x].desc
                            /\ x = PageOf(Head(freeList[arena[x].desc]))

(* Where a call is and what it has.                                        *)
Asked(t) == IF DescFor(job[t].size) = Big THEN PageCount(job[t].size) ELSE 1

(* The places of a call that gets a block, and of one that gives one back. *)
Asking == {"alloc", "get", "flip", "got", "pop", "return"}
Giving == {"free", "put", "fill", "clear"}

(* What a call has done so far.                                            *)
CallInv(t) ==
  /\ at[t] \in {"idle"} \cup Asking \cup Giving
  /\ at[t] = "idle" => job[t] = NoJob
  /\ at[t] \in Asking =>
       /\ job[t].size \in Sizes
       /\ \/ job[t].op = "malloc" /\ job[t].old = NoBlock
          \/ job[t].op = "realloc" /\ job[t].old \in Owned
  /\ at[t] \in Giving => job[t].op = "free" /\ job[t].old \in Owned
  /\ at[t] # "return" => job[t].block = NULL
  /\ at[t] = "put" => arena[PageOf(job[t].old.block)].desc # Big

(* A call that refills a descriptor holds its lock, and the list stays     *)
(* empty until the new arena is there.                                     *)
LocksInv(t) ==
  LET d == DescFor(job[t].size) IN
  /\ at[t] \in {"get", "flip", "got", "pop"} /\ d # Big => descLock[d] = t
  /\ at[t] \in {"get", "flip", "got"} /\ d # Big => freeList[d] = <<>>
  /\ at[t] = "pop" => d # Big /\ freeList[d] # <<>>

(* The pages that a call has taken from the pool or is giving back to it.  *)
HandsInv(t) ==
  /\ at[t] \notin {"flip", "got", "fill", "clear"} => hand[t] = {}
  /\ at[t] \in {"flip", "got"} => hand[t] = {} \/ \E s \in Pages : hand[t] = Span(s, Asked(t))
  /\ at[t] = "fill" => \E x \in Pages :
       ArenaSpan(x) = hand[t] /\ (arena[x].desc \in Descs => descLock[arena[x].desc] = t)
  /\ at[t] = "clear" => \A x \in Pages : ArenaSpan(x) \cap hand[t] = {}

CallsInv == \A t \in Callers : CallInv(t) /\ LocksInv(t) /\ HandsInv(t)

(* ContentsKept, in parts.                                                 *)
Keeps(b) == b = NoBlock \/ \A u \in Span(b.block, b.size) : mem[u] = "data"

(* The contents of a block that is in use, of one that realloc is copying, *)
(* of an arena's header and of the links of a free list are what was put   *)
(* there.                                                                  *)
HeldKept == \A h \in held : Keeps(h)
OldKept == \A t \in Callers : job[t].op = "realloc" => Keeps(job[t].old)
HeadersKept == \A x \in Pages : \A u \in Headers(x) : mem[u] = "arena"
LinksKept == \A d \in Descs : \A b \in Elems(freeList[d]) : mem[b] = "link"

Kept == HeldKept /\ OldKept /\ HeadersKept /\ LinksKept

(* The inductive invariant of the heap.                                    *)
HeapOK == HeapTypes /\ SpansApart /\ ListsInv /\ OwnersInv /\ SoleOwner /\ CountsInv /\ CallsInv /\ Kept

(* The pages of an arena, by its kind.                                     *)
LEMMA ArenaFacts ==
  ASSUME HeapTypes, NEW x \in Pages
  PROVE  /\ arena[x].desc \in Descs \cup {Big, NULL} /\ arena[x].freeCnt \in Nat
         /\ arena[x].desc = NULL => ArenaSpan(x) = {}
         /\ arena[x].desc \in Descs => ArenaSpan(x) = {x} /\ arena[x].desc # Big /\ arena[x].desc # NULL
         /\ arena[x].desc = Big => ArenaSpan(x) = Span(x, arena[x].freeCnt)
         /\ ArenaSpan(x) # {} => arena[x].desc # NULL
<1>1. arena[x] \in Arenas
  BY DEF HeapTypes
<1>2. arena[x].desc \in Descs \cup {Big, NULL} /\ arena[x].freeCnt \in Nat
  BY <1>1, Sizing DEF Arenas
<1>3. Big # NULL
  BY DEF Big, NULL
<1> QED BY <1>2, <1>3, Sizing DEF ArenaSpan

(* The pages of an arena are pages, the first is where it begins, and no   *)
(* arena begins in another.                                                *)
LEMMA SpanFacts ==
  ASSUME HeapTypes, SpansApart, NEW x \in Pages
  PROVE  /\ ArenaSpan(x) \subseteq Pages
         /\ arena[x].desc # NULL => x \in ArenaSpan(x)
         /\ \A y \in ArenaSpan(x) : y # x => arena[y].desc = NULL
<1>1. x \in Nat /\ x < NumPages /\ NumPages \in Nat
  BY Sizing
<1>2. CASE arena[x].desc = NULL
  BY <1>2, ArenaFacts
<1>3. CASE arena[x].desc \in Descs
  BY <1>3, ArenaFacts
<1>4. CASE arena[x].desc = Big
  <2>1. arena[x].freeCnt \in Nat \ {0} /\ x + arena[x].freeCnt <= NumPages
    BY <1>4, ArenaFacts DEF SpansApart
  <2>2. ArenaSpan(x) = x..(x + arena[x].freeCnt - 1)
    BY <1>4, ArenaFacts DEF Span
  <2>3. ArenaSpan(x) \subseteq Pages /\ x \in ArenaSpan(x)
    BY <2>1, <2>2, <1>1, Sizing
  <2>4. ASSUME NEW y \in ArenaSpan(x), y # x, arena[y].desc # NULL PROVE FALSE
    <3>1. y \in Pages
      BY <2>3, <2>4
    <3>2. arena[y].desc \in Descs \cup {Big}
      BY <2>4, <3>1, ArenaFacts
    <3>3. y \in ArenaSpan(y)
      <4>1. CASE arena[y].desc \in Descs
        BY <3>1, <4>1, ArenaFacts
      <4>2. CASE arena[y].desc = Big
        <5>1. ArenaSpan(y) = Span(y, arena[y].freeCnt) /\ arena[y].freeCnt \in Nat \ {0} /\ y \in Nat
          BY <3>1, <4>2, ArenaFacts, Sizing DEF SpansApart
        <5> QED BY <5>1 DEF Span
      <4> QED BY <3>2, <4>1, <4>2
    <3>4. ArenaSpan(x) \cap ArenaSpan(y) = {}
      BY <2>4, <3>1 DEF SpansApart
    <3> QED BY <2>4, <3>3, <3>4
  <2> QED BY <2>3, <2>4
<1> QED BY <1>2, <1>3, <1>4, ArenaFacts

(* The header of an arena is at the beginning of its first page.           *)
LEMMA HeaderUnits ==
  ASSUME NEW x \in Pages, NEW u \in Headers(x)
  PROVE  PageOf(u) = x /\ u \in Units /\ u < x * PageSize + HeaderSize /\ arena[x].desc # NULL
<1>1. arena[x].desc # NULL /\ u \in Span(x * PageSize, HeaderSize)
  BY DEF Headers
<1>2. PICK base : base = x * PageSize
  OBVIOUS
<1>3. x \in Nat /\ PageSize \in Nat /\ HeaderSize \in Nat /\ HeaderSize < PageSize
  BY Sizing
<1>4. base \in Nat /\ u \in base..(base + HeaderSize - 1)
  BY <1>1, <1>2, <1>3 DEF Span
<1>5. PICK k : k = u - base
  OBVIOUS
<1>6. k \in 0..(PageSize - 1) /\ u = base + k /\ k < HeaderSize
  BY <1>3, <1>4, <1>5
<1>7. PageOf(x * PageSize + k) = x /\ x * PageSize + k \in Units
  BY <1>6, PageOfUnit
<1> QED BY <1>1, <1>2, <1>3, <1>4, <1>6, <1>7

(* The units of a block are in its arena's pages and in no header.         *)
LEMMA BlockFacts ==
  ASSUME HeapTypes, SpansApart, NEW b \in Units, IsBlock(b)
  PROVE  /\ PageOf(b) \in Pages
         /\ BlockSize(b) \in Nat \ {0}
         /\ \A u \in Span(b, BlockSize(b)) :
              u \in Units /\ PageOf(u) \in ArenaSpan(PageOf(b)) /\ u \notin Headers(PageOf(u))
<1>1. PICK x : x = PageOf(b)
  OBVIOUS
<1>2. x \in Pages /\ arena[x].desc # NULL
  BY <1>1, UnitPage DEF IsBlock, InHeap
<1>3. arena[x].desc \in Descs \cup {Big}
  BY <1>2, ArenaFacts
<1>4. PICK a : a = arena[x]
  OBVIOUS
<1>5. CASE a.desc = Big
  <2>1. b = x * PageSize + HeaderSize /\ BlockSize(b) = PageSize * a.freeCnt - (b % PageSize)
    BY <1>1, <1>4, <1>5 DEF IsBlock, BlockSize
  <2>2. a.freeCnt \in Nat \ {0} /\ x + a.freeCnt <= NumPages
    BY <1>2, <1>4, <1>5, ArenaFacts DEF SpansApart
  <2>3. HeaderSize \in 0..(PageSize - 1) /\ PageSize \in Nat /\ HeaderSize < PageSize
    BY Sizing
  <2>4. b % PageSize = HeaderSize
    BY <1>2, <2>1, <2>3, PageOfUnit
  <2>5. BlockSize(b) = PageSize * a.freeCnt - HeaderSize
    BY <2>1, <2>4
  <2>6. 1 * PageSize <= a.freeCnt * PageSize /\ PageSize * a.freeCnt = a.freeCnt * PageSize /\
          a.freeCnt * PageSize \in Nat
    BY <2>2, <2>3, TimesMono
  <2>7. BlockSize(b) \in Nat \ {0}
    BY <2>3, <2>5, <2>6
  <2>8. ASSUME NEW u \in Span(b, BlockSize(b))
        PROVE u \in Units /\ PageOf(u) \in ArenaSpan(x) /\ u \notin Headers(PageOf(u))
    <3>1. u \in Units /\ PageOf(u) \in Span(x, a.freeCnt) /\ u >= x * PageSize + HeaderSize
      BY <1>2, <2>1, <2>2, <2>5, <2>8, BigUnits
    <3>2. PageOf(u) \in ArenaSpan(x)
      BY <1>2, <1>4, <1>5, <3>1, ArenaFacts
    <3>3. PageOf(u) \in Pages
      BY <3>1, UnitPage
    <3>4. CASE PageOf(u) = x
      <4>1. u \in Headers(x) => u < x * PageSize + HeaderSize
        BY <1>2, HeaderUnits
      <4>2. u \in Nat /\ x * PageSize + HeaderSize \in Nat
        BY <3>1, <1>2, Sizing DEF Units
      <4> QED BY <4>1, <4>2, <3>1, <3>2, <3>4
    <3>5. CASE PageOf(u) # x
      <4>1. arena[PageOf(u)].desc = NULL
        BY <3>2, <3>5, <1>2, SpanFacts
      <4> QED BY <4>1, <3>1, <3>2 DEF Headers
    <3> QED BY <3>4, <3>5
  <2> QED BY <1>1, <1>2, <2>7, <2>8
<1>6. CASE a.desc \in Descs
  <2>1. a.desc # Big /\ BlockSize(b) = a.desc
    BY <1>1, <1>4, <1>6, Sizing DEF BlockSize
  <2>2. PICK i \in 0..(BlocksPerArena(a.desc) - 1) : b = BlockAt(x, a.desc, i)
    BY <1>1, <1>4, <2>1 DEF IsBlock
  <2>3. ASSUME NEW u \in Span(b, BlockSize(b))
        PROVE u \in Units /\ PageOf(u) \in ArenaSpan(x) /\ u \notin Headers(PageOf(u))
    <3>1. u \in Units /\ PageOf(u) = x /\ u >= x * PageSize + HeaderSize
      BY <1>2, <1>6, <2>1, <2>2, <2>3, NormalUnits
    <3>2. PageOf(u) \in ArenaSpan(x)
      BY <1>2, <1>4, <1>6, <3>1, ArenaFacts
    <3>3. u \in Headers(x) => u < x * PageSize + HeaderSize
      BY <1>2, HeaderUnits
    <3>4. u \in Nat /\ x * PageSize + HeaderSize \in Nat
      BY <3>1, <1>2, Sizing DEF Units
    <3> QED BY <3>1, <3>2, <3>3, <3>4
  <2>4. a.desc \in Nat \ {0}
    BY <1>6, Sizing
  <2> QED BY <1>1, <1>2, <2>1, <2>3, <2>4
<1> QED BY <1>3, <1>4, <1>5, <1>6

(* A block is not empty.                                                   *)
LEMMA BlockFirst ==
  ASSUME HeapTypes, SpansApart, NEW b \in Units, IsBlock(b)
  PROVE  b \in Span(b, BlockSize(b))
<1>1. b \in Nat /\ BlockSize(b) \in Nat \ {0}
  BY BlockFacts, Sizing DEF Units
<1> QED BY <1>1 DEF Span

(* Blocks do not overlap.                                                  *)
LEMMA BlocksApart ==
  ASSUME HeapTypes, SpansApart, NEW b \in Units, IsBlock(b), NEW c \in Units, IsBlock(c), b # c,
         NEW u \in Span(b, BlockSize(b))
  PROVE  u \notin Span(c, BlockSize(c))
<1> SUFFICES ASSUME u \in Span(c, BlockSize(c)) PROVE FALSE
  OBVIOUS
<1>1. PICK x, y : x = PageOf(b) /\ y = PageOf(c)
  OBVIOUS
<1>2. x \in Pages /\ y \in Pages /\ PageOf(u) \in ArenaSpan(x) /\ PageOf(u) \in ArenaSpan(y)
  BY <1>1, BlockFacts
<1>3. x = y
  BY <1>2 DEF SpansApart
<1>4. PICK a : a = arena[x]
  OBVIOUS
<1>5. a.desc \in Descs \cup {Big}
  BY <1>1, <1>2, <1>4, ArenaFacts DEF IsBlock, InHeap
<1>6. a.desc # Big
  <2> SUFFICES ASSUME a.desc = Big PROVE FALSE
    OBVIOUS
  <2>1. b = x * PageSize + HeaderSize /\ c = x * PageSize + HeaderSize
    BY <1>1, <1>3, <1>4 DEF IsBlock
  <2> QED BY <2>1
<1>7. a.desc \in Descs /\ BlockSize(b) = a.desc /\ BlockSize(c) = a.desc
  BY <1>1, <1>3, <1>4, <1>5, <1>6 DEF BlockSize
<1>8. PICK i \in 0..(BlocksPerArena(a.desc) - 1) : b = BlockAt(x, a.desc, i)
  BY <1>1, <1>4, <1>6 DEF IsBlock
<1>9. PICK j \in 0..(BlocksPerArena(a.desc) - 1) : c = BlockAt(x, a.desc, j)
  BY <1>1, <1>3, <1>4, <1>6 DEF IsBlock
<1>10. i # j
  BY <1>8, <1>9
<1> QED BY <1>2, <1>7, <1>8, <1>9, <1>10, NormalApart

-----------------------------------------------------------------------------
(* A step of a thread on the heap, and of nobody else.                     *)
OnlyCaller(t) ==
  /\ UNCHANGED <<tableVars, load>>
  /\ \A a \in Actors : a # t => at'[a] = at[a] /\ hand'[a] = hand[a]

(* OwnInv is kept when a caller of the heap takes free pages or gives back *)
(* its own.                                                                *)
LEMMA OwnAfterCaller ==
  ASSUME OwnInv, LockInv, PoolTypes, NEW t \in Callers, Elsewhere' = Elsewhere,
         \A p \in Procs : TreePages(p)' = TreePages(p),
         \A a \in Actors : a # t => InHand(a)' = InHand(a),
         HeapPages \subseteq Pages, HeapPages' \cap InHand(t)' = {},
         NEW took, NEW gave, took \subseteq Pages, took \cap used = {},
           gave \subseteq HeapPages \cup InHand(t),
         HeapPages' \cup InHand(t)' = ((HeapPages \cup InHand(t)) \cup took) \ gave,
         used' = (used \cup took) \ gave
  PROVE  OwnInv' /\ Elsewhere' \subseteq used'
<1>0. t \in Actors
  BY ActorFacts
<1>1. PICK H0, H1, I0, I1 : H0 = HeapPages /\ H1 = HeapPages' /\ I0 = InHand(t) /\ I1 = InHand(t)'
  OBVIOUS
<1>2. H0 \cap I0 = {} /\ H1 \cap I1 = {} /\ H1 \cup I1 = ((H0 \cup I0) \cup took) \ gave
  BY <1>0, <1>1 DEF OwnInv
<1>3. I0 \subseteq Pages /\ H0 \subseteq Pages
  BY <1>0, <1>1 DEF InHand, PoolTypes
<1>4. \A q \in took : (\A p \in Procs : q \notin TreePages(p)) /\
        (\A a \in Actors : q \notin InHand(a)) /\ q \notin Elsewhere
  BY DEF OwnInv, LockInv
<1>5. \A q \in H0 \cup I0 : (\A p \in Procs : q \notin TreePages(p)) /\
        (\A a \in Actors : a # t => q \notin InHand(a))
                            /\ q \notin Elsewhere
  <2>1. \A q \in H0 : (\A p \in Procs : q \notin TreePages(p)) /\
          (\A a \in Actors : a # t => q \notin InHand(a))
    BY <1>1 DEF OwnInv
  <2>2. \A q \in I0 : (\A p \in Procs : q \notin TreePages(p)) /\
          (\A a \in Actors : a # t => q \notin InHand(a))
    BY <1>0, <1>1 DEF OwnInv
  <2>3. \A q \in H0 \cup I0 : q \notin Elsewhere
    BY <1>0, <1>1, <1>3 DEF OwnInv
  <2> QED BY <2>1, <2>2, <2>3
<1>6. \A q \in H1 \cup I1 : (\A p \in Procs : q \notin TreePages(p)) /\
        (\A a \in Actors : a # t => q \notin InHand(a))
                            /\ q \notin gave
  BY <1>2, <1>4, <1>5
<1>7. Elsewhere' \subseteq used'
  BY <1>1, <1>5 DEF LockInv
<1>8. ASSUME NEW q \in Pages
      PROVE q \in used' \ Elsewhere' <=>
       \/ q \in HeapPages'
       \/ \E p \in Procs : q \in TreePages(p)'
       \/ \E a \in Actors : q \in InHand(a)'
  <2>1. (\E p \in Procs : q \in TreePages(p)') <=> \E p \in Procs : q \in TreePages(p)
    OBVIOUS
  <2>2. (\E a \in Actors : q \in InHand(a)') <=> q \in I1 \/ \E a \in Actors : a # t /\ q \in InHand(a)
    BY <1>0, <1>1
  <2>3. q \in used \ Elsewhere <=> \/ q \in H0 \/ q \in I0
                                   \/ \E p \in Procs : q \in TreePages(p)
                                   \/ \E a \in Actors : a # t /\ q \in InHand(a)
    <3>1. (\E a \in Actors : q \in InHand(a)) <=> q \in I0 \/ \E a \in Actors : a # t /\ q \in InHand(a)
      BY <1>0, <1>1
    <3>2. q \in used \ Elsewhere <=> \/ q \in HeapPages
                                     \/ \E p \in Procs : q \in TreePages(p)
                                     \/ \E a \in Actors : q \in InHand(a)
      BY DEF OwnInv
    <3> QED BY <3>1, <3>2, <1>1
  <2>4. q \in used' \ Elsewhere' <=> (q \in used \ Elsewhere \/ q \in took) /\ q \notin gave
    BY <1>4, <1>7
  <2>5. q \in H1 \cup I1 <=> (q \in H0 \cup I0 \/ q \in took) /\ q \notin gave
    BY <1>2
  <2>6. q \in gave => q \in H0 \cup I0
    BY <1>1
  <2>7. q \in gave => (\A p \in Procs : q \notin TreePages(p)) /\
          (\A a \in Actors : a # t => q \notin InHand(a))
    BY <2>6, <1>5
  <2>8. q \in HeapPages' <=> q \in H1
    BY <1>1
  <2>9. q \in H1 \/ q \in I1 <=> (q \in H0 \/ q \in I0 \/ q \in took) /\ q \notin gave
    BY <2>5
  <2> QED BY <2>1, <2>2, <2>3, <2>4, <2>6, <2>7, <2>8, <2>9
<1>9. \A q \in HeapPages' : (\A p \in Procs : q \notin TreePages(p)') /\ \A a \in Actors :
        q \notin InHand(a)'
  BY <1>0, <1>1, <1>2, <1>6
<1>10. \A p \in Procs : \A q \in TreePages(p)' : \A a \in Actors : q \notin InHand(a)'
  <2> SUFFICES ASSUME NEW p \in Procs, NEW q \in TreePages(p), NEW a \in Actors PROVE q \notin InHand(a)'
    OBVIOUS
  <2>1. CASE a = t
    BY <2>1, <1>1, <1>6
  <2>2. CASE a # t
    BY <2>2 DEF OwnInv
  <2> QED BY <2>1, <2>2
<1>11. ASSUME NEW a \in Actors, NEW b \in Actors, NEW q \in InHand(a)', q \in InHand(b)' PROVE a = b
  <2>1. CASE a = t
    BY <1>11, <2>1, <1>6, <1>1
  <2>2. CASE b = t
    BY <1>11, <2>2, <1>6, <1>1
  <2>3. CASE a # t /\ b # t
    BY <1>11, <2>3 DEF OwnInv
  <2> QED BY <2>1, <2>2, <2>3
<1> QED BY <1>7, <1>8, <1>9, <1>10, <1>11 DEF OwnInv

(* The trees do not notice the heap.                                       *)
LEMMA TreesStay ==
  ASSUME MemInv, NEW t \in Callers, OnlyCaller(t)
  PROVE  Trees' /\ FrameInv' /\ \A p \in Procs : TreePages(p)' = TreePages(p)
<1>1. /\ root' = root /\ node' = node /\ pte' = pte /\ frames' = frames /\ walk' = walk /\ gone' = gone
      /\ running' = running /\ cr3' = cr3 /\ tlb' = tlb
  BY DEF OnlyCaller, tableVars
<1>2. \A p \in Procs : at'[p] = at[p] /\ hand'[p] = hand[p]
  BY ActorFacts DEF OnlyCaller
<1>3. TreeTypes' /\ PteFrames'
  BY <1>1 DEF MemInv, Trees, TreeTypes, PteFrames
<1>4. \A r \in Procs : /\ \A s \in Slots : NodeAt(r, s)' = NodeAt(r, s)
                       /\ \A va \in IndexPath : FrameAt(r, va)' = FrameAt(r, va)
                       /\ Phase(r)' /\ Victim(r)' /\ Chain(r)'
  BY <1>1, <1>2, ApartStays DEF MemInv, Trees
<1>5. ASSUME NEW r \in Procs PROVE TreePages(r)' = TreePages(r)
  <2>1. Freeing(r)' = Freeing(r)
    BY <1>2 DEF Freeing
  <2> QED BY <1>4, <2>1 DEF TreePages
<1>6. Injective' /\ Outside' /\ FrameInv'
  BY <1>1, <1>4, InjectiveStays, OutsideStays, FrameInvStays DEF MemInv, Trees
<1> QED BY <1>3, <1>4, <1>5, <1>6 DEF Trees, PteFrames

(* The pages of arenas are pages.                                          *)
LEMMA HeapPagesType ==
  ASSUME HeapTypes, SpansApart
  PROVE  HeapPages \subseteq Pages
BY SpanFacts DEF HeapPages, ArenaPages

(* What has to be shown of a step on the heap for the pool and the trees.  *)
LEMMA CallerStep ==
  ASSUME MemInv, HeapTypes, SpansApart, NEW t \in Callers, OnlyCaller(t),
         PoolTypes', Elsewhere' \subseteq used' => LockInv', HeapPages' \cap InHand(t)' = {},
         NEW took, NEW gave, took \subseteq Pages, took \cap used = {},
           gave \subseteq HeapPages \cup InHand(t),
         HeapPages' \cup InHand(t)' = ((HeapPages \cup InHand(t)) \cup took) \ gave,
         used' = (used \cup took) \ gave
  PROVE  MemInv'
<1>1. Trees' /\ FrameInv' /\ \A p \in Procs : TreePages(p)' = TreePages(p)
  BY TreesStay
<1>2. \A a \in Actors : a # t => InHand(a)' = InHand(a)
  BY DEF OnlyCaller, InHand
<1>3. Elsewhere' = Elsewhere
  BY DEF OnlyCaller, Elsewhere
<1>4. HeapPages \subseteq Pages
  BY HeapPagesType
<1>5. OwnInv' /\ Elsewhere' \subseteq used'
  BY <1>1, <1>2, <1>3, <1>4, OwnAfterCaller DEF MemInv
<1> QED BY <1>1, <1>5 DEF MemInv

(* MemInv is kept when a caller of the heap neither takes nor gives back a *)
(* page.                                                                   *)
LEMMA QuietCall ==
  ASSUME MemInv, HeapTypes, SpansApart, NEW t \in Callers, OnlyCaller(t), PoolTypes',
         used' = used, poolLock' = poolLock, at[t] # "flip", at'[t] # "flip",
         at'[t] \in {"fill", "clear"} => hand'[t] # {},
         HeapPages' \cap InHand(t)' = {}, HeapPages' \cup InHand(t)' = HeapPages \cup InHand(t)
  PROVE  MemInv'
<1>1. Elsewhere' \subseteq used' => LockInv'
  <2>1. t \in Actors /\ LockInv
    BY ActorFacts DEF MemInv
  <2>2. \A a \in Actors : a # t => at'[a] = at[a] /\ hand'[a] = hand[a]
    BY DEF OnlyCaller
  <2> QED BY <2>1, <2>2, LockStays
<1> DEFINE none == {}
<1>2. /\ none \subseteq Pages /\ none \cap used = {} /\ none \subseteq HeapPages \cup InHand(t)
      /\ HeapPages' \cup InHand(t)' = ((HeapPages \cup InHand(t)) \cup none) \ none
      /\ used' = (used \cup none) \ none
  OBVIOUS
<1> QED BY <1>1, <1>2, CallerStep

(* A page whose header keeps its descriptor.                               *)
SameShape(x) ==
  /\ arena'[x].desc = arena[x].desc
  /\ arena[x].desc = Big => arena'[x].freeCnt = arena[x].freeCnt

(* An arena with the same shape has the same pages and header.             *)
LEMMA ShapeStays ==
  ASSUME NEW x, SameShape(x)
  PROVE  ArenaSpan(x)' = ArenaSpan(x) /\ Headers(x)' = Headers(x)
BY DEF SameShape, ArenaSpan, Headers

(* Its blocks are the same.                                                *)
LEMMA BlockStays ==
  ASSUME NEW b, SameShape(PageOf(b))
  PROVE  /\ BlockSize(b)' = BlockSize(b)
         /\ InHeap(PageOf(b))' = InHeap(PageOf(b)) => IsBlock(b)' = IsBlock(b)
<1>1. arena'[PageOf(b)].desc = arena[PageOf(b)].desc
  BY DEF SameShape
<1>2. BlockSize(b)' = BlockSize(b)
  BY DEF SameShape, BlockSize
<1>3. ASSUME InHeap(PageOf(b))' = InHeap(PageOf(b)) PROVE IsBlock(b)' = IsBlock(b)
  BY <1>1, <1>3 DEF IsBlock
<1> QED BY <1>2, <1>3

(* It stays in the heap when nobody begins to free it.                     *)
LEMMA InHeapStays ==
  ASSUME NEW x, arena'[x].desc = arena[x].desc, \A t \in Callers : (x \in Freeing(t)' <=> x \in Freeing(t))
  PROVE  InHeap(x)' = InHeap(x)
<1>1. (\A t \in Callers : x \notin Freeing(t)') <=> \A t \in Callers : x \notin Freeing(t)
  OBVIOUS
<1> QED BY <1>1 DEF InHeap

(* A step that changes no header but counters and takes no arena or big    *)
(* block into or out of use.                                               *)
SameHeap ==
  \A x \in Pages : SameShape(x) /\ InHeap(x)' = InHeap(x) /\ ArenaPages(x)' = ArenaPages(x)

(* The heap stays when all arenas keep their shape and nobody begins to    *)
(* free one.                                                               *)
LEMMA SameHeapIs ==
  ASSUME \A x \in Pages : SameShape(x), \A t \in Callers : Freeing(t)' = Freeing(t)
  PROVE  SameHeap
<1>1. ASSUME NEW x \in Pages PROVE ArenaSpan(x)' = ArenaSpan(x) /\ InHeap(x)' = InHeap(x)
  BY ShapeStays, InHeapStays DEF SameShape
<1>2. ASSUME NEW x \in Pages PROVE ArenaPages(x)' = ArenaPages(x)
  <2>1. \A q : (\E t \in Callers : q \in Freeing(t)') <=> \E t \in Callers : q \in Freeing(t)
    OBVIOUS
  <2> QED BY <1>1, <2>1 DEF ArenaPages
<1> QED BY <1>1, <1>2 DEF SameHeap

(* What is the same when the heap stays.                                   *)
LEMMA SameHeapFacts ==
  ASSUME SameHeap
  PROVE  /\ \A x \in Pages : ArenaSpan(x)' = ArenaSpan(x) /\ InHeap(x)' = InHeap(x) /\
              Headers(x)' = Headers(x)
                             /\ arena'[x].desc = arena[x].desc
         /\ \A b \in Units : IsBlock(b)' = IsBlock(b) /\ BlockSize(b)' = BlockSize(b)
         /\ HeapPages' = HeapPages
         /\ SpansApart => SpansApart'
<1>1. ASSUME NEW x \in Pages
      PROVE /\ ArenaSpan(x)' = ArenaSpan(x) /\ Headers(x)' = Headers(x) /\ InHeap(x)' = InHeap(x)
            /\ arena'[x].desc = arena[x].desc
  BY ShapeStays DEF SameHeap, SameShape
<1>2. ASSUME NEW b \in Units PROVE IsBlock(b)' = IsBlock(b) /\ BlockSize(b)' = BlockSize(b)
  <2>1. PageOf(b) \in Pages
    BY UnitPage
  <2> QED BY <2>1, <1>1, BlockStays DEF SameHeap
<1>3. HeapPages' = HeapPages
  BY DEF HeapPages, SameHeap
<1>4. SpansApart => SpansApart'
  <2> SUFFICES ASSUME SpansApart PROVE SpansApart'
    OBVIOUS
  <2>1. \A x, y \in Pages : x # y => ArenaSpan(x)' \cap ArenaSpan(y)' = {}
    BY <1>1 DEF SpansApart
  <2>2. \A x \in Pages : arena'[x].desc = Big => arena'[x].freeCnt # 0 /\ x + arena'[x].freeCnt <= NumPages
    BY DEF SameHeap, SameShape, SpansApart
  <2> QED BY <2>1, <2>2 DEF SpansApart
<1> QED BY <1>1, <1>2, <1>3, <1>4

-----------------------------------------------------------------------------
(* A request gets the least size that fits, or whole pages.                *)
LEMMA DescForIs ==
  ASSUME NEW size \in Nat
  PROVE  /\ DescFor(size) \in Descs \cup {Big}
         /\ DescFor(size) # Big => DescFor(size) \in Descs /\ size <= DescFor(size)
<1> DEFINE fit == {d \in Descs : size <= d}
<1>1. CASE fit = {}
  BY <1>1 DEF DescFor
<1>2. CASE fit # {}
  <2>1. fit \in SUBSET Nat
    BY Sizing
  <2>2. PICK d : d = Min(fit)
    OBVIOUS
  <2>3. d \in fit
    BY <1>2, <2>1, <2>2, LeastGreatest
  <2>4. DescFor(size) = d
    BY <1>2, <2>2 DEF DescFor
  <2> QED BY <2>3, <2>4
<1> QED BY <1>1, <1>2

(* The types of a call of the heap.                                        *)
LEMMA JobTypes ==
  ASSUME HeapTypes, NEW t \in Callers
  PROVE  /\ job[t].size \in Nat
         /\ job[t].old \in Owned \cup {NoBlock}
         /\ job[t].block \in Units \cup {NULL}
         /\ OldOf(t) # NULL => OldOf(t) \in Units /\ OldOf(t) = job[t].old.block /\ job[t].old \in Owned
                               /\ at[t] \notin {"fill", "clear"}
         /\ NULL \notin Units
<1>1. job[t] \in Jobs
  BY DEF HeapTypes
<1>2. NULL \notin Units
  BY Sizing DEF NULL, Units
<1>3. job[t].size \in Nat
  <2>1. job[t].size \in {0} \cup Sizes
    BY <1>1 DEF Jobs
  <2>2. \A n \in Sizes : n \in Nat
    BY Sizing
  <2>3. CASE job[t].size \in Sizes
    BY <2>2, <2>3
  <2>4. CASE job[t].size = 0
    BY <2>4
  <2> QED BY <2>1, <2>3, <2>4
<1>4. job[t].old \in Owned \cup {NoBlock} /\ job[t].block \in Units \cup {NULL}
  BY <1>1 DEF Jobs
<1>5. job[t].old \in Owned => job[t].old.block \in Units
  BY DEF Owned
<1>6. job[t].old = NoBlock => job[t].old.block = NULL
  BY DEF NoBlock
<1> QED BY <1>2, <1>3, <1>4, <1>5, <1>6 DEF OldOf

(* What one caller does under its locks leaves another's call as it is.    *)
LEMMA LocksStay ==
  ASSUME HeapTypes, NEW u \in Callers, LocksInv(u), at'[u] = at[u], job'[u] = job[u],
         \A d \in Descs : descLock[d] = u => descLock'[d] = u /\ freeList'[d] = freeList[d]
  PROVE  LocksInv(u)'
<1>1. PICK d : d = DescFor(job[u].size)
  OBVIOUS
<1>2. d \in Descs \cup {Big}
  BY <1>1, JobTypes, DescForIs
<1>3. DescFor(job[u].size)' = d
  BY <1>1
<1>4. /\ at[u] \in {"get", "flip", "got", "pop"} /\ d # Big => descLock[d] = u
      /\ at[u] \in {"get", "flip", "got"} /\ d # Big => freeList[d] = <<>>
      /\ at[u] = "pop" => d # Big /\ freeList[d] # <<>>
  BY <1>1 DEF LocksInv
<1>5. /\ at'[u] \in {"get", "flip", "got", "pop"} /\ d # Big => descLock'[d] = u
      /\ at'[u] \in {"get", "flip", "got"} /\ d # Big => freeList'[d] = <<>>
      /\ at'[u] = "pop" => d # Big /\ freeList'[d] # <<>>
  BY <1>2, <1>4
<1> QED BY <1>3, <1>5 DEF LocksInv

(* CallInv of a call that does not move.                                   *)
LEMMA CallStays ==
  ASSUME HeapTypes, NEW u \in Callers, CallInv(u), at'[u] = at[u], job'[u] = job[u],
         at[u] = "put" => arena'[PageOf(job[u].old.block)].desc # Big
  PROVE  CallInv(u)'
BY DEF CallInv

(* HandsInv of a call that does not move.                                  *)
LEMMA HandsStay ==
  ASSUME HeapTypes, NEW u \in Callers, HandsInv(u), at'[u] = at[u], job'[u] = job[u], hand'[u] = hand[u],
         \A d \in Descs : descLock[d] = u => descLock'[d] = u,
         at[u] = "fill" => \A x \in Pages : ArenaSpan(x) = hand[u] =>
                             ArenaSpan(x)' = ArenaSpan(x) /\ arena'[x].desc = arena[x].desc,
         at[u] = "clear" => \A x \in Pages : ArenaSpan(x)' \cap hand[u] = {}
  PROVE  HandsInv(u)'
<1>1. /\ at'[u] \notin {"flip", "got", "fill", "clear"} => hand'[u] = {}
      /\ at'[u] \in {"flip", "got"} => hand'[u] = {} \/ \E s \in Pages : hand'[u] = Span(s, Asked(u)')
  BY DEF HandsInv, Asked
<1>2. at'[u] = "fill" => \E x \in Pages :
       ArenaSpan(x)' = hand'[u] /\ (arena'[x].desc \in Descs => descLock'[arena'[x].desc] = u)
  <2> SUFFICES ASSUME at[u] = "fill"
               PROVE \E x \in Pages :
                 ArenaSpan(x)' = hand'[u] /\ (arena'[x].desc \in Descs => descLock'[arena'[x].desc] = u)
    OBVIOUS
  <2>1. PICK x \in Pages : ArenaSpan(x) = hand[u] /\
          (arena[x].desc \in Descs => descLock[arena[x].desc] = u)
    BY DEF HandsInv
  <2>2. ArenaSpan(x)' = hand'[u] /\ arena'[x].desc = arena[x].desc
    BY <2>1
  <2>3. arena'[x].desc \in Descs => descLock'[arena'[x].desc] = u
    BY <2>1, <2>2
  <2> QED BY <2>2, <2>3
<1>3. at'[u] = "clear" => \A x \in Pages : ArenaSpan(x)' \cap hand'[u] = {}
  OBVIOUS
<1> QED BY <1>1, <1>2, <1>3 DEF HandsInv

(* All of a call that does not move, while the heap stays.                 *)
LEMMA CallsStay ==
  ASSUME HeapTypes, SameHeap, NEW u \in Callers, CallInv(u), LocksInv(u), HandsInv(u),
         at'[u] = at[u], job'[u] = job[u], hand'[u] = hand[u],
         \A d \in Descs : descLock[d] = u => descLock'[d] = u /\ freeList'[d] = freeList[d]
  PROVE  CallInv(u)' /\ LocksInv(u)' /\ HandsInv(u)'
<1>1. LocksInv(u)'
  BY LocksStay
<1>2. \A x \in Pages : ArenaSpan(x)' = ArenaSpan(x) /\ arena'[x].desc = arena[x].desc
  BY SameHeapFacts
<1>3. HandsInv(u)'
  BY <1>2, HandsStay DEF HandsInv
<1>4. at[u] = "put" => arena'[PageOf(job[u].old.block)].desc # Big
  <2> SUFFICES ASSUME at[u] = "put" PROVE arena'[PageOf(job[u].old.block)].desc # Big
    OBVIOUS
  <2>1. job[u].old \in Owned
    BY DEF CallInv, Giving
  <2>2. PageOf(job[u].old.block) \in Pages
    BY <2>1, UnitPage DEF Owned
  <2> QED BY <2>2, <1>2 DEF CallInv
<1> QED BY <1>1, <1>3, <1>4, CallStays

(* The owners of blocks, where they and the blocks stay.                   *)
LEMMA ListsStay ==
  ASSUME HeapTypes, SameHeap, ListsInv, freeList' = freeList
  PROVE  ListsInv'
<1>1. ASSUME NEW d \in Descs
      PROVE /\ NoDuplicates(freeList'[d])
            /\ \A b \in Elems(freeList'[d]) : IsBlock(b)' /\ arena'[PageOf(b)].desc = d
  <2>1. NoDuplicates(freeList[d]) /\ \A b \in Elems(freeList[d]) : IsBlock(b) /\ arena[PageOf(b)].desc = d
    BY DEF ListsInv
  <2>2. \A b \in Elems(freeList[d]) : b \in Units /\ PageOf(b) \in Pages
    BY UnitPage DEF HeapTypes, Elems
  <2> QED BY <2>1, <2>2, SameHeapFacts
<1> QED BY <1>1 DEF ListsInv

(* OwnersInv is kept while the heap and the owners stay.                   *)
LEMMA OwnersStay ==
  ASSUME HeapTypes, SameHeap, OwnersInv, held' = held,
         \A u \in Callers : /\ NewOf(u)' = NewOf(u) /\ OldOf(u)' = OldOf(u)
                            /\ NewOf(u) # NULL => job'[u].size = job[u].size
                            /\ OldOf(u) # NULL => job'[u].old = job[u].old
  PROVE  OwnersInv'
<1>1. ASSUME NEW h \in held' PROVE IsBlock(h.block)' /\ h.size <= BlockSize(h.block)'
  <2>1. h.block \in Units
    BY <1>1 DEF HeapTypes, Owned
  <2> QED BY <1>1, <2>1, SameHeapFacts DEF OwnersInv
<1>2. ASSUME NEW u \in Callers, NewOf(u)' # NULL
      PROVE  IsBlock(NewOf(u))' /\ job'[u].size <= BlockSize(NewOf(u))'
  <2>1. PICK b : b = NewOf(u)
    OBVIOUS
  <2>2. b \in Units
    BY <1>2, <2>1, JobTypes DEF NewOf
  <2>3. IsBlock(b)' /\ job'[u].size <= BlockSize(b)'
    BY <1>2, <2>1, <2>2, SameHeapFacts DEF OwnersInv
  <2>4. NewOf(u)' = b
    BY <2>1
  <2> QED BY <2>3, <2>4 DEF IsBlock, BlockSize, InHeap
<1>3. ASSUME NEW u \in Callers, OldOf(u)' # NULL
      PROVE  IsBlock(OldOf(u))' /\ job'[u].old.size <= BlockSize(OldOf(u))'
  <2>1. PICK b : b = OldOf(u)
    OBVIOUS
  <2>2. b \in Units
    BY <1>3, <2>1, JobTypes
  <2>3. IsBlock(b)' /\ job'[u].old.size <= BlockSize(b)'
    BY <1>3, <2>1, <2>2, SameHeapFacts DEF OwnersInv
  <2>4. OldOf(u)' = b
    BY <2>1
  <2> QED BY <2>3, <2>4 DEF IsBlock, BlockSize, InHeap
<1> QED BY <1>1, <1>2, <1>3 DEF OwnersInv

(* SoleOwner is kept while lists and owners stay.                          *)
LEMMA SoleStays ==
  ASSUME SoleOwner, freeList' = freeList, held' = held,
         \A u \in Callers : NewOf(u)' = NewOf(u) /\ OldOf(u)' = OldOf(u)
  PROVE  SoleOwner'
<1>1. \A b : NotListed(b)' = NotListed(b)
  BY DEF NotListed
<1> QED BY <1>1 DEF SoleOwner

(* CountsInv is kept while the heap and its lists stay.                    *)
LEMMA CountsStay ==
  ASSUME HeapTypes, SameHeap, CountsInv, freeList' = freeList, arena' = arena,
         \A u \in Callers : at[u] = "pop" => at'[u] = "pop" /\ job'[u].size = job[u].size
  PROVE  CountsInv'
<1>1. ASSUME NEW x \in Pages, InHeap(x)', arena[x].desc \in Descs
      PROVE  /\ arena[x].freeCnt = Cardinality(HoldsAt(arena[x].desc, x))
             /\ arena[x].freeCnt = BlocksPerArena(arena[x].desc) =>
                  \E t \in Callers : /\ at'[t] = "pop" /\ DescFor(job'[t].size) = arena[x].desc
                                     /\ x = PageOf(Head(freeList[arena[x].desc]))
  <2>1. InHeap(x)
    BY <1>1, SameHeapFacts
  <2>2. \A t \in Callers : at[t] = "pop" => at'[t] = "pop" /\ DescFor(job'[t].size) = DescFor(job[t].size)
    OBVIOUS
  <2> QED BY <1>1, <2>1, <2>2 DEF CountsInv
<1>2. \A d, x : HoldsAt(d, x)' = HoldsAt(d, x)
  BY DEF HoldsAt
<1> QED BY <1>1, <1>2 DEF CountsInv

(* Kept is kept while the heap, its lists and the memory stay.             *)
LEMMA KeptStays ==
  ASSUME HeapTypes, SameHeap, Kept, freeList' = freeList, held' = held, mem' = mem,
         \A u \in Callers : job'[u].op = "realloc" => job[u].op = "realloc" /\ job'[u].old = job[u].old
  PROVE  Kept'
<1>1. HeldKept'
  BY DEF Kept, HeldKept, Keeps
<1>2. OldKept'
  BY DEF Kept, OldKept, Keeps
<1>3. HeadersKept'
  BY SameHeapFacts DEF Kept, HeadersKept
<1>4. LinksKept'
  BY DEF Kept, LinksKept
<1> QED BY <1>1, <1>2, <1>3, <1>4 DEF Kept

(* A step that is not one of the heap.                                     *)
LEMMA HeapStays ==
  ASSUME HeapOK, UNCHANGED heapVars, \A t \in Callers : at'[t] = at[t] /\ hand'[t] = hand[t]
  PROVE  HeapOK'
<1>1. arena' = arena /\ freeList' = freeList /\ descLock' = descLock /\ mem' = mem /\
        held' = held /\ job' = job
  BY DEF heapVars
<1>2. HeapTypes /\ HeapTypes' /\ ListsInv /\ OwnersInv /\ SoleOwner /\ CountsInv /\ CallsInv /\
        Kept /\ SpansApart
  BY <1>1 DEF HeapOK, HeapTypes
<1>3. SameHeap
  BY <1>1, SameHeapIs DEF SameShape, Freeing
<1>4. \A u \in Callers : NewOf(u)' = NewOf(u) /\ OldOf(u)' = OldOf(u)
  BY <1>1 DEF NewOf, OldOf
<1>5. SpansApart'
  BY <1>2, <1>3, SameHeapFacts
<1>6. ListsInv'
  BY <1>1, <1>2, <1>3, ListsStay
<1>7. OwnersInv'
  BY <1>1, <1>2, <1>3, <1>4, OwnersStay
<1>8. SoleOwner'
  BY <1>1, <1>2, <1>4, SoleStays
<1>9. CountsInv'
  BY <1>1, <1>2, <1>3, CountsStay
<1>10. Kept'
  BY <1>1, <1>2, <1>3, KeptStays
<1>11. CallsInv'
  <2> SUFFICES ASSUME NEW u \in Callers PROVE CallInv(u)' /\ LocksInv(u)' /\ HandsInv(u)'
    BY DEF CallsInv
  <2>1. CallInv(u) /\ LocksInv(u) /\ HandsInv(u)
    BY <1>2 DEF CallsInv
  <2> QED BY <1>1, <1>2, <1>3, <2>1, CallsStay
<1> QED BY <1>2, <1>5, <1>6, <1>7, <1>8, <1>9, <1>10, <1>11 DEF HeapOK

-----------------------------------------------------------------------------
(* A step outside the page allocator that moves no pages.                  *)
LEMMA NoPagesMoved ==
  ASSUME MemInv, HeapOK, NEW t \in Callers, UNCHANGED <<tableVars, load>>, SameHeap,
         used' = used, poolLock' = poolLock, NEW place \in Places, at' = [at EXCEPT ![t] = place],
         hand' = hand, at[t] # "flip", place \notin {"flip", "got", "fill", "clear"}, InHand(t) = {}
  PROVE  MemInv'
<1>1. t \in Actors /\ PoolTypes /\ HeapTypes /\ SpansApart
  BY ActorFacts DEF MemInv, HeapOK
<1>2. PoolTypes' /\ at'[t] = place
  BY <1>1 DEF PoolTypes
<1>3. OnlyCaller(t)
  BY <1>1 DEF OnlyCaller, PoolTypes
<1>4. InHand(t)' = {}
  BY <1>2 DEF InHand
<1>5. HeapPages' = HeapPages
  BY SameHeapFacts
<1> QED BY <1>1, <1>2, <1>3, <1>4, <1>5, QuietCall

(* What a caller has at each place.                                        *)
LEMMA CallFacts ==
  ASSUME HeapOK, NEW t \in Callers
  PROVE  /\ HeapTypes /\ CallInv(t) /\ LocksInv(t) /\ HandsInv(t)
         /\ at[t] \notin {"flip", "got", "fill", "clear"} => InHand(t) = {} /\ hand[t] = {}
         /\ at[t] \notin {"fill", "clear"} => Freeing(t) = {}
         /\ at[t] # "return" => NewOf(t) = NULL
<1>1. HeapTypes /\ CallInv(t) /\ LocksInv(t) /\ HandsInv(t)
  BY DEF HeapOK, CallsInv
<1> QED BY <1>1 DEF InHand, Freeing, HandsInv, CallInv, NewOf

(* No block is none.                                                       *)
LEMMA NoBlockFacts == NoBlock \notin Owned /\ NoBlock.block = NULL /\ NULL \notin Units
BY Sizing DEF NoBlock, Owned, NULL, Units

(* OwnersInv, block by block.                                              *)
LEMMA OwnersAre ==
  /\ HeapTypes
  /\ \A h \in held : IsBlock(h.block) /\ h.size <= BlockSize(h.block)
  /\ \A u \in Callers : \A b \in Units :
       /\ NewOf(u) = b => IsBlock(b) /\ job[u].size <= BlockSize(b)
       /\ OldOf(u) = b => IsBlock(b) /\ job[u].old.size <= BlockSize(b)
  => OwnersInv
<1> SUFFICES ASSUME /\ HeapTypes
                    /\ \A h \in held : IsBlock(h.block) /\ h.size <= BlockSize(h.block)
                    /\ \A u \in Callers : \A b \in Units :
                         /\ NewOf(u) = b => IsBlock(b) /\ job[u].size <= BlockSize(b)
                         /\ OldOf(u) = b => IsBlock(b) /\ job[u].old.size <= BlockSize(b)
             PROVE  OwnersInv
  OBVIOUS
<1>1. \A u \in Callers : NewOf(u) # NULL => NewOf(u) \in Units
  BY JobTypes DEF NewOf
<1>2. \A u \in Callers : OldOf(u) # NULL => OldOf(u) \in Units
  BY JobTypes
<1> QED BY <1>1, <1>2 DEF OwnersInv

(* OwnersInv of the next state, stated block by block.                     *)
LEMMA OwnersAreNext ==
  (/\ HeapTypes
   /\ \A h \in held : IsBlock(h.block) /\ h.size <= BlockSize(h.block)
   /\ \A u \in Callers : \A b \in Units :
        /\ NewOf(u) = b => IsBlock(b) /\ job[u].size <= BlockSize(b)
        /\ OldOf(u) = b => IsBlock(b) /\ job[u].old.size <= BlockSize(b)
   => OwnersInv)'
<1>1. /\ HeapTypes
      /\ \A h \in held : IsBlock(h.block) /\ h.size <= BlockSize(h.block)
      /\ \A u \in Callers : \A b \in Units :
           /\ NewOf(u) = b => IsBlock(b) /\ job[u].size <= BlockSize(b)
           /\ OldOf(u) = b => IsBlock(b) /\ job[u].old.size <= BlockSize(b)
      => OwnersInv
  BY OwnersAre
<1> QED BY <1>1, PTL

(* The beginning of malloc, realloc and free keeps the invariant.          *)
LEMMA BeginKeeps ==
  ASSUME MemInv, HeapOK, NEW t \in Callers, UNCHANGED <<tableVars, load>>,
         NEW op, NEW size, NEW old, NEW place, Begin(t, op, size, old, place), held' = held \ {old},
         UNCHANGED <<used, poolLock, hand, arena, freeList, descLock, mem>>,
         \/ op = "malloc" /\ size \in Sizes /\ old = NoBlock /\ place = "alloc"
         \/ op = "realloc" /\ size \in Sizes /\ old \in held /\ place = "alloc"
         \/ op = "free" /\ size = 0 /\ old \in held /\ place = "free"
  PROVE  MemInv' /\ HeapOK'
<1>1. /\ t \in Actors /\ PoolTypes /\ HeapTypes /\ SpansApart /\ ListsInv /\ OwnersInv /\ SoleOwner
      /\ CountsInv /\ CallsInv /\ Kept
  BY ActorFacts DEF MemInv, HeapOK
<1>2. PICK j : j = [op |-> op, size |-> size, old |-> old, block |-> NULL]
  OBVIOUS
<1>3. /\ at[t] = "idle" /\ job' = [job EXCEPT ![t] = j] /\ at' = [at EXCEPT ![t] = place]
      /\ used' = used /\ poolLock' = poolLock /\ hand' = hand /\ arena' = arena /\ freeList' = freeList
      /\ descLock' = descLock /\ mem' = mem
  BY <1>2 DEF Begin, Goto
<1>4. job[t] = NoJob /\ NewOf(t) = NULL /\ OldOf(t) = NULL /\ InHand(t) = {} /\
        Freeing(t) = {} /\ hand[t] = {}
  BY <1>3, CallFacts DEF CallInv, NewOf, OldOf, NoJob, NoBlock
<1>5. j.op = op /\ j.size = size /\ j.old = old /\ j.block = NULL
  BY <1>2
<1>6. job'[t] = j /\ at'[t] = place /\ place \in {"alloc", "free"}
      /\ \A u \in Callers : u # t => job'[u] = job[u] /\ at'[u] = at[u]
  BY <1>1, <1>3, ActorFacts DEF HeapTypes, PoolTypes
<1>7. old \in Owned \cup {NoBlock} /\ (old \in held \/ old = NoBlock) /\ (old \in held => old \in Owned)
  BY <1>1 DEF HeapTypes
<1>8. HeapTypes'
  <2>1. j \in Jobs
    BY <1>2, <1>7 DEF Jobs
  <2> QED BY <2>1, <1>1, <1>3 DEF HeapTypes
<1>9. SameHeap
  BY <1>3, <1>4, <1>6, SameHeapIs DEF SameShape, Freeing
<1>10. place \in Places
  BY <1>6 DEF Places
<1>11. MemInv'
  BY <1>3, <1>4, <1>6, <1>9, <1>10, NoPagesMoved
<1>12. SpansApart' /\ ListsInv'
  BY <1>1, <1>3, <1>9, SameHeapFacts, ListsStay
<1>13. NewOf(t)' = NULL /\ OldOf(t)' = old.block
  BY <1>5, <1>6 DEF NewOf, OldOf
<1>14. \A u \in Callers : u # t => NewOf(u)' = NewOf(u) /\ OldOf(u)' = OldOf(u)
  BY <1>6 DEF NewOf, OldOf
<1>15. OwnersInv'
  <2>1. ASSUME NEW h \in held' PROVE IsBlock(h.block)' /\ h.size <= BlockSize(h.block)'
    <3>1. h \in held /\ h.block \in Units
      BY <2>1, <1>1 DEF HeapTypes, Owned
    <3> QED BY <3>1, <1>1, <1>9, SameHeapFacts DEF OwnersInv
  <2>2. ASSUME NEW u \in Callers, NEW b \in Units, NewOf(u)' = b
        PROVE  IsBlock(b)' /\ job'[u].size <= BlockSize(b)'
    <3>1. u # t
      BY <2>2, <1>13, NoBlockFacts
    <3> QED BY <3>1, <2>2, <1>1, <1>6, <1>9, <1>14, NoBlockFacts, SameHeapFacts DEF OwnersInv
  <2>3. ASSUME NEW u \in Callers, NEW b \in Units, OldOf(u)' = b
        PROVE  IsBlock(b)' /\ job'[u].old.size <= BlockSize(b)'
    <3>1. CASE u = t
      <4>1. old.block = b
        BY <2>3, <3>1, <1>13
      <4>2. old \in held
        BY <4>1, <1>7, NoBlockFacts
      <4>3. IsBlock(b) /\ old.size <= BlockSize(b)
        BY <4>1, <4>2, <1>1 DEF OwnersInv
      <4> QED BY <4>3, <3>1, <1>5, <1>6, <1>9, SameHeapFacts
    <3>2. CASE u # t
      BY <3>2, <2>3, <1>1, <1>6, <1>9, <1>14, NoBlockFacts, SameHeapFacts DEF OwnersInv
    <3> QED BY <3>1, <3>2
  <2> QED BY <1>8, <2>1, <2>2, <2>3, OwnersAreNext
<1>16. SoleOwner'
  <2>1. \A b : NotListed(b)' = NotListed(b)
    BY <1>3 DEF NotListed
  <2>2. \A h \in held' : h \in held /\ h # old
    OBVIOUS
  <2>3. old \in held => \A h \in held' : h.block # old.block
    BY <2>2, <1>1 DEF SoleOwner
  <2>4. old.block # NULL => old \in held
    BY <1>7, NoBlockFacts
  <2>5. old.block # NULL => \A u \in Callers : NewOf(u) # old.block /\ OldOf(u) # old.block
    BY <2>4, <1>1 DEF SoleOwner
  <2>6. \A u \in Callers : NewOf(u)' = NewOf(u)
    BY <1>4, <1>13, <1>14
  <2>7. \A h \in held' : NotListed(h.block)' /\ \A u \in Callers : NewOf(u)' # h.block /\
          OldOf(u)' # h.block
    <3> SUFFICES ASSUME NEW h \in held', NEW u \in Callers
                 PROVE NotListed(h.block)' /\ NewOf(u)' # h.block /\ OldOf(u)' # h.block
      BY <2>1, <2>2, <1>1 DEF SoleOwner
    <3>1. h \in held /\ h.block \in Units
      BY <2>2, <1>1 DEF HeapTypes, Owned
    <3>2. NotListed(h.block)' /\ NewOf(u)' # h.block
      BY <3>1, <2>1, <2>6, <1>1 DEF SoleOwner
    <3>3. OldOf(u)' # h.block
      BY <3>1, <2>3, <2>4, <1>1, <1>13, <1>14, NoBlockFacts DEF SoleOwner
    <3> QED BY <3>2, <3>3
  <2>8. \A u \in Callers : /\ NewOf(u)' # NULL => NotListed(NewOf(u))'
                           /\ OldOf(u)' # NULL => NotListed(OldOf(u))'
    <3> SUFFICES ASSUME NEW u \in Callers
                 PROVE /\ NewOf(u)' # NULL => NotListed(NewOf(u)')
                       /\ OldOf(u)' # NULL => NotListed(OldOf(u)')
      BY <1>3 DEF NotListed
    <3> QED BY <2>4, <2>6, <1>1, <1>13, <1>14 DEF SoleOwner
  <2>9. \A a, u \in Callers : /\ NewOf(a)' # NULL => NewOf(a)' # OldOf(u)' /\
                                   (NewOf(a)' = NewOf(u)' => a = u)
                              /\ OldOf(a)' # NULL /\ OldOf(a)' = OldOf(u)' => a = u
    BY <2>5, <2>6, <1>1, <1>13, <1>14 DEF SoleOwner
  <2>10. \A h, k \in held' : h.block = k.block => h = k
    BY <2>2, <1>1 DEF SoleOwner
  <2> QED BY <2>7, <2>8, <2>9, <2>10 DEF SoleOwner
<1>17. CountsInv'
  BY <1>1, <1>3, <1>6, <1>9, CountsStay
<1>18. Kept'
  <2>1. HeldKept'
    BY <1>1, <1>3 DEF Kept, HeldKept, Keeps
  <2>2. OldKept'
    <3> SUFFICES ASSUME NEW u \in Callers, job'[u].op = "realloc" PROVE Keeps(job[u].old)'
      BY DEF OldKept
    <3>1. CASE u = t
      <4>1. old \in held /\ job'[u].old = old
        BY <3>1, <1>5, <1>6
      <4>2. Keeps(old)
        BY <4>1, <1>1 DEF Kept, HeldKept
      <4> QED BY <4>1, <4>2, <1>3 DEF Keeps
    <3>2. CASE u # t
      BY <3>2, <1>1, <1>3, <1>6 DEF Kept, OldKept, Keeps
    <3> QED BY <3>1, <3>2
  <2>3. HeadersKept'
    BY <1>1, <1>3, <1>9, SameHeapFacts DEF Kept, HeadersKept
  <2>4. LinksKept'
    BY <1>1, <1>3 DEF Kept, LinksKept
  <2> QED BY <2>1, <2>2, <2>3, <2>4 DEF Kept
<1>19. CallsInv'
  <2> SUFFICES ASSUME NEW u \in Callers PROVE CallInv(u)' /\ LocksInv(u)' /\ HandsInv(u)'
    BY DEF CallsInv
  <2>1. CASE u = t
    <3>1. CallInv(t)'
      BY <1>5, <1>6, <1>7 DEF CallInv, Asking, Giving
    <3>2. LocksInv(t)'
      BY <1>6 DEF LocksInv
    <3>3. HandsInv(t)'
      BY <1>3, <1>4, <1>6 DEF HandsInv
    <3> QED BY <2>1, <3>1, <3>2, <3>3
  <2>2. CASE u # t
    BY <2>2, <1>1, <1>3, <1>6, <1>9, CallsStay DEF CallsInv
  <2> QED BY <2>1, <2>2
<1> QED BY <1>8, <1>11, <1>12, <1>15, <1>16, <1>17, <1>18, <1>19 DEF HeapOK

-----------------------------------------------------------------------------
(* A step that moves no block: what is left to show is about the call      *)
(* itself.                                                                 *)
LEMMA BlocksStay ==
  ASSUME HeapOK, NEW t \in Callers, SameHeap, HeapTypes',
         arena' = arena, freeList' = freeList, mem' = mem, held' = held, job' = job,
         \A u \in Callers : u # t => at'[u] = at[u] /\ hand'[u] = hand[u],
         \A u \in Callers : OldOf(u)' = OldOf(u), at[t] # "pop",
         \A d \in Descs : \A u \in Callers : u # t /\ descLock[d] = u => descLock'[d] = u,
         CallInv(t)', LocksInv(t)', HandsInv(t)'
  PROVE  HeapOK'
<1>1. /\ HeapTypes /\ SpansApart /\ ListsInv /\ OwnersInv /\ SoleOwner /\ CountsInv /\ CallsInv /\ Kept
  BY DEF HeapOK
<1>2. \A u \in Callers : NewOf(u)' = NewOf(u)
  BY DEF NewOf
<1>3. SpansApart' /\ ListsInv'
  BY <1>1, SameHeapFacts, ListsStay
<1>4. OwnersInv' /\ SoleOwner'
  BY <1>1, <1>2, OwnersStay, SoleStays
<1>5. CountsInv'
  <2>1. \A u \in Callers : at[u] = "pop" => at'[u] = "pop" /\ job'[u].size = job[u].size
    OBVIOUS
  <2> QED BY <2>1, <1>1, CountsStay
<1>6. Kept'
  BY <1>1, KeptStays
<1>7. CallsInv'
  <2> SUFFICES ASSUME NEW u \in Callers, u # t PROVE CallInv(u)' /\ LocksInv(u)' /\ HandsInv(u)'
    BY DEF CallsInv
  <2> QED BY <1>1, CallsStay DEF CallsInv
<1> QED BY <1>3, <1>4, <1>5, <1>6, <1>7 DEF HeapOK

(* The step of malloc that takes the descriptor's lock and looks at its    *)
(* list keeps the invariant.                                               *)
LEMMA AllocKeeps ==
  ASSUME MemInv, HeapOK, NEW t \in Callers, UNCHANGED <<tableVars, load>>, Alloc(t)
  PROVE  MemInv' /\ HeapOK'
<1>1. t \in Actors /\ PoolTypes /\ HeapTypes
  BY ActorFacts DEF MemInv, HeapOK
<1>2. PICK d : d = DescFor(job[t].size)
  OBVIOUS
<1>3. PICK place : place = IF d = Big \/ freeList[d] = <<>> THEN "get" ELSE "pop"
  OBVIOUS
<1>4. /\ at[t] = "alloc" /\ at' = [at EXCEPT ![t] = place]
      /\ used' = used /\ poolLock' = poolLock /\ hand' = hand /\ arena' = arena /\ freeList' = freeList
      /\ mem' = mem /\ held' = held /\ job' = job
      /\ d = Big => descLock' = descLock
      /\ d # Big => descLock[d] = Nobody /\ descLock' = [descLock EXCEPT ![d] = t]
  BY <1>2, <1>3 DEF Alloc, Goto
<1>5. d \in Descs \cup {Big}
  BY <1>1, <1>2, JobTypes, DescForIs
<1>6. /\ CallInv(t) /\ LocksInv(t) /\ HandsInv(t) /\ InHand(t) = {} /\ hand[t] = {}
  BY <1>4, CallFacts
<1>7. at'[t] = place /\ place \in {"get", "pop"} /\ place \in Places
      /\ \A u \in Callers : u # t => at'[u] = at[u] /\ hand'[u] = hand[u]
  BY <1>1, <1>3, <1>4, ActorFacts DEF PoolTypes, Places, PoolPlaces
<1>8. HeapTypes'
  BY <1>1, <1>4, <1>5 DEF HeapTypes
<1>9. SameHeap
  <2>1. Freeing(t)' = {} /\ Freeing(t) = {}
    BY <1>4, <1>7 DEF Freeing
  <2> QED BY <2>1, <1>4, <1>7, SameHeapIs DEF SameShape, Freeing
<1>10. MemInv'
  BY <1>4, <1>6, <1>7, <1>9, NoPagesMoved
<1>11. \A u \in Callers : OldOf(u)' = OldOf(u)
  BY <1>4, <1>7 DEF OldOf
<1>12. \A e \in Descs : \A u \in Callers : u # t /\ descLock[e] = u => descLock'[e] = u
  BY <1>1, <1>4, <1>5, ActorFacts DEF HeapTypes
<1>13. CallInv(t)'
  BY <1>4, <1>6, <1>7 DEF CallInv, Asking, Giving
<1>14. LocksInv(t)'
  <2>1. DescFor(job[t].size)' = d
    BY <1>2, <1>4
  <2>2. d # Big => descLock'[d] = t
    BY <1>1, <1>4, <1>5 DEF HeapTypes
  <2>3. /\ at'[t] = "get" /\ d # Big => freeList'[d] = <<>>
        /\ at'[t] = "pop" => d # Big /\ freeList'[d] # <<>>
    BY <1>3, <1>4, <1>7
  <2> QED BY <2>1, <2>2, <2>3, <1>7 DEF LocksInv
<1>15. HandsInv(t)'
  BY <1>4, <1>6, <1>7 DEF HandsInv
<1>16. HeapOK'
  BY <1>4, <1>7, <1>8, <1>9, <1>11, <1>12, <1>13, <1>14, <1>15, BlocksStay
<1> QED BY <1>10, <1>16

(* The pages of a big block hold it and its header.                        *)
LEMMA PageCountIs ==
  ASSUME NEW size \in Nat
  PROVE  PageCount(size) \in Nat \ {0} /\ size + HeaderSize <= PageSize * PageCount(size)
<1>1. PICK n : n = size + HeaderSize + PageSize - 1
  OBVIOUS
<1>2. n \in Nat /\ PageSize \in Nat \ {0} /\ n >= PageSize /\ n = size + HeaderSize + PageSize - 1
  BY <1>1, Sizing
<1>3. PICK m : m = n \div PageSize
  OBVIOUS
<1>4. m \in Nat /\ n < PageSize * m + PageSize
  BY <1>2, <1>3, DivIs
<1>5. m # 0
  BY <1>2, <1>4
<1>6. size + HeaderSize <= PageSize * m
  BY <1>2, <1>4, Sizing
<1> QED BY <1>1, <1>3, <1>4, <1>5, <1>6 DEF PageCount

(* A call asks the pool for at least one page.                             *)
LEMMA AskedIs ==
  ASSUME HeapTypes, NEW t \in Callers
  PROVE  Asked(t) \in Nat \ {0}
BY JobTypes, PageCountIs DEF Asked

(* bitmap_scan for malloc keeps the invariant.                             *)
LEMMA AskKeeps ==
  ASSUME MemInv, HeapOK, NEW t \in Callers, UNCHANGED <<tableVars, load>>, AskPages(t)
  PROVE  MemInv' /\ HeapOK'
<1>1. t \in Actors /\ PoolTypes /\ HeapTypes /\ SpansApart /\ LockInv
  BY ActorFacts DEF MemInv, HeapOK
<1>2. PICK n : n = Asked(t)
  OBVIOUS
<1>3. /\ at[t] = "get" /\ at' = [at EXCEPT ![t] = "flip"] /\ poolLock = Nobody /\ poolLock' = t
      /\ hand' = [hand EXCEPT ![t] = FreeRun(n)]
      /\ used' = used /\ arena' = arena /\ freeList' = freeList /\ descLock' = descLock
      /\ mem' = mem /\ held' = held /\ job' = job
  BY <1>2 DEF AskPages, Asked, GetScan, Goto, heapVars
<1>4. n \in Nat \ {0}
  BY <1>1, <1>2, AskedIs
<1>5. FreeRun(n) \subseteq Pages /\ FreeRun(n) \cap used = {}
      /\ (FreeRun(n) = {} \/ \E s \in Pages : FreeRun(n) = Span(s, n))
  BY <1>1, <1>4, FreeRunIs DEF Span
<1>6. /\ CallInv(t) /\ LocksInv(t) /\ HandsInv(t) /\ InHand(t) = {} /\ hand[t] = {}
  BY <1>3, CallFacts
<1>7. at'[t] = "flip" /\ hand'[t] = FreeRun(n)
      /\ \A u \in Callers : u # t => at'[u] = at[u] /\ hand'[u] = hand[u]
  BY <1>1, <1>3, ActorFacts DEF PoolTypes
<1>8. HeapTypes'
  BY <1>1, <1>3 DEF HeapTypes
<1>9. SameHeap
  <2>1. Freeing(t)' = {} /\ Freeing(t) = {}
    BY <1>3, <1>7 DEF Freeing
  <2> QED BY <2>1, <1>3, <1>7, SameHeapIs DEF SameShape, Freeing
<1>10. MemInv'
  <2>1. PoolTypes'
    BY <1>1, <1>3, <1>5 DEF PoolTypes, Places, PoolPlaces
  <2>2. OnlyCaller(t)
    BY <1>1, <1>3 DEF OnlyCaller, PoolTypes
  <2>3. LockInv'
    <3>1. Elsewhere' = Elsewhere
      BY DEF Elsewhere
    <3>2. ASSUME NEW a \in Actors
          PROVE  /\ at'[a] = "flip" <=> poolLock' = a
                 /\ at'[a] = "flip" => hand'[a] \cap used' = {}
                 /\ at'[a] \in {"fill", "clear"} => hand'[a] # {}
      <4>1. at[a] = "flip" <=> poolLock = a
        BY <1>1 DEF LockInv
      <4>2. poolLock # a
        BY <1>3, ActorFacts
      <4> QED BY <1>1, <1>3, <1>5, <1>7, <4>1, <4>2 DEF LockInv, PoolTypes
    <3> QED BY <1>1, <1>3, <3>1, <3>2 DEF LockInv
  <2>4. InHand(t)' = {} /\ HeapPages' = HeapPages
    BY <1>7, <1>9, SameHeapFacts DEF InHand
  <2> DEFINE none == {}
  <2>5. /\ none \subseteq Pages /\ none \cap used = {} /\ none \subseteq HeapPages \cup InHand(t)
        /\ HeapPages' \cap InHand(t)' = {}
        /\ HeapPages' \cup InHand(t)' = ((HeapPages \cup InHand(t)) \cup none) \ none
        /\ used' = (used \cup none) \ none
    BY <1>3, <1>6, <2>4
  <2> QED BY <1>1, <2>1, <2>2, <2>3, <2>5, CallerStep
<1>11. \A u \in Callers : OldOf(u)' = OldOf(u)
  BY <1>3, <1>7 DEF OldOf
<1>12. CallInv(t)'
  BY <1>3, <1>6, <1>7 DEF CallInv, Asking, Giving
<1>13. LocksInv(t)'
  BY <1>3, <1>6, <1>7 DEF LocksInv
<1>14. HandsInv(t)'
  <2>1. Asked(t)' = n
    BY <1>2, <1>3 DEF Asked
  <2> QED BY <2>1, <1>5, <1>7 DEF HandsInv
<1>15. HeapOK'
  BY <1>3, <1>7, <1>8, <1>9, <1>11, <1>12, <1>13, <1>14, BlocksStay
<1> QED BY <1>10, <1>15

(* bitmap_set_multiple for malloc keeps the invariant.                     *)
LEMMA SetBitsKeeps ==
  ASSUME MemInv, HeapOK, NEW t \in Callers, UNCHANGED <<tableVars, load>>, GetFlip(t), UNCHANGED heapVars
  PROVE  MemInv' /\ HeapOK'
<1>1. t \in Actors /\ PoolTypes /\ HeapTypes /\ SpansApart /\ LockInv /\ OwnInv
  BY ActorFacts DEF MemInv, HeapOK
<1>2. /\ at[t] = "flip" /\ at' = [at EXCEPT ![t] = "got"] /\ poolLock' = Nobody /\ hand' = hand
      /\ used' = used \cup hand[t] /\ arena' = arena /\ freeList' = freeList /\ descLock' = descLock
      /\ mem' = mem /\ held' = held /\ job' = job
  BY DEF GetFlip, Goto, heapVars
<1>3. CallInv(t) /\ LocksInv(t) /\ HandsInv(t) /\ InHand(t) = {}
  BY <1>2, CallFacts DEF InHand
<1>4. at'[t] = "got" /\ \A u \in Callers : u # t => at'[u] = at[u] /\ hand'[u] = hand[u]
  BY <1>1, <1>2, ActorFacts DEF PoolTypes
<1>5. hand[t] \subseteq Pages /\ hand[t] \cap used = {}
  BY <1>1, <1>2 DEF PoolTypes, LockInv
<1>6. HeapTypes'
  BY <1>1, <1>2 DEF HeapTypes
<1>7. SameHeap
  <2>1. Freeing(t)' = {} /\ Freeing(t) = {}
    BY <1>2, <1>4 DEF Freeing
  <2> QED BY <2>1, <1>2, <1>4, SameHeapIs DEF SameShape, Freeing
<1>8. MemInv'
  <2>1. PoolTypes'
    BY <1>1, <1>2, <1>5 DEF PoolTypes, Places, PoolPlaces
  <2>2. OnlyCaller(t)
    BY <1>1, <1>2 DEF OnlyCaller, PoolTypes
  <2>3. Elsewhere' \subseteq used' => LockInv'
    <3>1. ASSUME NEW a \in Actors
          PROVE  /\ at'[a] = "flip" <=> poolLock' = a
                 /\ at'[a] = "flip" => hand'[a] \cap used' = {}
                 /\ at'[a] \in {"fill", "clear"} => hand'[a] # {}
      <4>1. (at[a] = "flip" <=> poolLock = a) /\ poolLock = t
        BY <1>1, <1>2 DEF LockInv
      <4>2. Nobody # a
        BY ActorFacts
      <4> QED BY <1>1, <1>2, <1>4, <4>1, <4>2 DEF LockInv, PoolTypes
    <3> QED BY <3>1 DEF LockInv
  <2>4. InHand(t)' = hand[t] /\ HeapPages' = HeapPages
    BY <1>2, <1>4, <1>7, SameHeapFacts DEF InHand
  <2>5. HeapPages \cap hand[t] = {}
    <3>1. \A q \in HeapPages : q \in used
      BY <1>1, HeapPagesType DEF OwnInv
    <3> QED BY <3>1, <1>5
  <2>6. PICK took : took = hand[t]
    OBVIOUS
  <2> DEFINE none == {}
  <2>7. /\ took \subseteq Pages /\ took \cap used = {} /\ none \subseteq HeapPages \cup InHand(t)
        /\ HeapPages' \cap InHand(t)' = {}
        /\ HeapPages' \cup InHand(t)' = ((HeapPages \cup InHand(t)) \cup took) \ none
        /\ used' = (used \cup took) \ none
    BY <1>2, <1>3, <1>5, <2>4, <2>5, <2>6
  <2> QED BY <1>1, <2>1, <2>2, <2>3, <2>7, CallerStep
<1>9. \A u \in Callers : OldOf(u)' = OldOf(u)
  BY <1>2, <1>4 DEF OldOf
<1>10. CallInv(t)'
  BY <1>2, <1>3, <1>4 DEF CallInv, Asking, Giving
<1>11. LocksInv(t)'
  BY <1>2, <1>3, <1>4 DEF LocksInv
<1>12. HandsInv(t)'
  <2>1. Asked(t)' = Asked(t)
    BY <1>2 DEF Asked
  <2> QED BY <2>1, <1>2, <1>3, <1>4 DEF HandsInv
<1>13. HeapOK'
  BY <1>2, <1>4, <1>6, <1>7, <1>9, <1>10, <1>11, <1>12, BlocksStay
<1> QED BY <1>8, <1>13

(* No pages: malloc returns NULL.                                          *)
LEMMA NoPagesKeeps ==
  ASSUME MemInv, HeapOK, NEW t \in Callers, UNCHANGED <<tableVars, load>>, GotPages(t), hand[t] = {}
  PROVE  MemInv' /\ HeapOK'
<1>1. t \in Actors /\ PoolTypes /\ HeapTypes
  BY ActorFacts DEF MemInv, HeapOK
<1>2. /\ at[t] = "got" /\ at' = [at EXCEPT ![t] = "return"]
      /\ descLock' = [d \in Descs |-> IF descLock[d] = t THEN Nobody ELSE descLock[d]]
      /\ used' = used /\ poolLock' = poolLock /\ hand' = hand /\ arena' = arena /\ freeList' = freeList
      /\ mem' = mem /\ held' = held /\ job' = job
  BY <1>1 DEF GotPages, NoPages, Goto, PoolTypes
<1>3. CallInv(t) /\ LocksInv(t) /\ HandsInv(t) /\ InHand(t) = {}
  BY <1>2, CallFacts DEF InHand
<1>4. at'[t] = "return" /\ \A u \in Callers : u # t => at'[u] = at[u] /\ hand'[u] = hand[u]
  BY <1>1, <1>2, ActorFacts DEF PoolTypes
<1>5. HeapTypes'
  BY <1>1, <1>2 DEF HeapTypes
<1>6. SameHeap
  <2>1. Freeing(t)' = {} /\ Freeing(t) = {}
    BY <1>2, <1>4 DEF Freeing
  <2> QED BY <2>1, <1>2, <1>4, SameHeapIs DEF SameShape, Freeing
<1>7. "return" \in Places
  BY DEF Places
<1>8. MemInv'
  BY <1>2, <1>3, <1>6, <1>7, NoPagesMoved
<1>9. \A u \in Callers : OldOf(u)' = OldOf(u)
  BY <1>2, <1>4 DEF OldOf
<1>10. CallInv(t)'
  BY <1>2, <1>3, <1>4 DEF CallInv, Asking, Giving
<1>11. LocksInv(t)' /\ HandsInv(t)'
  BY <1>2, <1>4 DEF LocksInv, HandsInv
<1>12. \A e \in Descs : \A u \in Callers : u # t /\ descLock[e] = u => descLock'[e] = u
  BY <1>2
<1>13. HeapOK'
  BY <1>2, <1>4, <1>5, <1>6, <1>9, <1>10, <1>11, <1>12, BlocksStay
<1> QED BY <1>8, <1>13

-----------------------------------------------------------------------------
(* The blocks that a page is divided into.                                 *)
LEMMA BlocksSeq ==
  ASSUME NEW x \in Pages, NEW d \in Descs
  PROVE  /\ Blocks(x, d) \in Seq(Units) /\ Blocks(x, d) # <<>>
         /\ NoDuplicates(Blocks(x, d))
         /\ \A b : b \in Elems(Blocks(x, d)) <=> \E i \in 0..(BlocksPerArena(d) - 1) : b = BlockAt(x, d, i)
         /\ \A b \in Elems(Blocks(x, d)) : b \in Units /\ PageOf(b) = x /\
              b \notin Span(x * PageSize, HeaderSize)
         /\ IsFiniteSet(Elems(Blocks(x, d))) /\ Cardinality(Elems(Blocks(x, d))) = BlocksPerArena(d)
<1>1. PICK n : n = BlocksPerArena(d)
  OBVIOUS
<1>2. PICK q : q = Blocks(x, d)
  OBVIOUS
<1>3. n \in Nat \ {0} /\ d \in Nat \ {0} /\ x \in Nat /\ PageSize \in Nat /\ HeaderSize \in Nat
  BY <1>1, PerArena, Sizing
<1>4. q = [i \in 1..n |-> BlockAt(x, d, i - 1)]
  BY <1>1, <1>2 DEF Blocks
<1>5. ASSUME NEW i \in 0..(n - 1)
      PROVE  /\ BlockAt(x, d, i) \in Units /\ PageOf(BlockAt(x, d, i)) = x
             /\ BlockAt(x, d, i) \notin Span(x * PageSize, HeaderSize)
  <2>1. PICK b : b = BlockAt(x, d, i)
    OBVIOUS
  <2>2. b \in Int
    BY <1>3, <2>1 DEF BlockAt
  <2>3. b \in Span(b, d)
    BY <1>3, <2>2 DEF Span
  <2>4. b \in Units /\ PageOf(b) = x /\ b >= x * PageSize + HeaderSize
    BY <1>1, <2>1, <2>3, NormalUnits
  <2>5. PICK base : base = x * PageSize
    OBVIOUS
  <2>6. base \in Nat
    BY <1>3, <2>5
  <2>7. b \notin Span(base, HeaderSize)
    BY <1>3, <2>2, <2>4, <2>5, <2>6 DEF Span
  <2> QED BY <2>1, <2>4, <2>5, <2>7
<1>6. \A i \in 1..n : i - 1 \in 0..(n - 1)
  BY <1>3
<1>7. q \in [1..n -> Units]
  BY <1>4, <1>5, <1>6
<1>8. q \in Seq(Units) /\ DOMAIN q = 1..n /\ Len(q) = n
  BY <1>3, <1>7, SeqDef, LenProperties
<1>9. q # <<>>
  BY <1>3, <1>8, EmptySeq
<1>10. \A i, j \in 1..n : q[i] = q[j] => i = j
  <2> SUFFICES ASSUME NEW i \in 1..n, NEW j \in 1..n, i # j PROVE q[i] # q[j]
    OBVIOUS
  <2>1. PICK a, c : a = i - 1 /\ c = j - 1
    OBVIOUS
  <2>2. a \in 0..(n - 1) /\ c \in 0..(n - 1) /\ a # c
    BY <1>3, <2>1
  <2>3. BlockAt(x, d, a) \in Span(BlockAt(x, d, a), d)
    <3>1. BlockAt(x, d, a) \in Int
      BY <1>3, <2>2 DEF BlockAt
    <3> QED BY <3>1, <1>3 DEF Span
  <2>4. BlockAt(x, d, a) # BlockAt(x, d, c)
    BY <1>1, <2>2, <2>3, NormalApart
  <2> QED BY <1>4, <2>1, <2>4
<1>11. \A b : b \in Elems(q) <=> \E i \in 0..(n - 1) : b = BlockAt(x, d, i)
  <2>1. ASSUME NEW b \in Elems(q) PROVE \E i \in 0..(n - 1) : b = BlockAt(x, d, i)
    <3>1. PICK i \in 1..n : b = q[i]
      BY <1>8 DEF Elems
    <3> QED BY <3>1, <1>4, <1>6
  <2>2. ASSUME NEW i \in 0..(n - 1) PROVE BlockAt(x, d, i) \in Elems(q)
    <3>1. i + 1 \in 1..n /\ (i + 1) - 1 = i
      BY <1>3
    <3>2. q[i + 1] = BlockAt(x, d, i)
      BY <3>1, <1>4
    <3> QED BY <3>1, <3>2, <1>8 DEF Elems
  <2> QED BY <2>1, <2>2
<1>12. IsFiniteSet(Elems(q)) /\ Cardinality(Elems(q)) = n
  <2>1. IsFiniteSet(1..n) /\ Cardinality(1..n) = n
    BY <1>3, FS_Interval
  <2>2. q \in Bijection(1..n, Elems(q))
    <3>1. q \in [1..n -> Elems(q)]
      BY <1>7, <1>8 DEF Elems
    <3>2. \A b \in Elems(q) : \E i \in 1..n : q[i] = b
      BY <1>8 DEF Elems
    <3> QED BY <3>1, <3>2, <1>10 DEF Bijection, Injection, Surjection, IsInjective
  <2>3. ExistsBijection(1..n, Elems(q))
    BY <2>2 DEF ExistsBijection
  <2> QED BY <2>1, <2>3, FS_Bijection
<1>13. NoDuplicates(q)
  BY <1>8, <1>10 DEF NoDuplicates
<1>14. \A b \in Elems(q) : b \in Units /\ PageOf(b) = x /\ b \notin Span(x * PageSize, HeaderSize)
  BY <1>5, <1>11
<1> QED BY <1>1, <1>2, <1>8, <1>9, <1>11, <1>12, <1>13, <1>14

(* The pages that an allocation got.                                       *)
LEMMA HandsApart ==
  ASSUME MemInv, HeapOK, NEW t \in Callers, at[t] = "got", hand[t] # {}
  PROVE  /\ \E s \in Pages : hand[t] = Span(s, Asked(t)) /\ Min(hand[t]) = s /\ s + Asked(t) <= NumPages
                             /\ s \in hand[t] /\ Cardinality(hand[t]) = Asked(t)
         /\ hand[t] \subseteq Pages
         /\ \A x \in Pages : ArenaSpan(x) \cap hand[t] = {}
         /\ \A u \in Callers : Freeing(u) \cap hand[t] = {} /\ (u # t => InHand(u) \cap hand[t] = {})
         /\ \A q \in hand[t] : arena[q].desc = NULL
<1>1. t \in Actors /\ PoolTypes /\ OwnInv /\ HeapTypes /\ SpansApart /\ HandsInv(t)
  BY ActorFacts, CallFacts DEF MemInv, HeapOK
<1>2. hand[t] \subseteq Pages /\ InHand(t) = hand[t] /\ Freeing(t) = {}
  BY <1>1 DEF PoolTypes, InHand, Freeing
<1>3. PICK s \in Pages : hand[t] = Span(s, Asked(t))
  BY <1>1 DEF HandsInv
<1>4. PICK n : n = Asked(t)
  OBVIOUS
<1>5. n \in Nat \ {0} /\ s \in Nat /\ NumPages \in Nat
  BY <1>1, <1>4, AskedIs, Sizing
<1>6. hand[t] = s..(s + n - 1)
  BY <1>3, <1>4 DEF Span
<1>7. s \in hand[t] /\ s + n - 1 \in hand[t]
  BY <1>5, <1>6
<1>8. s + n <= NumPages
  <2>1. s + n - 1 \in Pages
    BY <1>2, <1>7
  <2> QED BY <2>1, <1>5, Sizing
<1>9. Min(hand[t]) = s
  <2>1. hand[t] \in SUBSET Nat
    BY <1>2, NoPageFacts
  <2>2. PICK m : m = Min(hand[t])
    OBVIOUS
  <2>3. m \in hand[t] /\ \A y \in hand[t] : m <= y
    BY <2>1, <2>2, <1>7, LeastGreatest
  <2>4. m <= s /\ s <= m /\ m \in Nat
    BY <2>1, <2>3, <1>5, <1>6, <1>7
  <2> QED BY <2>2, <2>4, <1>5
<1>10. Cardinality(hand[t]) = n
  <2>1. Cardinality(s..(s + n - 1)) = n
    BY <1>5, FS_Interval
  <2> QED BY <2>1, <1>6
<1>11. ASSUME NEW u \in Callers PROVE Freeing(u) \cap hand[t] = {} /\ (u # t => InHand(u) \cap hand[t] = {})
  <2>1. Freeing(u) \subseteq InHand(u) /\ u \in Actors
    BY ActorFacts DEF Freeing, InHand
  <2>2. u # t => InHand(u) \cap hand[t] = {}
    BY <2>1, <1>1, <1>2 DEF OwnInv
  <2> QED BY <2>1, <2>2, <1>2
<1>12. ASSUME NEW x \in Pages PROVE ArenaSpan(x) \cap hand[t] = {}
  <2>1. \A q \in ArenaSpan(x) : q \in HeapPages \/ \E u \in Callers : q \in Freeing(u)
    BY DEF HeapPages, ArenaPages
  <2>2. \A q \in HeapPages : q \notin hand[t]
    BY <1>1, <1>2 DEF OwnInv
  <2> QED BY <2>1, <2>2, <1>11
<1>13. ASSUME NEW q \in hand[t] PROVE arena[q].desc = NULL
  BY <1>1, <1>2, <1>12, <1>13, SpanFacts
<1> QED BY <1>2, <1>3, <1>4, <1>7, <1>8, <1>9, <1>10, <1>11, <1>12, <1>13

(* What the pages become an arena or a big block changes, and what not.    *)
LEMMA GrownHeap ==
  ASSUME MemInv, HeapOK, NEW t \in Callers, at[t] = "got", NEW s \in Pages, s \in hand[t],
         NEW e, arena' = [arena EXCEPT ![s] = e], e.desc # NULL,
         e.desc = Big => e.freeCnt # 0 /\ s + e.freeCnt <= NumPages,
         ArenaSpan(s)' = hand[t], \A u \in Callers : Freeing(u)' = Freeing(u)
  PROVE  /\ SpansApart'
         /\ InHeap(s)' /\ ~InHeap(s)
         /\ \A x \in Pages : x # s => InHeap(x)' = InHeap(x) /\ arena'[x] = arena[x] /\
              ArenaSpan(x)' = ArenaSpan(x)
                                      /\ Headers(x)' = Headers(x)
         /\ \A b \in Units : IsBlock(b) => IsBlock(b)' /\ BlockSize(b)' = BlockSize(b)
                                           /\ PageOf(b) # s /\ arena'[PageOf(b)] = arena[PageOf(b)]
         /\ HeapPages' = HeapPages \cup hand[t]
<1>1. HeapTypes /\ SpansApart
  BY DEF HeapOK
<1>2. /\ hand[t] \subseteq Pages
      /\ \A x \in Pages : ArenaSpan(x) \cap hand[t] = {}
      /\ \A u \in Callers : Freeing(u) \cap hand[t] = {}
      /\ \A q \in hand[t] : arena[q].desc = NULL
  BY HandsApart
<1>3. arena'[s] = e /\ \A x \in Pages : x # s => arena'[x] = arena[x]
  BY <1>1 DEF HeapTypes
<1>4. ASSUME NEW x \in Pages, x # s
      PROVE InHeap(x)' = InHeap(x) /\ ArenaSpan(x)' = ArenaSpan(x) /\ Headers(x)' = Headers(x)
  <2>1. SameShape(x) /\ arena'[x].desc = arena[x].desc
    BY <1>3, <1>4 DEF SameShape
  <2> QED BY <2>1, ShapeStays, InHeapStays
<1>5. InHeap(s)' /\ ~InHeap(s)
  BY <1>2, <1>3 DEF InHeap
<1>6. SpansApart'
  <2>1. ASSUME NEW x \in Pages, NEW y \in Pages, x # y PROVE ArenaSpan(x)' \cap ArenaSpan(y)' = {}
    <3>1. CASE x = s
      BY <3>1, <2>1, <1>2, <1>4
    <3>2. CASE y = s
      BY <3>2, <2>1, <1>2, <1>4
    <3>3. CASE x # s /\ y # s
      BY <3>3, <2>1, <1>1, <1>4 DEF SpansApart
    <3> QED BY <3>1, <3>2, <3>3
  <2>2. \A x \in Pages : arena'[x].desc = Big => arena'[x].freeCnt # 0 /\ x + arena'[x].freeCnt <= NumPages
    BY <1>1, <1>3 DEF SpansApart
  <2> QED BY <2>1, <2>2 DEF SpansApart
<1>7. ASSUME NEW b \in Units, IsBlock(b)
      PROVE IsBlock(b)' /\ BlockSize(b)' = BlockSize(b) /\ PageOf(b) # s /\
              arena'[PageOf(b)] = arena[PageOf(b)]
  <2>1. PageOf(b) \in Pages /\ PageOf(b) # s
    BY <1>5, <1>7, UnitPage DEF IsBlock
  <2>2. SameShape(PageOf(b)) /\ InHeap(PageOf(b))' = InHeap(PageOf(b))
    BY <2>1, <1>3, <1>4 DEF SameShape
  <2> QED BY <2>1, <2>2, <1>3, <1>7, BlockStays
<1>8. HeapPages' = HeapPages \cup hand[t]
  <2>1. \A q : (\E u \in Callers : q \in Freeing(u)') <=> \E u \in Callers : q \in Freeing(u)
    OBVIOUS
  <2>2. \A x \in Pages : x # s => ArenaPages(x)' = ArenaPages(x)
    BY <1>4, <2>1 DEF ArenaPages
  <2>3. ArenaPages(s)' = hand[t]
    BY <1>2, <2>1 DEF ArenaPages
  <2>4. ArenaPages(s) = {}
    <3>1. arena[s].desc = NULL
      BY <1>2
    <3> QED BY <3>1 DEF ArenaPages, ArenaSpan
  <2> QED BY <2>2, <2>3, <2>4 DEF HeapPages
<1> QED BY <1>3, <1>4, <1>5, <1>6, <1>7, <1>8

(* A block keeps its contents when the pages of its arena do.              *)
LEMMA KeepsStays ==
  ASSUME HeapTypes, SpansApart, NEW h \in Owned, IsBlock(h.block), h.size <= BlockSize(h.block), Keeps(h),
         \A u \in Units : PageOf(u) \in ArenaSpan(PageOf(h.block)) => mem'[u] = mem[u]
  PROVE  Keeps(h)'
<1>1. h.block \in Units /\ h.size \in Sizes /\ h # NoBlock
  BY NoBlockFacts DEF Owned
<1>2. ASSUME NEW u \in Span(h.block, h.size) PROVE mem'[u] = "data"
  <2>0. BlockSize(h.block) \in Nat
    BY <1>1, BlockFacts
  <2>1. h.block \in Nat /\ h.size \in Nat
    <3>1. \A n \in Sizes : n \in Nat
      BY Sizing
    <3>2. \A n \in Units : n \in Nat
      BY Sizing DEF Units
    <3> QED BY <1>1, <3>1, <3>2
  <2>2. u \in Span(h.block, BlockSize(h.block))
    BY <1>2, <2>0, <2>1 DEF Span
  <2>3. u \in Units /\ PageOf(u) \in ArenaSpan(PageOf(h.block))
    BY <2>2, <1>1, BlockFacts
  <2> QED BY <2>3, <1>1, <1>2 DEF Keeps
<1> QED BY <1>2 DEF Keeps

-----------------------------------------------------------------------------
(* The part that arenas and big blocks have in common.                     *)
Growth(t, s, e, place) ==
  /\ at[t] = "got" /\ s \in hand[t] /\ UNCHANGED <<tableVars, load>>
  /\ arena' = [arena EXCEPT ![s] = e] /\ e.desc # NULL /\
       (e.desc = Big => e.freeCnt # 0 /\ s + e.freeCnt <= NumPages)
  /\ ArenaSpan(s)' = hand[t]
  /\ at' = [at EXCEPT ![t] = place] /\ hand' = [hand EXCEPT ![t] = {}]
  /\ used' = used /\ poolLock' = poolLock /\ held' = held /\ descLock' = descLock
  /\ \A u \in Callers : u # t => job'[u] = job[u]
  /\ job'[t].op = job[t].op /\ job'[t].size = job[t].size /\ job'[t].old = job[t].old
  /\ \A u \in Units : PageOf(u) \notin hand[t] => mem'[u] = mem[u]
  /\ \A u \in Span(s * PageSize, HeaderSize) : mem'[u] = "arena"
  /\ \A d \in Descs : descLock[d] # t => freeList'[d] = freeList[d]

(* An arena was added at page s for the call of t.                         *)
ArenaAdded(t, s, place) ==
  /\ MemInv' /\ SpansApart' /\ InHeap(s)' /\ ~InHeap(s)
  /\ \A x \in Pages : x # s => InHeap(x)' = InHeap(x) /\ arena'[x] = arena[x]
  /\ \A b \in Units : IsBlock(b) => IsBlock(b)' /\ BlockSize(b)' = BlockSize(b)
                                    /\ PageOf(b) # s /\ arena'[PageOf(b)] = arena[PageOf(b)]
  /\ \A h \in held : IsBlock(h.block)' /\ h.size <= BlockSize(h.block)'
  /\ \A u \in Callers : \A b \in Units :
       /\ u # t /\ NewOf(u)' = b => IsBlock(b)' /\ job'[u].size <= BlockSize(b)'
       /\ OldOf(u)' = b => IsBlock(b)' /\ job'[u].old.size <= BlockSize(b)'
  /\ HeldKept' /\ OldKept' /\ HeadersKept'
  /\ \A u \in Callers : u # t => CallInv(u)' /\ LocksInv(u)' /\ HandsInv(u)'
  /\ HandsInv(t)'
  /\ \A u \in Callers : OldOf(u)' = OldOf(u) /\ (u # t => NewOf(u)' = NewOf(u))
  /\ NewOf(t) = NULL /\ at'[t] = place
  /\ \A u \in Callers : u # t => at'[u] = at[u]

(* What adding an arena does, for small and for big blocks.                *)
LEMMA GrowthKeeps ==
  ASSUME MemInv, HeapOK, NEW t \in Callers, HeapTypes', NEW s \in Pages, NEW e,
           NEW place \in {"pop", "return"},
         Growth(t, s, e, place)
  PROVE  ArenaAdded(t, s, place)
<1>0. /\ at[t] = "got" /\ s \in hand[t] /\ UNCHANGED <<tableVars, load>>
      /\ arena' = [arena EXCEPT ![s] = e] /\ e.desc # NULL /\
           (e.desc = Big => e.freeCnt # 0 /\ s + e.freeCnt <= NumPages)
      /\ ArenaSpan(s)' = hand[t]
      /\ at' = [at EXCEPT ![t] = place] /\ hand' = [hand EXCEPT ![t] = {}]
      /\ used' = used /\ poolLock' = poolLock /\ held' = held /\ descLock' = descLock
      /\ \A u \in Callers : u # t => job'[u] = job[u]
      /\ job'[t].op = job[t].op /\ job'[t].size = job[t].size /\ job'[t].old = job[t].old
      /\ \A u \in Units : PageOf(u) \notin hand[t] => mem'[u] = mem[u]
      /\ \A u \in Span(s * PageSize, HeaderSize) : mem'[u] = "arena"
      /\ \A d \in Descs : descLock[d] # t => freeList'[d] = freeList[d]
  BY DEF Growth
<1> USE <1>0
<1>1. /\ t \in Actors /\ PoolTypes /\ LockInv /\ OwnInv /\ HeapTypes /\ SpansApart /\ ListsInv /\ OwnersInv
      /\ CallsInv /\ Kept
  BY ActorFacts DEF MemInv, HeapOK
<1>2. at'[t] = place /\ hand'[t] = {} /\ \A u \in Callers : u # t => at'[u] = at[u] /\ hand'[u] = hand[u]
  BY <1>1, ActorFacts DEF PoolTypes
<1>3. \A u \in Callers : Freeing(u)' = Freeing(u)
  BY <1>2 DEF Freeing
<1>4. /\ SpansApart' /\ InHeap(s)' /\ ~InHeap(s)
      /\ \A x \in Pages : x # s => InHeap(x)' = InHeap(x) /\ arena'[x] = arena[x] /\
           ArenaSpan(x)' = ArenaSpan(x)
                                   /\ Headers(x)' = Headers(x)
      /\ \A b \in Units : IsBlock(b) => IsBlock(b)' /\ BlockSize(b)' = BlockSize(b)
                                        /\ PageOf(b) # s /\ arena'[PageOf(b)] = arena[PageOf(b)]
      /\ HeapPages' = HeapPages \cup hand[t]
  <2>1. /\ MemInv /\ HeapOK /\ t \in Callers /\ at[t] = "got" /\ s \in Pages /\ s \in hand[t]
        /\ arena' = [arena EXCEPT ![s] = e] /\ e.desc # NULL /\ ArenaSpan(s)' = hand[t]
        /\ (e.desc = Big => e.freeCnt # 0 /\ s + e.freeCnt <= NumPages)
    OBVIOUS
  <2> QED BY ONLY <2>1, <1>3, GrownHeap
<1>5. /\ hand[t] \subseteq Pages
      /\ \A x \in Pages : ArenaSpan(x) \cap hand[t] = {}
      /\ \A u \in Callers : u # t => InHand(u) \cap hand[t] = {}
      /\ \A q \in hand[t] : arena[q].desc = NULL
  BY HandsApart
<1>6. MemInv'
  <2>1. PoolTypes'
    BY <1>1 DEF PoolTypes, Places, PoolPlaces
  <2>2. OnlyCaller(t)
    BY <1>1 DEF OnlyCaller, PoolTypes
  <2>3. InHand(t) = hand[t] /\ InHand(t)' = {}
    BY <1>2 DEF InHand
  <2>4. HeapPages' \cap InHand(t)' = {} /\ HeapPages' \cup InHand(t)' = HeapPages \cup InHand(t)
    BY <2>3, <1>4
  <2>5. at'[t] # "flip" /\ at'[t] \notin {"fill", "clear"}
    BY <1>2
  <2> QED BY <1>1, <2>1, <2>2, <2>4, <2>5, QuietCall
<1>7. \A u \in Callers : OldOf(u)' = OldOf(u) /\ (u # t => NewOf(u)' = NewOf(u)) /\ job'[u].old = job[u].old
                         /\ job'[u].size = job[u].size /\ job'[u].op = job[u].op
  BY <1>2 DEF OldOf, NewOf
<1>8. NewOf(t) = NULL
  BY CallFacts
<1>9. ASSUME NEW h \in held PROVE IsBlock(h.block)' /\ h.size <= BlockSize(h.block)'
  <2>1. h.block \in Units /\ IsBlock(h.block) /\ h.size <= BlockSize(h.block)
    BY <1>1 DEF HeapTypes, Owned, OwnersInv
  <2> QED BY <2>1, <1>4
<1>10. ASSUME NEW u \in Callers, NEW b \in Units
       PROVE  /\ u # t /\ NewOf(u)' = b => IsBlock(b)' /\ job'[u].size <= BlockSize(b)'
              /\ OldOf(u)' = b => IsBlock(b)' /\ job'[u].old.size <= BlockSize(b)'
  <2>1. NewOf(u) = b => IsBlock(b) /\ job[u].size <= BlockSize(b)
    BY <1>1, NoBlockFacts DEF OwnersInv
  <2>2. OldOf(u) = b => IsBlock(b) /\ job[u].old.size <= BlockSize(b)
    BY <1>1, NoBlockFacts DEF OwnersInv
  <2> QED BY <2>1, <2>2, <1>4, <1>7
<1>11. ASSUME NEW h \in Owned, IsBlock(h.block), h.size <= BlockSize(h.block), Keeps(h) PROVE Keeps(h)'
  <2>1. h.block \in Units
    BY DEF Owned
  <2>2. PageOf(h.block) \in Pages
    BY <2>1, UnitPage
  <2>3. \A u \in Units : PageOf(u) \in ArenaSpan(PageOf(h.block)) => mem'[u] = mem[u]
    BY <2>2, <1>5
  <2> QED BY <2>3, <1>1, <1>11, KeepsStays
<1>12. HeldKept'
  <2> SUFFICES ASSUME NEW h \in held PROVE Keeps(h)'
    BY DEF HeldKept
  <2>1. h \in Owned /\ IsBlock(h.block) /\ h.size <= BlockSize(h.block) /\ Keeps(h)
    BY <1>1 DEF HeapTypes, OwnersInv, Kept, HeldKept
  <2> QED BY <2>1, <1>11
<1>13. OldKept'
  <2> SUFFICES ASSUME NEW u \in Callers, job'[u].op = "realloc" PROVE Keeps(job[u].old)'
    BY <1>7 DEF OldKept
  <2>1. job[u].op = "realloc"
    BY <1>7
  <2>2. PICK h : h = job[u].old
    OBVIOUS
  <2>3. Keeps(h)
    BY <1>1, <2>1, <2>2 DEF Kept, OldKept
  <2>4. CallInv(u)
    BY <1>1 DEF CallsInv
  <2>5. at[u] \in Asking /\ h \in Owned
    BY <2>1, <2>2, <2>4 DEF CallInv, NoJob, Giving
  <2>6. OldOf(u) = h.block /\ h.block # NULL
    BY <2>2, <2>5, NoBlockFacts DEF OldOf, Asking, Owned
  <2>7. IsBlock(h.block) /\ h.size <= BlockSize(h.block)
    BY <1>1, <2>2, <2>6 DEF OwnersInv
  <2>8. Keeps(h)'
    BY <2>3, <2>5, <2>7, <1>11
  <2> QED BY <2>2, <2>8 DEF Keeps
<1>14. HeadersKept'
  <2> SUFFICES ASSUME NEW x \in Pages, NEW u \in Headers(x)' PROVE mem'[u] = "arena"
    BY DEF HeadersKept
  <2>1. CASE x = s
    <3>1. u \in Span(s * PageSize, HeaderSize)
      BY <2>1 DEF Headers
    <3> QED BY <3>1
  <2>2. CASE x # s
    <3>1. u \in Headers(x)
      BY <2>2, <1>4
    <3>2. PageOf(u) = x /\ u \in Units /\ arena[x].desc # NULL
      BY <3>1, HeaderUnits
    <3>3. x \notin hand[t]
      BY <3>2, <1>5
    <3> QED BY <3>1, <3>2, <3>3, <1>1 DEF Kept, HeadersKept
  <2> QED BY <2>1, <2>2
<1>15. ASSUME NEW u \in Callers, u # t PROVE CallInv(u)' /\ LocksInv(u)' /\ HandsInv(u)'
  <2>1. CallInv(u) /\ LocksInv(u) /\ HandsInv(u)
    BY <1>1 DEF CallsInv
  <2>2. at'[u] = at[u] /\ job'[u] = job[u] /\ hand'[u] = hand[u]
    BY <1>2, <1>15
  <2>3. \A d \in Descs : descLock[d] = u => descLock'[d] = u /\ freeList'[d] = freeList[d]
    BY <1>15
  <2>4. LocksInv(u)'
    BY <1>1, <2>1, <2>2, <2>3, LocksStay
  <2>5. CallInv(u)'
    <3>1. at[u] = "put" => arena'[PageOf(job[u].old.block)].desc # Big
      <4> SUFFICES ASSUME at[u] = "put" PROVE arena'[PageOf(job[u].old.block)].desc # Big
        OBVIOUS
      <4>1. PICK b : b = job[u].old.block
        OBVIOUS
      <4>2. b \in Units /\ arena[PageOf(b)].desc # Big
        BY <2>1, <4>1 DEF CallInv, Giving, Owned
      <4>3. OldOf(u) = b
        BY <4>1 DEF OldOf
      <4>4. IsBlock(b)
        BY <4>2, <4>3, <1>1, NoBlockFacts DEF OwnersInv
      <4> QED BY <4>1, <4>2, <4>4, <1>4
    <3> QED BY <3>1, <1>1, <2>1, <2>2, CallStays
  <2>6. HandsInv(u)'
    <3>1. at[u] = "fill" => \A x \in Pages : ArenaSpan(x) = hand[u] =>
                              ArenaSpan(x)' = ArenaSpan(x) /\ arena'[x].desc = arena[x].desc
      <4> SUFFICES ASSUME at[u] = "fill", NEW x \in Pages, ArenaSpan(x) = hand[u]
                   PROVE ArenaSpan(x)' = ArenaSpan(x) /\ arena'[x].desc = arena[x].desc
        OBVIOUS
      <4>1. hand[u] # {}
        BY <1>1, ActorFacts DEF LockInv
      <4>2. arena[x].desc # NULL
        BY <4>1, <1>1, ArenaFacts
      <4>3. x # s
        BY <4>2, <1>5
      <4> QED BY <4>3, <1>4
    <3>2. at[u] = "clear" => \A x \in Pages : ArenaSpan(x)' \cap hand[u] = {}
      <4> SUFFICES ASSUME at[u] = "clear", NEW x \in Pages PROVE ArenaSpan(x)' \cap hand[u] = {}
        OBVIOUS
      <4>1. CASE x = s
        BY <4>1, <1>5, <1>15 DEF InHand
      <4>2. CASE x # s
        BY <4>2, <1>4, <2>1 DEF HandsInv
      <4> QED BY <4>1, <4>2
    <3> QED BY <3>1, <3>2, <1>1, <2>1, <2>2, <2>3, HandsStay
  <2> QED BY <2>4, <2>5, <2>6
<1>16. HandsInv(t)'
  BY <1>2 DEF HandsInv
<1> QED BY <1>2, <1>4, <1>6, <1>7, <1>8, <1>9, <1>10, <1>12, <1>13, <1>14, <1>15, <1>16 DEF ArenaAdded

-----------------------------------------------------------------------------
(* The first element of a sequence is one of its elements.                 *)
LEMMA HeadElem ==
  ASSUME NEW S, NEW q \in Seq(S), q # <<>>
  PROVE  Head(q) \in Elems(q)
<1>1. Len(q) \in Nat /\ Len(q) # 0 /\ DOMAIN q = 1..Len(q) /\ Head(q) = q[1]
  BY LenProperties, EmptySeq, HeadTailProperties
<1> QED BY <1>1 DEF Elems

(* Making an arena of small blocks keeps the invariant.                    *)
LEMMA NewArenaKeeps ==
  ASSUME MemInv, HeapOK, NEW t \in Callers, UNCHANGED <<tableVars, load>>, GotPages(t), hand[t] # {},
         DescFor(job[t].size) # Big
  PROVE  MemInv' /\ HeapOK'
<1>1. /\ t \in Actors /\ PoolTypes /\ HeapTypes /\ SpansApart /\ ListsInv /\ OwnersInv /\ SoleOwner
      /\ CountsInv /\ CallsInv /\ Kept
  BY ActorFacts DEF MemInv, HeapOK
<1>2. PICK d : d = DescFor(job[t].size)
  OBVIOUS
<1>3. d \in Descs /\ d # Big /\ d # NULL /\ d \in Nat \ {0}
  BY <1>1, <1>2, JobTypes, DescForIs, Sizing
<1>4. at[t] = "got" /\ CallInv(t) /\ LocksInv(t)
  BY CallFacts DEF GotPages
<1>5. PICK s \in Pages : hand[t] = Span(s, Asked(t)) /\ Min(hand[t]) = s /\ s \in hand[t]
  BY <1>4, HandsApart
<1>6. hand[t] = {s}
  <2>1. Asked(t) = 1 /\ s \in Nat
    BY <1>2, <1>3, Sizing DEF Asked
  <2> QED BY <2>1, <1>5 DEF Span
<1>7. PICK n, q : n = BlocksPerArena(d) /\ q = Blocks(s, d)
  OBVIOUS
<1>8. PICK e : e = [desc |-> d, freeCnt |-> n]
  OBVIOUS
<1>9. e.desc = d /\ e.freeCnt = n
  BY <1>8
<1>10. /\ arena' = [arena EXCEPT ![s] = e] /\ freeList' = [freeList EXCEPT ![d] = @ \o q]
       /\ mem' = [u \in Units |-> IF u \in Span(s * PageSize, HeaderSize) THEN "arena"
                                  ELSE IF u \in Elems(q) THEN "link" ELSE mem[u]]
       /\ at' = [at EXCEPT ![t] = "pop"] /\ hand' = [hand EXCEPT ![t] = {}]
       /\ descLock' = descLock /\ job' = job /\ used' = used /\ poolLock' = poolLock /\ held' = held
  BY <1>2, <1>3, <1>5, <1>7, <1>8 DEF GotPages, NewArena, Goto
<1>11. descLock[d] = t /\ freeList[d] = <<>>
  BY <1>2, <1>3, <1>4 DEF LocksInv
<1>12. /\ q \in Seq(Units) /\ q # <<>> /\ NoDuplicates(q)
       /\ \A b : b \in Elems(q) <=> \E i \in 0..(n - 1) : b = BlockAt(s, d, i)
       /\ \A b \in Elems(q) : b \in Units /\ PageOf(b) = s /\ b \notin Span(s * PageSize, HeaderSize)
       /\ IsFiniteSet(Elems(q)) /\ Cardinality(Elems(q)) = n
  BY <1>3, <1>7, BlocksSeq
<1>13. freeList'[d] = q /\ \A x \in Descs : x # d => freeList'[x] = freeList[x]
  <2>1. <<>> \o q = q
    BY <1>12
  <2> QED BY <2>1, <1>1, <1>3, <1>10, <1>11 DEF HeapTypes
<1>14. arena'[s] = e /\ \A x \in Pages : x # s => arena'[x] = arena[x]
  BY <1>1, <1>10 DEF HeapTypes
<1>15. HeapTypes'
  <2>1. n \in Nat /\ n <= NumPages * PageSize
    <3>1. n \in Nat \ {0} /\ n <= PageSize
      BY <1>3, <1>7, PerArena
    <3>2. NumPages \in Nat \ {0} /\ PageSize \in Nat
      BY Sizing
    <3>3. 1 * PageSize <= NumPages * PageSize
      BY <3>2, TimesMono
    <3>4. PICK m : m = NumPages * PageSize
      OBVIOUS
    <3>5. PageSize <= m /\ m \in Nat
      BY <3>2, <3>3, <3>4
    <3> QED BY <3>1, <3>2, <3>4, <3>5
  <2>2. e \in Arenas
    <3>1. n \in 0..(NumPages * PageSize)
      <4>1. NumPages * PageSize \in Int
        BY Sizing
      <4> QED BY <2>1, <4>1
    <3> QED BY <3>1, <1>3, <1>8 DEF Arenas
  <2>3. arena' \in [Pages -> Arenas]
    BY <2>2, <1>1, <1>10 DEF HeapTypes
  <2>4. freeList' \in [Descs -> Seq(Units)]
    <3>1. freeList[d] \o q \in Seq(Units)
      BY <1>1, <1>3, <1>12 DEF HeapTypes
    <3> QED BY <3>1, <1>1, <1>10 DEF HeapTypes
  <2>5. mem' \in [Units -> Contents]
    BY <1>1, <1>10 DEF HeapTypes, Contents
  <2> QED BY <2>3, <2>4, <2>5, <1>1, <1>10 DEF HeapTypes
<1>16. ArenaSpan(s)' = hand[t]
  BY <1>3, <1>6, <1>9, <1>14 DEF ArenaSpan
<1>17. \A u \in Units : PageOf(u) # s => mem'[u] = mem[u]
  <2> SUFFICES ASSUME NEW u \in Units, PageOf(u) # s PROVE mem'[u] = mem[u]
    OBVIOUS
  <2>1. u \notin Elems(q)
    BY <1>12
  <2>2. u \notin Span(s * PageSize, HeaderSize)
    <3> SUFFICES ASSUME u \in Span(s * PageSize, HeaderSize) PROVE FALSE
      OBVIOUS
    <3>1. PICK base : base = s * PageSize
      OBVIOUS
    <3>2. base \in Nat /\ HeaderSize \in Nat /\ PageSize \in Nat /\ HeaderSize < PageSize
      BY <3>1, Sizing
    <3>3. u \in base..(base + HeaderSize - 1)
      BY <3>1 DEF Span
    <3>4. PICK k : k = u - base
      OBVIOUS
    <3>5. k \in 0..(PageSize - 1) /\ u = base + k
      BY <3>2, <3>3, <3>4
    <3> QED BY <3>1, <3>5, PageOfUnit
  <2> QED BY <2>1, <2>2, <1>10
<1>18. \A u \in Span(s * PageSize, HeaderSize) : mem'[u] = "arena"
  <2> SUFFICES ASSUME NEW u \in Span(s * PageSize, HeaderSize) PROVE u \in Units
    BY <1>10
  <2>1. u \in Headers(s)'
    BY <1>3, <1>9, <1>14 DEF Headers
  <2>2. PICK base : base = s * PageSize
    OBVIOUS
  <2>3. base \in Nat /\ HeaderSize \in Nat /\ PageSize \in Nat /\ HeaderSize < PageSize
    BY <2>2, Sizing
  <2>4. u \in base..(base + HeaderSize - 1)
    BY <2>2 DEF Span
  <2>5. PICK k : k = u - base
    OBVIOUS
  <2>6. k \in 0..(PageSize - 1) /\ u = base + k
    BY <2>3, <2>4, <2>5
  <2> QED BY <2>2, <2>6, PageOfUnit
<1>19. ArenaAdded(t, s, "pop")
  <2>1. \A u \in Units : PageOf(u) \notin hand[t] => mem'[u] = mem[u]
    BY <1>6, <1>17
  <2>2. \A x \in Descs : descLock[x] # t => freeList'[x] = freeList[x]
    BY <1>11, <1>13
  <2>3. Growth(t, s, e, "pop")
    BY <1>3, <1>4, <1>6, <1>9, <1>10, <1>15, <1>16, <1>18, <2>1, <2>2 DEF Growth
  <2> QED BY <1>15, <2>3, GrowthKeeps
<1>191. /\ MemInv' /\ SpansApart' /\ InHeap(s)' /\ ~InHeap(s)
        /\ \A x \in Pages : x # s => InHeap(x)' = InHeap(x) /\ arena'[x] = arena[x]
        /\ \A b \in Units : IsBlock(b) => IsBlock(b)' /\ BlockSize(b)' = BlockSize(b)
                                          /\ PageOf(b) # s /\ arena'[PageOf(b)] = arena[PageOf(b)]
        /\ HeldKept' /\ OldKept' /\ HeadersKept'
        /\ \A u \in Callers : u # t => CallInv(u)' /\ LocksInv(u)' /\ HandsInv(u)'
        /\ HandsInv(t)'
        /\ \A u \in Callers : OldOf(u)' = OldOf(u) /\ (u # t => NewOf(u)' = NewOf(u))
        /\ NewOf(t) = NULL /\ at'[t] = "pop"
        /\ \A u \in Callers : u # t => at'[u] = at[u]
  BY <1>19 DEF ArenaAdded
<1>20. NewOf(t)' = NULL
  BY <1>10, <1>191 DEF NewOf
<1>21. OwnersInv'
  <2>1. \A h \in held' : IsBlock(h.block)' /\ h.size <= BlockSize(h.block)'
    BY <1>10, <1>19 DEF ArenaAdded
  <2>2. \A u \in Callers : \A b \in Units :
          /\ NewOf(u)' = b => IsBlock(b)' /\ job'[u].size <= BlockSize(b)'
          /\ OldOf(u)' = b => IsBlock(b)' /\ job'[u].old.size <= BlockSize(b)'
    BY <1>19, <1>20, NoBlockFacts DEF ArenaAdded
  <2> QED BY <1>15, <2>1, <2>2, OwnersAreNext
<1>22. \A x \in Descs : \A b \in Elems(freeList'[x]) :
         b \in Units /\ IsBlock(b)' /\ arena'[PageOf(b)].desc = x /\ (PageOf(b) = s <=> x = d)
  <2> SUFFICES ASSUME NEW x \in Descs, NEW b \in Elems(freeList'[x])
               PROVE b \in Units /\ IsBlock(b)' /\ arena'[PageOf(b)].desc = x /\ (PageOf(b) = s <=> x = d)
    OBVIOUS
  <2>1. CASE x = d
    <3>1. b \in Elems(q)
      BY <2>1, <1>13
    <3>2. PageOf(b) = s /\ b \in Units /\ \E i \in 0..(n - 1) : b = BlockAt(s, d, i)
      BY <3>1, <1>12
    <3>3. arena'[PageOf(b)].desc = d
      BY <3>2, <1>9, <1>14
    <3>4. IsBlock(b)'
      BY <3>2, <3>3, <1>3, <1>7, <1>191 DEF IsBlock
    <3> QED BY <2>1, <3>2, <3>3, <3>4
  <2>2. CASE x # d
    <3>1. b \in Elems(freeList[x])
      BY <2>2, <1>13
    <3>2. b \in Units /\ IsBlock(b) /\ arena[PageOf(b)].desc = x
      BY <3>1, <1>1 DEF ListsInv, HeapTypes, Elems
    <3> QED BY <2>2, <3>2, <1>191
  <2> QED BY <2>1, <2>2
<1>23. ListsInv'
  <2>1. \A x \in Descs : NoDuplicates(freeList'[x])
    BY <1>1, <1>12, <1>13 DEF ListsInv
  <2> QED BY <2>1, <1>22 DEF ListsInv
<1>24. \A b : NotListed(b) /\ b \notin Elems(q) => NotListed(b)'
  BY <1>13 DEF NotListed
<1>25. \A b \in Units : IsBlock(b) /\ NotListed(b) => NotListed(b)'
  BY <1>12, <1>24, <1>191
<1>26. SoleOwner'
  <2>1. \A u \in Callers : NewOf(u)' = NewOf(u) /\ OldOf(u)' = OldOf(u)
    BY <1>20, <1>191
  <2>2. ASSUME NEW h \in held PROVE NotListed(h.block)'
    <3>1. h.block \in Units /\ IsBlock(h.block) /\ NotListed(h.block)
      BY <1>1 DEF HeapTypes, Owned, OwnersInv, SoleOwner
    <3> QED BY <3>1, <1>25
  <2>3. ASSUME NEW u \in Callers, NEW b, b = NewOf(u) \/ b = OldOf(u), b # NULL PROVE NotListed(b)'
    <3>1. b \in Units
      BY <2>3, <1>1, JobTypes DEF NewOf
    <3>2. IsBlock(b) /\ NotListed(b)
      BY <2>3, <1>1 DEF OwnersInv, SoleOwner
    <3> QED BY <3>1, <3>2, <1>25
  <2>4. \A u \in Callers : /\ NewOf(u)' # NULL => NotListed(NewOf(u))'
                           /\ OldOf(u)' # NULL => NotListed(OldOf(u))'
    <3> SUFFICES ASSUME NEW u \in Callers
                 PROVE /\ NewOf(u)' # NULL => NotListed(NewOf(u))'
                       /\ OldOf(u)' # NULL => NotListed(OldOf(u))'
      OBVIOUS
    <3>1. PICK a, b : a = NewOf(u) /\ b = OldOf(u)
      OBVIOUS
    <3>2. NewOf(u)' = a /\ OldOf(u)' = b
      BY <2>1, <3>1
    <3>3. (a # NULL => NotListed(a)') /\ (b # NULL => NotListed(b)')
      BY <2>3, <3>1
    <3> QED BY <3>2, <3>3 DEF NotListed
  <2> QED BY <2>1, <2>2, <2>4, <1>1, <1>10 DEF SoleOwner
<1>27. CountsInv'
  <2> SUFFICES ASSUME NEW x \in Pages, InHeap(x)', arena'[x].desc \in Descs
               PROVE  /\ arena'[x].freeCnt = Cardinality(HoldsAt(arena[x].desc, x)')
                      /\ arena'[x].freeCnt = BlocksPerArena(arena'[x].desc) =>
                           \E u \in Callers : /\ at'[u] = "pop" /\ DescFor(job'[u].size) = arena'[x].desc
                                              /\ x = PageOf(Head(freeList'[arena'[x].desc]))
    BY DEF CountsInv, HoldsAt
  <2>1. PICK c : c = arena'[x].desc
    OBVIOUS
  <2>2. PICK k : k = arena'[x].freeCnt
    OBVIOUS
  <2>3. HoldsAt(arena[x].desc, x)' = {b \in Elems(freeList'[c]) : PageOf(b) = x}
    BY <2>1 DEF HoldsAt
  <2>4. k = Cardinality({b \in Elems(freeList'[c]) : PageOf(b) = x})
        /\ (k = BlocksPerArena(c) => \E u \in Callers : at'[u] = "pop" /\
             DescFor(job'[u].size) = c /\ x = PageOf(Head(freeList'[c])))
    <3>1. CASE x = s
      <4>1. c = d /\ k = n
        BY <3>1, <2>1, <2>2, <1>9, <1>14
      <4>2. {b \in Elems(freeList'[c]) : PageOf(b) = x} = Elems(q)
        BY <3>1, <4>1, <1>12, <1>13
      <4>3. x = PageOf(Head(q))
        <5>1. Head(q) \in Elems(q)
          BY <1>12, HeadElem
        <5> QED BY <5>1, <3>1, <1>12
      <4>4. at'[t] = "pop" /\ DescFor(job'[t].size) = c
        BY <4>1, <1>2, <1>10, <1>191
      <4> QED BY <4>1, <4>2, <4>3, <4>4, <1>12, <1>13
    <3>2. CASE x # s
      <4>1. InHeap(x) /\ arena[x].desc = c /\ arena[x].freeCnt = k /\ c \in Descs
        BY <3>2, <2>1, <2>2, <1>191
      <4>2. k = Cardinality(HoldsAt(c, x))
            /\ (k = BlocksPerArena(c) => \E u \in Callers : at[u] = "pop" /\
                 DescFor(job[u].size) = c /\ x = PageOf(Head(freeList[c])))
        BY <4>1, <1>1 DEF CountsInv
      <4>3. CASE c = d
        <5>1. HoldsAt(c, x) = {}
          BY <4>3, <1>11 DEF HoldsAt, Elems
        <5>2. {b \in Elems(freeList'[c]) : PageOf(b) = x} = {}
          BY <4>3, <3>2, <1>12, <1>13
        <5>3. k = 0
          BY <4>2, <5>1, FS_EmptySet
        <5>4. BlocksPerArena(c) # 0
          BY <4>1, PerArena
        <5> QED BY <4>2, <5>1, <5>2, <5>3, <5>4
      <4>4. CASE c # d
        <5>1. freeList'[c] = freeList[c] /\ job' = job
          BY <4>1, <4>4, <1>10, <1>13
        <5>2. \A u \in Callers : at[u] = "pop" => at'[u] = "pop"
          BY <1>4, <1>191
        <5> QED BY <4>2, <5>1, <5>2 DEF HoldsAt
      <4> QED BY <4>3, <4>4
    <3> QED BY <3>1, <3>2
  <2> QED BY <2>1, <2>2, <2>3, <2>4
<1>28. Kept'
  <2>1. LinksKept'
    <3> SUFFICES ASSUME NEW x \in Descs, NEW b \in Elems(freeList'[x]) PROVE mem'[b] = "link"
      BY DEF LinksKept
    <3>1. b \in Units /\ (PageOf(b) = s <=> x = d)
      BY <1>22
    <3>2. CASE x = d
      BY <3>2, <1>10, <1>12, <1>13
    <3>3. CASE x # d
      BY <3>1, <3>3, <1>1, <1>13, <1>17 DEF Kept, LinksKept
    <3> QED BY <3>2, <3>3
  <2> QED BY <2>1, <1>191 DEF Kept
<1>29. CallInv(t)' /\ LocksInv(t)'
  <2>1. CallInv(t)'
    BY <1>4, <1>10, <1>191 DEF CallInv, Asking, Giving
  <2>2. LocksInv(t)'
    <3>1. DescFor(job[t].size)' = d
      BY <1>2, <1>10
    <3> QED BY <3>1, <1>3, <1>10, <1>11, <1>12, <1>13, <1>191 DEF LocksInv
  <2> QED BY <2>1, <2>2
<1>30. CallsInv'
  BY <1>29, <1>191 DEF CallsInv
<1> QED BY <1>15, <1>191, <1>21, <1>23, <1>26, <1>27, <1>28, <1>30 DEF HeapOK

-----------------------------------------------------------------------------
(* Making a big block keeps the invariant.                                 *)
LEMMA NewBigKeeps ==
  ASSUME MemInv, HeapOK, NEW t \in Callers, UNCHANGED <<tableVars, load>>, GotPages(t), hand[t] # {},
         DescFor(job[t].size) = Big
  PROVE  MemInv' /\ HeapOK'
<1>1. /\ t \in Actors /\ PoolTypes /\ HeapTypes /\ SpansApart /\ ListsInv /\ OwnersInv /\ SoleOwner
      /\ CountsInv /\ CallsInv /\ Kept
  BY ActorFacts DEF MemInv, HeapOK
<1>2. at[t] = "got" /\ CallInv(t)
  BY CallFacts DEF GotPages
<1>3. PICK s \in Pages : /\ hand[t] = Span(s, Asked(t)) /\ Min(hand[t]) = s /\ s \in hand[t]
                         /\ s + Asked(t) <= NumPages /\ Cardinality(hand[t]) = Asked(t)
  BY <1>2, HandsApart
<1>4. PICK n, b, size : n = Asked(t) /\ b = s * PageSize + HeaderSize /\ size = job[t].size
  OBVIOUS
<1>5. size \in Nat /\ n \in Nat \ {0} /\ size + HeaderSize <= PageSize * n
  BY <1>1, <1>4, JobTypes, PageCountIs DEF Asked
<1>6. PICK e : e = [desc |-> Big, freeCnt |-> n]
  OBVIOUS
<1>7. PICK j : j = [job[t] EXCEPT !.block = b]
  OBVIOUS
<1>8. e.desc = Big /\ e.freeCnt = n /\ Big # NULL
  BY <1>6 DEF Big, NULL
<1>9. /\ arena' = [arena EXCEPT ![s] = e] /\ freeList' = freeList
      /\ mem' = [u \in Units |-> IF u \in Span(s * PageSize, HeaderSize) THEN "arena" ELSE mem[u]]
      /\ at' = [at EXCEPT ![t] = "return"] /\ hand' = [hand EXCEPT ![t] = {}]
      /\ descLock' = descLock /\ job' = [job EXCEPT ![t] = j] /\ used' = used /\
           poolLock' = poolLock /\ held' = held
  BY <1>3, <1>4, <1>6, <1>7 DEF GotPages, NewBigBlock, Goto, Written
<1>10. HeaderSize \in 0..(PageSize - 1) /\ PageSize \in Nat \ {0} /\ NumPages \in Nat \ {0} /\ s \in Nat
  BY Sizing
<1>11. b \in Units /\ PageOf(b) = s /\ b % PageSize = HeaderSize
  BY <1>4, <1>10, PageOfUnit
<1>12. /\ job'[t] = j /\ j.op = job[t].op /\ j.size = size /\ j.old = job[t].old /\
            j.block = b /\ j \in Jobs
       /\ \A u \in Callers : u # t => job'[u] = job[u]
  BY <1>1, <1>4, <1>7, <1>9, <1>11 DEF HeapTypes, Jobs
<1>13. arena'[s] = e /\ \A x \in Pages : x # s => arena'[x] = arena[x]
  BY <1>1, <1>9 DEF HeapTypes
<1>14. HeapTypes'
  <2>1. n \in 0..(NumPages * PageSize)
    <3>1. n <= NumPages
      BY <1>3, <1>4, <1>5, <1>10
    <3>2. NumPages * 1 <= NumPages * PageSize /\ NumPages * PageSize \in Nat
      <4>1. 1 * NumPages <= PageSize * NumPages
        BY <1>10, TimesMono
      <4>2. PageSize * NumPages = NumPages * PageSize /\ NumPages * PageSize \in Nat
        BY <1>10
      <4> QED BY <4>1, <4>2, <1>10
    <3>3. PICK m : m = NumPages * PageSize
      OBVIOUS
    <3>4. n \in 0..m
      BY <3>1, <3>2, <3>3, <1>5, <1>10
    <3> QED BY <3>3, <3>4
  <2>2. e \in Arenas
    BY <2>1, <1>6 DEF Arenas
  <2>3. arena' \in [Pages -> Arenas]
    BY <2>2, <1>1, <1>9 DEF HeapTypes
  <2>4. mem' \in [Units -> Contents]
    BY <1>1, <1>9 DEF HeapTypes, Contents
  <2>5. job' \in [Callers -> Jobs]
    BY <1>1, <1>9, <1>12 DEF HeapTypes
  <2> QED BY <2>3, <2>4, <2>5, <1>1, <1>9 DEF HeapTypes
<1>15. ArenaSpan(s)' = hand[t]
  BY <1>3, <1>4, <1>8, <1>13 DEF ArenaSpan
<1>16. \A u \in Span(s * PageSize, HeaderSize) : u \in Units /\ PageOf(u) = s
  <2> SUFFICES ASSUME NEW u \in Span(s * PageSize, HeaderSize) PROVE u \in Units /\ PageOf(u) = s
    OBVIOUS
  <2>1. PICK base : base = s * PageSize
    OBVIOUS
  <2>2. base \in Nat /\ u \in base..(base + HeaderSize - 1)
    BY <2>1, <1>10 DEF Span
  <2>3. PICK k : k = u - base
    OBVIOUS
  <2>4. k \in 0..(PageSize - 1) /\ u = base + k
    BY <1>10, <2>2, <2>3
  <2> QED BY <2>1, <2>4, PageOfUnit
<1>17. \A u \in Units : PageOf(u) # s => mem'[u] = mem[u]
  BY <1>9, <1>16
<1>18. ArenaAdded(t, s, "return")
  <2>1. \A u \in Units : PageOf(u) \notin hand[t] => mem'[u] = mem[u]
    BY <1>3, <1>17
  <2>2. \A u \in Span(s * PageSize, HeaderSize) : mem'[u] = "arena"
    BY <1>9, <1>16
  <2>3. n # 0 /\ s + n <= NumPages
    BY <1>3, <1>4, <1>5
  <2>4. /\ job'[t].op = job[t].op /\ job'[t].size = job[t].size /\ job'[t].old = job[t].old
    BY <1>4, <1>12
  <2>5. Growth(t, s, e, "return")
    BY <1>2, <1>3, <1>8, <1>9, <1>12, <1>15, <2>1, <2>2, <2>3, <2>4 DEF Growth
  <2> QED BY <1>14, <2>5, GrowthKeeps
<1>19. /\ MemInv' /\ SpansApart' /\ InHeap(s)'
       /\ \A x \in Pages : x # s => InHeap(x)' = InHeap(x) /\ arena'[x] = arena[x]
       /\ \A c \in Units : IsBlock(c) => IsBlock(c)' /\ BlockSize(c)' = BlockSize(c)
                                         /\ PageOf(c) # s /\ arena'[PageOf(c)] = arena[PageOf(c)]
       /\ HeldKept' /\ OldKept' /\ HeadersKept'
       /\ \A u \in Callers : u # t => CallInv(u)' /\ LocksInv(u)' /\ HandsInv(u)'
       /\ HandsInv(t)'
       /\ \A u \in Callers : OldOf(u)' = OldOf(u) /\ (u # t => NewOf(u)' = NewOf(u))
       /\ NewOf(t) = NULL /\ at'[t] = "return"
       /\ \A u \in Callers : u # t => at'[u] = at[u]
  BY <1>18 DEF ArenaAdded
<1>20. NewOf(t)' = b /\ b # NULL
  BY <1>11, <1>12, NoBlockFacts DEF NewOf
<1>21. IsBlock(b)' /\ size <= BlockSize(b)'
  <2>1. IsBlock(b)'
    BY <1>4, <1>8, <1>11, <1>13, <1>19 DEF IsBlock
  <2>2. BlockSize(b)' = PageSize * n - HeaderSize
    BY <1>8, <1>11, <1>13 DEF BlockSize
  <2>3. PICK m : m = PageSize * n
    OBVIOUS
  <2>4. m \in Nat
    BY <1>5, <1>10, <2>3
  <2>5. size <= m - HeaderSize
    BY <1>5, <1>10, <2>3, <2>4
  <2> QED BY <2>1, <2>2, <2>3, <2>5
<1>22. OwnersInv'
  <2>1. \A h \in held' : IsBlock(h.block)' /\ h.size <= BlockSize(h.block)'
    BY <1>9, <1>18 DEF ArenaAdded
  <2>2. \A u \in Callers : \A c \in Units :
          /\ u # t /\ NewOf(u)' = c => IsBlock(c)' /\ job'[u].size <= BlockSize(c)'
          /\ OldOf(u)' = c => IsBlock(c)' /\ job'[u].old.size <= BlockSize(c)'
    BY <1>18 DEF ArenaAdded
  <2>3. \A c \in Units : NewOf(t)' = c => IsBlock(c)' /\ job'[t].size <= BlockSize(c)'
    <3> SUFFICES ASSUME NEW c \in Units, NewOf(t)' = c PROVE IsBlock(c)' /\ job'[t].size <= BlockSize(c)'
      OBVIOUS
    <3>1. c = b
      BY <1>20
    <3> QED BY <3>1, <1>12, <1>21
  <2>4. \A u \in Callers : \A c \in Units :
          /\ NewOf(u)' = c => IsBlock(c)' /\ job'[u].size <= BlockSize(c)'
          /\ OldOf(u)' = c => IsBlock(c)' /\ job'[u].old.size <= BlockSize(c)'
    BY <2>2, <2>3
  <2> QED BY <1>14, <2>1, <2>4, OwnersAreNext
<1>23. \A x \in Descs : \A c \in Elems(freeList[x]) :
         c \in Units /\ IsBlock(c) /\ IsBlock(c)' /\ arena'[PageOf(c)].desc = x /\ PageOf(c) # s
  <2> SUFFICES ASSUME NEW x \in Descs, NEW c \in Elems(freeList[x])
               PROVE c \in Units /\ IsBlock(c) /\ IsBlock(c)' /\ arena'[PageOf(c)].desc = x /\ PageOf(c) # s
    OBVIOUS
  <2>1. c \in Units /\ IsBlock(c) /\ arena[PageOf(c)].desc = x
    BY <1>1 DEF ListsInv, HeapTypes, Elems
  <2> QED BY <2>1, <1>19
<1>24. ListsInv'
  BY <1>1, <1>9, <1>23 DEF ListsInv
<1>25. \A c : NotListed(c)' = NotListed(c)
  BY <1>9 DEF NotListed
<1>26. NotListed(b)
  BY <1>11, <1>23 DEF NotListed
<1>27. \A h \in held : h.block # b
  <2> SUFFICES ASSUME NEW h \in held PROVE h.block # b
    OBVIOUS
  <2>1. h.block \in Units /\ IsBlock(h.block)
    BY <1>1 DEF HeapTypes, Owned, OwnersInv
  <2> QED BY <2>1, <1>11, <1>19
<1>28. \A u \in Callers : NewOf(u) # b /\ OldOf(u) # b
  <2> SUFFICES ASSUME NEW u \in Callers PROVE NewOf(u) # b /\ OldOf(u) # b
    OBVIOUS
  <2>1. NewOf(u) # NULL => NewOf(u) \in Units /\ IsBlock(NewOf(u))
    BY <1>1, JobTypes DEF OwnersInv, NewOf
  <2>2. OldOf(u) # NULL => OldOf(u) \in Units /\ IsBlock(OldOf(u))
    BY <1>1, JobTypes DEF OwnersInv
  <2> QED BY <2>1, <2>2, <1>11, <1>19, <1>20
<1>29. SoleOwner'
  <2>1. ASSUME NEW u \in Callers
        PROVE  /\ NewOf(u)' # NULL => NotListed(NewOf(u)')
               /\ OldOf(u)' # NULL => NotListed(OldOf(u)')
    <3>1. OldOf(u)' # NULL => NotListed(OldOf(u)')
      BY <1>1, <1>19 DEF SoleOwner
    <3>2. NewOf(u)' # NULL => NotListed(NewOf(u)')
      <4>1. CASE u = t
        BY <4>1, <1>20, <1>26
      <4>2. CASE u # t
        BY <4>2, <1>1, <1>19 DEF SoleOwner
      <4> QED BY <4>1, <4>2
    <3> QED BY <3>1, <3>2
  <2>2. \A u \in Callers : /\ NewOf(u)' # NULL => NotListed(NewOf(u))'
                           /\ OldOf(u)' # NULL => NotListed(OldOf(u))'
    BY <2>1, <1>9 DEF NotListed
  <2>3. \A h \in held : NotListed(h.block)' /\ \A u \in Callers : NewOf(u)' # h.block /\ OldOf(u)' # h.block
    <3> SUFFICES ASSUME NEW h \in held, NEW u \in Callers
                 PROVE NotListed(h.block)' /\ NewOf(u)' # h.block /\ OldOf(u)' # h.block
      BY <1>1, <1>25 DEF SoleOwner
    <3> QED BY <1>1, <1>19, <1>20, <1>25, <1>27 DEF SoleOwner
  <2>4. ASSUME NEW a \in Callers, NEW u \in Callers
        PROVE  /\ NewOf(a)' # NULL => NewOf(a)' # OldOf(u)'
               /\ NewOf(a)' # NULL /\ NewOf(a)' = NewOf(u)' => a = u
               /\ OldOf(a)' # NULL /\ OldOf(a)' = OldOf(u)' => a = u
    <3>1. CASE a = t
      BY <3>1, <1>1, <1>19, <1>20, <1>28 DEF SoleOwner
    <3>2. CASE a # t
      BY <3>2, <1>1, <1>19, <1>20, <1>28 DEF SoleOwner
    <3> QED BY <3>1, <3>2
  <2>5. \A h, k \in held : h.block = k.block => h = k
    BY <1>1 DEF SoleOwner
  <2> QED BY <2>2, <2>3, <2>4, <2>5, <1>9 DEF SoleOwner
<1>30. CountsInv'
  <2> SUFFICES ASSUME NEW x \in Pages, InHeap(x)', arena'[x].desc \in Descs
               PROVE  /\ arena'[x].freeCnt = Cardinality(HoldsAt(arena[x].desc, x)')
                      /\ arena'[x].freeCnt = BlocksPerArena(arena'[x].desc) =>
                           \E u \in Callers : /\ at'[u] = "pop" /\ DescFor(job'[u].size) = arena'[x].desc
                                              /\ x = PageOf(Head(freeList'[arena'[x].desc]))
    BY DEF CountsInv, HoldsAt
  <2>1. x # s
    BY <1>8, <1>13, Sizing
  <2>2. InHeap(x) /\ arena'[x] = arena[x]
    BY <2>1, <1>19
  <2>3. HoldsAt(arena[x].desc, x)' = HoldsAt(arena[x].desc, x)
    BY <2>2, <1>9 DEF HoldsAt
  <2>4. \A u \in Callers : at[u] = "pop" => at'[u] = "pop" /\ DescFor(job'[u].size) = DescFor(job[u].size)
    BY <1>2, <1>12, <1>19
  <2> QED BY <2>2, <2>3, <2>4, <1>1, <1>9 DEF CountsInv
<1>31. LinksKept'
  BY <1>1, <1>9, <1>17, <1>23 DEF Kept, LinksKept
<1>32. CallInv(t)' /\ LocksInv(t)'
  BY <1>2, <1>4, <1>12, <1>19 DEF CallInv, LocksInv, Asking, Giving
<1>33. CallsInv'
  BY <1>19, <1>32 DEF CallsInv
<1> QED BY <1>14, <1>19, <1>22, <1>24, <1>29, <1>30, <1>31, <1>33 DEF HeapOK, Kept

-----------------------------------------------------------------------------
(* The listed blocks of an arena are among the blocks it has.              *)
LEMMA ListedBlocks ==
  ASSUME HeapTypes, ListsInv, NEW d \in Descs, NEW x \in Pages
  PROVE  /\ IsFiniteSet(HoldsAt(d, x)) /\ Cardinality(HoldsAt(d, x)) \in Nat
         /\ HoldsAt(d, x) \subseteq Elems(Blocks(x, d))
         /\ Cardinality(HoldsAt(d, x)) <= BlocksPerArena(d)
<1>1. PICK B : B = Elems(Blocks(x, d))
  OBVIOUS
<1>2. IsFiniteSet(B) /\ Cardinality(B) = BlocksPerArena(d) /\ d # Big
  BY <1>1, BlocksSeq, Sizing
<1>3. HoldsAt(d, x) \subseteq B
  <2> SUFFICES ASSUME NEW b \in HoldsAt(d, x) PROVE b \in B
    OBVIOUS
  <2>1. b \in Elems(freeList[d]) /\ PageOf(b) = x
    BY DEF HoldsAt
  <2>2. IsBlock(b) /\ arena[x].desc = d
    BY <2>1 DEF ListsInv
  <2>3. \E i \in 0..(BlocksPerArena(d) - 1) : b = BlockAt(x, d, i)
    BY <2>1, <2>2, <1>2 DEF IsBlock
  <2> QED BY <2>3, <1>1, BlocksSeq
<1> QED BY <1>1, <1>2, <1>3, FS_Subset, FS_CardinalityType

(* The calls of the others, when one takes or releases a lock.             *)
LEMMA OthersCalls ==
  ASSUME HeapTypes, SameHeap, CallsInv, NEW t \in Callers,
         \A u \in Callers : u # t => at'[u] = at[u] /\ job'[u] = job[u] /\ hand'[u] = hand[u],
         \A d \in Descs : \A u \in Callers : u # t /\ descLock[d] = u => descLock'[d] = u /\
           freeList'[d] = freeList[d],
         CallInv(t)', LocksInv(t)', HandsInv(t)'
  PROVE  CallsInv'
<1> SUFFICES ASSUME NEW u \in Callers, u # t PROVE CallInv(u)' /\ LocksInv(u)' /\ HandsInv(u)'
  BY DEF CallsInv
<1>1. CallInv(u) /\ LocksInv(u) /\ HandsInv(u)
  BY DEF CallsInv
<1> QED BY <1>1, CallsStay

(* Taking the first block of a free list keeps the invariant.              *)
LEMMA PopKeeps ==
  ASSUME MemInv, HeapOK, NEW t \in Callers, UNCHANGED <<tableVars, load>>, Pop(t)
  PROVE  MemInv' /\ HeapOK'
<1>1. /\ t \in Actors /\ PoolTypes /\ HeapTypes /\ SpansApart /\ ListsInv /\ OwnersInv /\ SoleOwner
      /\ CountsInv /\ CallsInv /\ Kept
  BY ActorFacts DEF MemInv, HeapOK
<1>2. PICK d, q : d = DescFor(job[t].size) /\ q = freeList[d]
  OBVIOUS
<1>3. PICK b, x : b = Head(q) /\ x = PageOf(b)
  OBVIOUS
<1>4. PICK j : j = [job[t] EXCEPT !.block = b]
  OBVIOUS
<1>5. PICK e : e = [arena[x] EXCEPT !.freeCnt = @ - 1]
  OBVIOUS
<1>6. at[t] = "pop" /\ CallInv(t) /\ LocksInv(t) /\ InHand(t) = {} /\ hand[t] = {}
  BY CallFacts DEF Pop
<1>7. d \in Descs /\ d # Big /\ d # NULL /\ q # <<>> /\ descLock[d] = t
  BY <1>1, <1>2, <1>6, JobTypes, DescForIs, Sizing DEF LocksInv
<1>8. q \in Seq(Units) /\ NoDuplicates(q)
  BY <1>1, <1>2, <1>7 DEF HeapTypes, ListsInv
<1>9. b \in Elems(q) /\ b \in Units /\ Tail(q) \in Seq(Units)
  BY <1>3, <1>7, <1>8, HeadElem, HeadTailType
<1>10. IsBlock(b) /\ arena[x].desc = d /\ x \in Pages /\ InHeap(x)
  BY <1>1, <1>2, <1>3, <1>7, <1>9, UnitPage DEF ListsInv, IsBlock
<1>11. NoDuplicates(Tail(q)) /\ Elems(Tail(q)) = Elems(q) \ {b}
  BY <1>3, <1>7, <1>8, TailElems
<1>12. /\ arena' = [arena EXCEPT ![x] = e] /\ freeList' = [freeList EXCEPT ![d] = Tail(q)]
       /\ mem' = mem /\ at' = [at EXCEPT ![t] = "return"] /\ hand' = hand
       /\ descLock' = [descLock EXCEPT ![d] = Nobody] /\ job' = [job EXCEPT ![t] = j]
       /\ used' = used /\ poolLock' = poolLock /\ held' = held
  BY <1>2, <1>3, <1>4, <1>5 DEF Pop, Goto
<1>13. /\ job'[t] = j /\ j.op = job[t].op /\ j.size = job[t].size /\ j.old = job[t].old /\
            j.block = b /\ j \in Jobs
       /\ at'[t] = "return" /\ \A u \in Callers : u # t => job'[u] = job[u] /\ at'[u] = at[u]
  BY <1>1, <1>4, <1>9, <1>12, ActorFacts DEF HeapTypes, Jobs, PoolTypes
<1>14. PICK c : c = arena[x].freeCnt
  OBVIOUS
<1>15. PICK S : S = HoldsAt(d, x)
  OBVIOUS
<1>16. c = Cardinality(S) /\ IsFiniteSet(S) /\ c \in Nat /\ c <= BlocksPerArena(d) /\ b \in S
  <2>1. c = Cardinality(S)
    BY <1>1, <1>7, <1>10, <1>14, <1>15 DEF CountsInv
  <2>2. b \in S
    BY <1>2, <1>3, <1>9, <1>15 DEF HoldsAt
  <2> QED BY <2>1, <2>2, <1>1, <1>7, <1>10, <1>15, ListedBlocks
<1>17. Cardinality(S \ {b}) = c - 1 /\ c # 0
  <2>1. Cardinality(S \ {b}) = Cardinality(S) - 1
    BY <1>16, FS_RemoveElement
  <2>2. Cardinality(S) # 0
    BY <1>16, FS_EmptySet
  <2> QED BY <2>1, <2>2, <1>16
<1>18. arena[x] \in Arenas /\ e.desc = d /\ e.freeCnt = c - 1 /\ e \in Arenas
  <2>1. arena[x] \in Arenas
    BY <1>1, <1>10 DEF HeapTypes
  <2>2. e = [desc |-> d, freeCnt |-> c - 1]
    BY <2>1, <1>5, <1>10, <1>14 DEF Arenas
  <2>3. c \in 0..(NumPages * PageSize)
    BY <2>1, <1>14 DEF Arenas
  <2>4. PICK m : m = NumPages * PageSize
    OBVIOUS
  <2>5. m \in Nat
    BY <2>4, Sizing
  <2>6. c - 1 \in 0..m
    BY <2>3, <2>4, <2>5, <1>16, <1>17
  <2>7. e \in Arenas
    BY <2>2, <2>4, <2>6, <1>7 DEF Arenas
  <2> QED BY <2>1, <2>2, <2>7
<1>19. arena'[x] = e /\ \A y \in Pages : y # x => arena'[y] = arena[y]
  BY <1>1, <1>10, <1>12 DEF HeapTypes
<1>20. freeList'[d] = Tail(q) /\ \A y \in Descs : y # d => freeList'[y] = freeList[y]
  BY <1>1, <1>7, <1>12 DEF HeapTypes
<1>21. HeapTypes'
  <2>1. arena' \in [Pages -> Arenas]
    BY <1>1, <1>12, <1>18 DEF HeapTypes
  <2>2. freeList' \in [Descs -> Seq(Units)]
    BY <1>1, <1>9, <1>12 DEF HeapTypes
  <2>3. descLock' \in [Descs -> Callers \cup {Nobody}]
    BY <1>1, <1>12 DEF HeapTypes
  <2>4. job' \in [Callers -> Jobs]
    BY <1>1, <1>12, <1>13 DEF HeapTypes
  <2> QED BY <2>1, <2>2, <2>3, <2>4, <1>1, <1>12 DEF HeapTypes
<1>22. SameHeap
  <2>1. \A y \in Pages : SameShape(y)
    BY <1>7, <1>10, <1>18, <1>19 DEF SameShape
  <2>2. \A u \in Callers : Freeing(u)' = Freeing(u)
    BY <1>6, <1>12, <1>13 DEF Freeing
  <2> QED BY <2>1, <2>2, SameHeapIs
<1>23. MemInv'
  <2>1. "return" \in Places
    BY DEF Places
  <2> QED BY <2>1, <1>6, <1>12, <1>22, NoPagesMoved
<1>24. NewOf(t)' = b /\ NewOf(t) = NULL /\ b # NULL
  BY <1>6, <1>9, <1>13, CallFacts, NoBlockFacts DEF NewOf
<1>25. \A u \in Callers : OldOf(u)' = OldOf(u) /\ (u # t => NewOf(u)' = NewOf(u)) /\
         job'[u].old = job[u].old
                          /\ job'[u].size = job[u].size /\ job'[u].op = job[u].op
  BY <1>6, <1>13 DEF OldOf, NewOf
<1>26. \A y \in Descs : Elems(freeList'[y]) \subseteq Elems(freeList[y]) /\ NoDuplicates(freeList'[y])
  BY <1>1, <1>2, <1>11, <1>20 DEF ListsInv
<1>27. ListsInv'
  <2> SUFFICES ASSUME NEW y \in Descs, NEW k \in Elems(freeList'[y]) PROVE IsBlock(k)' /\
                        arena'[PageOf(k)].desc = y
    BY <1>26 DEF ListsInv
  <2>1. k \in Elems(freeList[y])
    BY <1>26
  <2>2. k \in Units /\ IsBlock(k) /\ arena[PageOf(k)].desc = y /\ PageOf(k) \in Pages
    BY <2>1, <1>1, UnitPage DEF ListsInv, HeapTypes, Elems
  <2> QED BY <2>2, <1>22, SameHeapFacts
<1>28. OwnersInv'
  <2>1. ASSUME NEW h \in held' PROVE IsBlock(h.block)' /\ h.size <= BlockSize(h.block)'
    <3>1. h \in held /\ h.block \in Units
      BY <2>1, <1>1, <1>12 DEF HeapTypes, Owned
    <3> QED BY <3>1, <1>1, <1>22, SameHeapFacts DEF OwnersInv
  <2>2. ASSUME NEW u \in Callers, NEW k \in Units, NewOf(u)' = k
        PROVE  IsBlock(k)' /\ job'[u].size <= BlockSize(k)'
    <3>1. CASE u = t
      <4>1. k = b
        BY <2>2, <3>1, <1>24
      <4>2. BlockSize(b) = d
        BY <1>3, <1>7, <1>10 DEF BlockSize
      <4>3. job[t].size <= d
        BY <1>1, <1>2, <1>7, JobTypes, DescForIs
      <4> QED BY <3>1, <4>1, <4>2, <4>3, <1>9, <1>10, <1>13, <1>22, SameHeapFacts
    <3>2. CASE u # t
      BY <3>2, <2>2, <1>1, <1>22, <1>25, NoBlockFacts, SameHeapFacts DEF OwnersInv
    <3> QED BY <3>1, <3>2
  <2>3. ASSUME NEW u \in Callers, NEW k \in Units, OldOf(u)' = k
        PROVE  IsBlock(k)' /\ job'[u].old.size <= BlockSize(k)'
    BY <2>3, <1>1, <1>22, <1>25, NoBlockFacts, SameHeapFacts DEF OwnersInv
  <2> QED BY <1>21, <2>1, <2>2, <2>3, OwnersAreNext
<1>29. ~NotListed(b)
  BY <1>2, <1>7, <1>9 DEF NotListed
<1>30. \A k : NotListed(k) => NotListed(k)'
  BY <1>26 DEF NotListed
<1>31. NotListed(b)'
  <2> SUFFICES ASSUME NEW y \in Descs, b \in Elems(freeList'[y]) PROVE FALSE
    BY DEF NotListed
  <2>1. b \in Elems(freeList[y])
    BY <1>26
  <2>2. y = d
    BY <2>1, <1>1, <1>3, <1>10 DEF ListsInv
  <2> QED BY <2>2, <1>11, <1>20
<1>32. SoleOwner'
  <2>1. ASSUME NEW u \in Callers
        PROVE  /\ NewOf(u)' # NULL => NotListed(NewOf(u))'
               /\ OldOf(u)' # NULL => NotListed(OldOf(u))'
    <3>1. PICK k, l : k = NewOf(u)' /\ l = OldOf(u)'
      OBVIOUS
    <3>2. l # NULL => NotListed(l)'
      BY <3>1, <1>1, <1>25, <1>30 DEF SoleOwner
    <3>3. k # NULL => NotListed(k)'
      <4>1. CASE u = t
        BY <3>1, <4>1, <1>24, <1>31
      <4>2. CASE u # t
        BY <3>1, <4>2, <1>1, <1>25, <1>30 DEF SoleOwner
      <4> QED BY <4>1, <4>2
    <3> QED BY <3>1, <3>2, <3>3 DEF NotListed
  <2>2. \A h \in held : h.block # b
    BY <1>1, <1>29 DEF SoleOwner
  <2>3. \A u \in Callers : NewOf(u) # b /\ OldOf(u) # b
    BY <1>1, <1>24, <1>29 DEF SoleOwner
  <2>4. \A h \in held : NotListed(h.block)'
    BY <1>1, <1>30 DEF SoleOwner
  <2>5. \A h \in held : \A u \in Callers : NewOf(u)' # h.block /\ OldOf(u)' # h.block
    BY <2>2, <1>1, <1>24, <1>25 DEF SoleOwner
  <2>6. ASSUME NEW a \in Callers, NEW u \in Callers
        PROVE  /\ NewOf(a)' # NULL => NewOf(a)' # OldOf(u)'
               /\ NewOf(a)' # NULL /\ NewOf(a)' = NewOf(u)' => a = u
               /\ OldOf(a)' # NULL /\ OldOf(a)' = OldOf(u)' => a = u
    <3>1. CASE a = t
      BY <3>1, <2>3, <1>1, <1>24, <1>25 DEF SoleOwner
    <3>2. CASE a # t
      BY <3>2, <2>3, <1>1, <1>24, <1>25 DEF SoleOwner
    <3> QED BY <3>1, <3>2
  <2>7. \A h, k \in held : h.block = k.block => h = k
    BY <1>1 DEF SoleOwner
  <2> QED BY <2>1, <2>4, <2>5, <2>6, <2>7, <1>12 DEF SoleOwner
<1>33. CountsInv'
  <2> SUFFICES ASSUME NEW y \in Pages, InHeap(y)', arena'[y].desc \in Descs
               PROVE  /\ arena'[y].freeCnt = Cardinality(HoldsAt(arena[y].desc, y)')
                      /\ arena'[y].freeCnt = BlocksPerArena(arena'[y].desc) =>
                           \E u \in Callers : /\ at'[u] = "pop" /\ DescFor(job'[u].size) = arena'[y].desc
                                              /\ y = PageOf(Head(freeList'[arena'[y].desc]))
    BY DEF CountsInv, HoldsAt
  <2>1. InHeap(y) /\ arena'[y].desc = arena[y].desc
    BY <1>22, SameHeapFacts
  <2>2. PICK f : f = arena[y].desc
    OBVIOUS
  <2>3. f \in Descs /\ arena'[y].desc = f
    BY <2>1, <2>2
  <2>4. HoldsAt(arena[y].desc, y)' = {k \in Elems(freeList'[f]) : PageOf(k) = y}
    BY <2>3 DEF HoldsAt
  <2>5. arena[y].freeCnt = Cardinality(HoldsAt(f, y))
        /\ (arena[y].freeCnt = BlocksPerArena(f) =>
              \E u \in Callers : at[u] = "pop" /\ DescFor(job[u].size) = f /\ y = PageOf(Head(freeList[f])))
    BY <2>1, <2>2, <2>3, <1>1 DEF CountsInv
  <2>6. arena'[y].freeCnt = Cardinality({k \in Elems(freeList'[f]) : PageOf(k) = y})
        /\ (arena'[y].freeCnt = BlocksPerArena(f) =>
              \E u \in Callers : at'[u] = "pop" /\ DescFor(job'[u].size) = f /\
                y = PageOf(Head(freeList'[f])))
    <3>1. CASE y = x
      <4>1. f = d /\ arena'[y].freeCnt = c - 1
        BY <3>1, <2>2, <1>10, <1>18, <1>19
      <4>2. {k \in Elems(freeList'[f]) : PageOf(k) = y} = S \ {b}
        BY <3>1, <4>1, <1>2, <1>11, <1>15, <1>20 DEF HoldsAt
      <4>3. c - 1 # BlocksPerArena(d)
        BY <1>7, <1>16, PerArena
      <4> QED BY <4>1, <4>2, <4>3, <1>17
    <3>2. CASE y # x /\ f = d
      <4>1. arena'[y] = arena[y]
        BY <3>2, <1>19
      <4>2. {k \in Elems(freeList'[f]) : PageOf(k) = y} = HoldsAt(f, y)
        BY <3>2, <1>2, <1>3, <1>11, <1>20 DEF HoldsAt
      <4>3. arena[y].freeCnt # BlocksPerArena(f)
        BY <2>5, <3>2, <1>2, <1>3
      <4> QED BY <4>1, <4>2, <4>3, <2>5
    <3>3. CASE y # x /\ f # d
      <4>1. arena'[y] = arena[y] /\ freeList'[f] = freeList[f]
        BY <2>3, <3>3, <1>19, <1>20
      <4>2. \A u \in Callers : at[u] = "pop" /\ DescFor(job[u].size) = f => at'[u] = "pop" /\
              DescFor(job'[u].size) = f
        BY <3>3, <1>2, <1>13
      <4> QED BY <2>5, <4>1, <4>2 DEF HoldsAt
    <3> QED BY <3>1, <3>2, <3>3, <1>10, <2>2
  <2> QED BY <2>3, <2>4, <2>6
<1>34. Kept'
  <2>1. HeldKept'
    BY <1>1, <1>12 DEF Kept, HeldKept, Keeps
  <2>2. OldKept'
    BY <1>1, <1>12, <1>25 DEF Kept, OldKept, Keeps
  <2>3. HeadersKept'
    BY <1>1, <1>12, <1>22, SameHeapFacts DEF Kept, HeadersKept
  <2>4. LinksKept'
    BY <1>1, <1>12, <1>26 DEF Kept, LinksKept
  <2> QED BY <2>1, <2>2, <2>3, <2>4 DEF Kept
<1>35. CallInv(t)' /\ LocksInv(t)' /\ HandsInv(t)'
  BY <1>6, <1>12, <1>13 DEF CallInv, LocksInv, HandsInv, Asking, Giving
<1>36. CallsInv'
  <2>1. \A y \in Descs : \A u \in Callers : u # t /\ descLock[y] = u => descLock'[y] = u /\
          freeList'[y] = freeList[y]
    BY <1>1, <1>7, <1>12, <1>20 DEF HeapTypes
  <2> QED BY <2>1, <1>1, <1>12, <1>13, <1>22, <1>35, OthersCalls
<1>37. SpansApart'
  BY <1>1, <1>22, SameHeapFacts
<1> QED BY <1>21, <1>23, <1>27, <1>28, <1>32, <1>33, <1>34, <1>36, <1>37 DEF HeapOK

-----------------------------------------------------------------------------
(* A step that writes to one block leaves the others, the headers and the  *)
(* links alone.                                                            *)
LEMMA WritesApart ==
  ASSUME HeapTypes, SpansApart, NEW b \in Units, IsBlock(b),
         \A u \in Units : u \notin Span(b, BlockSize(b)) => mem'[u] = mem[u]
  PROVE  /\ \A h \in Owned : IsBlock(h.block) /\ h.size <= BlockSize(h.block) /\ h.block # b /\
              Keeps(h) => Keeps(h)'
         /\ \A c \in Units : IsBlock(c) /\ c # b => mem'[c] = mem[c]
         /\ \A x \in Pages : \A u \in Headers(x) : mem'[u] = mem[u]
<1>1. ASSUME NEW c \in Units, IsBlock(c), c # b,
               NEW u \in Span(c, BlockSize(c)) PROVE u \in Units /\ mem'[u] = mem[u]
  <2>1. u \notin Span(b, BlockSize(b))
    BY <1>1, BlocksApart
  <2>2. u \in Units
    BY <1>1, BlockFacts
  <2> QED BY <2>1, <2>2
<1>2. ASSUME NEW h \in Owned, IsBlock(h.block), h.size <= BlockSize(h.block), h.block # b,
               Keeps(h) PROVE Keeps(h)'
  <2> SUFFICES ASSUME NEW u \in Span(h.block, h.size) PROVE mem'[u] = "data"
    BY DEF Keeps
  <2>1. h.block \in Units /\ h.size \in Sizes
    BY DEF Owned
  <2>2. BlockSize(h.block) \in Nat
    BY <1>2, <2>1, BlockFacts
  <2>3. h.block \in Nat /\ h.size \in Nat
    <3>1. \A n \in Sizes : n \in Nat
      BY Sizing
    <3>2. \A n \in Units : n \in Nat
      BY Sizing DEF Units
    <3> QED BY <2>1, <3>1, <3>2
  <2>4. u \in Span(h.block, BlockSize(h.block))
    BY <1>2, <2>2, <2>3 DEF Span
  <2>5. mem'[u] = mem[u]
    BY <1>1, <1>2, <2>1, <2>4
  <2>6. h # NoBlock
    BY NoBlockFacts
  <2> QED BY <1>2, <2>5, <2>6 DEF Keeps
<1>3. ASSUME NEW c \in Units, IsBlock(c), c # b PROVE mem'[c] = mem[c]
  BY <1>1, <1>3, BlockFirst
<1>4. ASSUME NEW x \in Pages, NEW u \in Headers(x) PROVE mem'[u] = mem[u]
  <2>1. u \in Units /\ PageOf(u) = x
    BY <1>4, HeaderUnits
  <2>2. u \notin Span(b, BlockSize(b))
    BY <1>4, <2>1, BlockFacts
  <2> QED BY <2>1, <2>2
<1> QED BY <1>2, <1>3, <1>4

(* A shorter run of units is part of a longer one.                         *)
LEMMA SpanPart ==
  ASSUME NEW b \in Nat, NEW n \in Nat, NEW m \in Nat, n <= m
  PROVE  Span(b, n) \subseteq Span(b, m)
BY DEF Span

(* The numbers that a block in use consists of.                            *)
LEMMA OwnedNat ==
  ASSUME NEW h \in Owned
  PROVE  h.block \in Units /\ h.block \in Nat /\ h.size \in Sizes /\ h.size \in Nat
<1>1. h.block \in Units /\ h.size \in Sizes
  BY DEF Owned
<1>2. \A n \in Sizes : n \in Nat
  BY Sizing
<1>3. \A n \in Units : n \in Nat
  BY Sizing DEF Units
<1> QED BY <1>1, <1>2, <1>3

(* What malloc, calloc and realloc leave in the new block.                 *)
LEMMA FilledIs ==
  ASSUME HeapOK, NEW t \in Callers, at[t] = "return", job[t].block # NULL
  PROVE  /\ Filled(t) \in [Units -> Contents]
         /\ \A u \in Span(job[t].block, job[t].size) : Filled(t)[u] = "data"
         /\ \A u \in Units : u \notin Span(job[t].block, job[t].size) => Filled(t)[u] = mem[u]
         /\ Span(job[t].block, job[t].size) \subseteq Span(job[t].block, BlockSize(job[t].block))
         /\ Span(job[t].block, job[t].size) \subseteq Units
<1>1. HeapTypes /\ SpansApart /\ OwnersInv /\ Kept /\ CallInv(t)
  BY CallFacts DEF HeapOK
<1>2. PICK b, n, o : b = job[t].block /\ n = job[t].size /\ o = job[t].old
  OBVIOUS
<1>3. b \in Units /\ n \in Nat /\ b \in Nat
  <2>1. \A k \in Units : k \in Nat
    BY Sizing DEF Units
  <2> QED BY <2>1, <1>1, <1>2, JobTypes
<1>4. IsBlock(b) /\ n <= BlockSize(b)
  BY <1>1, <1>2 DEF OwnersInv, NewOf
<1>5. BlockSize(b) \in Nat /\ \A u \in Span(b, BlockSize(b)) : u \in Units
  BY <1>1, <1>3, <1>4, BlockFacts
<1>6. Span(b, n) \subseteq Span(b, BlockSize(b)) /\ Span(b, n) \subseteq Units
  <2>1. Span(b, n) \subseteq Span(b, BlockSize(b))
    BY <1>3, <1>4, <1>5, SpanPart
  <2> QED BY <2>1, <1>5
<1>7. ASSUME job[t].op = "realloc", NEW u \in Copied(t) \ Span(b + o.size, n)
      PROVE  u \in Span(b, n) /\ mem[o.block + (u - b)] = "data"
  <2>1. o \in Owned
    BY <1>1, <1>2, <1>7 DEF CallInv, Asking
  <2>2. o.block \in Units /\ o.block \in Nat /\ o.size \in Nat
    BY <2>1, OwnedNat
  <2>3. OldOf(t) = o.block /\ o.block # NULL
    BY <1>2, <2>2, NoBlockFacts DEF OldOf
  <2>4. IsBlock(o.block) /\ BlockSize(o.block) \in Nat
    BY <1>1, <2>2, <2>3, BlockFacts DEF OwnersInv
  <2>5. PICK m : m = Min({n, BlockSize(o.block)})
    OBVIOUS
  <2>6. m \in Nat /\ m <= n
    <3>1. {n, BlockSize(o.block)} \in SUBSET Nat /\ {n, BlockSize(o.block)} # {}
      BY <1>3, <2>4
    <3>2. m \in {n, BlockSize(o.block)} /\ \A y \in {n, BlockSize(o.block)} : m <= y
      BY <2>5, <3>1, LeastGreatest
    <3> QED BY <3>1, <3>2
  <2>7. u \in Span(b, m)
    BY <1>2, <1>7, <2>5 DEF Copied
  <2>8. u \in Span(b, n)
    BY <2>6, <2>7, <1>3, SpanPart
  <2>9. PICK k : k = o.block + (u - b)
    OBVIOUS
  <2>10. k \in Span(o.block, o.size)
    BY <1>3, <1>7, <2>2, <2>8, <2>9 DEF Span
  <2>11. Keeps(o)
    BY <1>1, <1>2, <1>7 DEF Kept, OldKept
  <2>12. o # NoBlock
    BY <2>1, NoBlockFacts
  <2> QED BY <2>8, <2>9, <2>10, <2>11, <2>12 DEF Keeps
<1>8. Filled(t) = [u \in Units |->
        IF job[t].op = "realloc" /\ u \in Copied(t) \ Span(b + o.size, n) THEN mem[o.block + (u - b)]
        ELSE IF u \in Span(b, n) THEN "data" ELSE mem[u]]
  BY <1>2 DEF Filled
<1>9. \A u \in Units : Filled(t)[u] = IF u \in Span(b, n) THEN "data" ELSE mem[u]
  <2> SUFFICES ASSUME NEW u \in Units PROVE Filled(t)[u] = IF u \in Span(b, n) THEN "data" ELSE mem[u]
    OBVIOUS
  <2>1. CASE job[t].op = "realloc" /\ u \in Copied(t) \ Span(b + o.size, n)
    BY <2>1, <1>7, <1>8
  <2>2. CASE ~(job[t].op = "realloc" /\ u \in Copied(t) \ Span(b + o.size, n))
    BY <2>2, <1>8
  <2> QED BY <2>1, <2>2
<1>10. Filled(t) \in [Units -> Contents]
  <2>1. \A u \in Units : Filled(t)[u] \in Contents
    BY <1>1, <1>9 DEF HeapTypes, Contents
  <2> QED BY <2>1, <1>8
<1>11. /\ \A u \in Span(b, n) : Filled(t)[u] = "data"
       /\ \A u \in Units : u \notin Span(b, n) => Filled(t)[u] = mem[u]
  BY <1>6, <1>9
<1> QED BY <1>2, <1>6, <1>10, <1>11

-----------------------------------------------------------------------------
(* What a return does, whichever of its cases it is: X goes to the caller. *)
Returned(t, X, j, place) ==
  /\ held' = held \cup X /\ job' = [job EXCEPT ![t] = j] /\ at' = [at EXCEPT ![t] = place]
  /\ j \in Jobs /\ j.block = NULL
  /\ X \subseteq Owned /\ \A h, k \in X : h = k
  /\ \A h \in X : h.block = NewOf(t) \/ h.block = OldOf(t)
  /\ \A h \in X : h.size <= BlockSize(h.block) /\ Keeps(h)'
  /\ \/ place = "idle" /\ j = NoJob
     \/ place = "free" /\ j.op = "free" /\ j.old = job[t].old /\ job[t].old \in Owned
        /\ \A h \in X : h.block = NewOf(t)

(* The three cases: NULL, a new block, and a new block whose old one is    *)
(* still to be freed.                                                      *)
LEMMA ReturnCases ==
  ASSUME HeapOK, NEW t \in Callers, Return(t)
  PROVE  /\ \E X : \E j : \E place : Returned(t, X, j, place)
         /\ mem' \in [Units -> Contents]
         /\ mem' = mem \/ (NewOf(t) # NULL /\ \A u \in Units :
              u \notin Span(NewOf(t), BlockSize(NewOf(t))) => mem'[u] = mem[u])
<1>1. HeapTypes /\ OwnersInv /\ Kept /\ CallInv(t) /\ at[t] = "return"
  BY CallFacts DEF HeapOK, Return
<1>2. PICK b, n, o : b = job[t].block /\ n = job[t].size /\ o = job[t].old
  OBVIOUS
<1>3. NewOf(t) = b /\ OldOf(t) = o.block
  BY <1>1, <1>2 DEF NewOf, OldOf
<1>4. /\ n \in Sizes
      /\ \/ job[t].op = "malloc" /\ o = NoBlock
         \/ job[t].op = "realloc" /\ o \in Owned
  BY <1>1, <1>2 DEF CallInv, Asking
<1>5. NoJob \in Jobs /\ NoJob.block = NULL
  BY DEF NoJob, Jobs
<1>6. job[t] \in Jobs /\ b \in Units \cup {NULL}
  BY <1>1, <1>2 DEF HeapTypes, Jobs
<1>7. CASE b = NULL
  <2>1. PICK X : X = {o} \ {NoBlock}
    OBVIOUS
  <2>2. held' = held \cup X /\ job' = [job EXCEPT ![t] = NoJob] /\
          at' = [at EXCEPT ![t] = "idle"] /\ mem' = mem
    BY <1>2, <1>7, <2>1 DEF Return, Goto
  <2>3. \A h \in X : h = o /\ o \in Owned /\ job[t].op = "realloc"
    BY <1>4, <2>1
  <2>4. o \in Owned => o.block # NULL
    BY OwnedNat, NoBlockFacts
  <2>5. \A h \in X : h.size <= BlockSize(h.block) /\ Keeps(h)
    BY <1>1, <1>2, <1>3, <2>3, <2>4 DEF OwnersInv, Kept, OldKept
  <2>6. \A h \in X : Keeps(h)'
    BY <2>2, <2>5 DEF Keeps
  <2>7. Returned(t, X, NoJob, "idle")
    BY <1>3, <1>5, <2>2, <2>3, <2>5, <2>6 DEF Returned
  <2> QED BY <2>2, <2>7, <1>1 DEF HeapTypes
<1>8. CASE b # NULL
  <2>1. PICK h : h = [block |-> b, size |-> n]
    OBVIOUS
  <2>2. h \in Owned /\ h.block = b /\ h.size = n
    BY <2>1, <1>4, <1>6, <1>8 DEF Owned
  <2>3. held' = held \cup {h} /\ mem' = Filled(t)
    BY <1>2, <1>8, <2>1 DEF Return
  <2>4. /\ Filled(t) \in [Units -> Contents]
        /\ \A u \in Span(b, n) : Filled(t)[u] = "data"
        /\ \A u \in Units : u \notin Span(b, n) => Filled(t)[u] = mem[u]
        /\ Span(b, n) \subseteq Span(b, BlockSize(b))
    BY <1>1, <1>2, <1>8, FilledIs
  <2>5. n <= BlockSize(b)
    BY <1>1, <1>2, <1>3, <1>8 DEF OwnersInv
  <2>6. Keeps(h)'
    BY <2>2, <2>3, <2>4 DEF Keeps
  <2>7. CASE job[t].op = "realloc"
    <3>1. PICK j : j = [job[t] EXCEPT !.op = "free", !.block = NULL, !.size = 0]
      OBVIOUS
    <3>2. job' = [job EXCEPT ![t] = j] /\ at' = [at EXCEPT ![t] = "free"]
      BY <1>2, <1>8, <2>7, <3>1 DEF Return, Goto
    <3>3. j \in Jobs /\ j.block = NULL /\ j.op = "free" /\ j.old = o
      BY <1>2, <1>6, <3>1 DEF Jobs
    <3>4. o \in Owned
      BY <1>4, <2>7
    <3>5. Returned(t, {h}, j, "free")
      BY <1>2, <1>3, <2>2, <2>3, <2>5, <2>6, <3>2, <3>3, <3>4 DEF Returned
    <3> QED BY <3>5, <2>3, <2>4, <1>3, <1>8
  <2>8. CASE job[t].op # "realloc"
    <3>1. job' = [job EXCEPT ![t] = NoJob] /\ at' = [at EXCEPT ![t] = "idle"]
      BY <1>2, <1>8, <2>8 DEF Return, Goto
    <3>2. Returned(t, {h}, NoJob, "idle")
      BY <1>3, <1>5, <2>2, <2>3, <2>5, <2>6, <3>1 DEF Returned
    <3> QED BY <3>2, <2>3, <2>4, <1>3, <1>8
  <2> QED BY <2>7, <2>8
<1> QED BY <1>7, <1>8

(* The return from malloc or realloc keeps the invariant.                  *)
LEMMA ReturnKeeps ==
  ASSUME MemInv, HeapOK, NEW t \in Callers, UNCHANGED <<tableVars, load>>, Return(t)
  PROVE  MemInv' /\ HeapOK'
<1>1. /\ t \in Actors /\ PoolTypes /\ HeapTypes /\ SpansApart /\ ListsInv /\ OwnersInv /\ SoleOwner
      /\ CountsInv /\ CallsInv /\ Kept
  BY ActorFacts DEF MemInv, HeapOK
<1>2. /\ at[t] = "return" /\ used' = used /\ poolLock' = poolLock /\ hand' = hand /\ arena' = arena
      /\ freeList' = freeList /\ descLock' = descLock
  BY DEF Return
<1>3. CallInv(t) /\ LocksInv(t) /\ InHand(t) = {} /\ hand[t] = {}
  BY <1>2, CallFacts
<1>4. PICK X, j, place : Returned(t, X, j, place)
  BY ReturnCases
<1>5. /\ held' = held \cup X /\ job' = [job EXCEPT ![t] = j] /\ at' = [at EXCEPT ![t] = place]
      /\ j \in Jobs /\ j.block = NULL
      /\ X \subseteq Owned /\ \A h, k \in X : h = k
      /\ \A h \in X : h.block = NewOf(t) \/ h.block = OldOf(t)
      /\ \A h \in X : h.size <= BlockSize(h.block) /\ Keeps(h)'
      /\ place \in {"idle", "free"}
  BY <1>4 DEF Returned
<1>6. \/ place = "idle" /\ j = NoJob
      \/ place = "free" /\ j.op = "free" /\ j.old = job[t].old /\ job[t].old \in Owned /\
           \A h \in X : h.block = NewOf(t)
  BY <1>4 DEF Returned
<1>7. mem' \in [Units -> Contents]
      /\ (mem' = mem \/ (NewOf(t) # NULL /\ \A u \in Units :
           u \notin Span(NewOf(t), BlockSize(NewOf(t))) => mem'[u] = mem[u]))
  BY ReturnCases
<1>8. job'[t] = j /\ at'[t] = place /\ \A u \in Callers : u # t => job'[u] = job[u] /\ at'[u] = at[u]
  BY <1>1, <1>5, ActorFacts DEF HeapTypes, PoolTypes
<1>9. HeapTypes'
  BY <1>1, <1>2, <1>5, <1>7 DEF HeapTypes
<1>10. SameHeap
  <2>1. Freeing(t)' = {} /\ Freeing(t) = {}
    BY <1>2, <1>5, <1>8 DEF Freeing
  <2> QED BY <2>1, <1>2, <1>8, SameHeapIs DEF SameShape, Freeing
<1>11. MemInv'
  <2>1. place \in Places
    BY <1>5 DEF Places
  <2> QED BY <2>1, <1>2, <1>3, <1>5, <1>10, NoPagesMoved
<1>12. SpansApart' /\ ListsInv'
  BY <1>1, <1>2, <1>10, SameHeapFacts, ListsStay
<1>13. NewOf(t)' = NULL /\ (OldOf(t)' = NULL \/ (OldOf(t)' = OldOf(t) /\ place = "free"))
  <2>1. NewOf(t)' = NULL
    BY <1>5, <1>8 DEF NewOf
  <2>2. CASE place = "idle" /\ j = NoJob
    BY <2>1, <2>2, <1>8 DEF OldOf, NoJob, NoBlock
  <2>3. CASE place = "free" /\ j.old = job[t].old
    BY <2>1, <2>3, <1>2, <1>8 DEF OldOf
  <2> QED BY <2>2, <2>3, <1>6
<1>14. \A u \in Callers : u # t => NewOf(u)' = NewOf(u) /\ OldOf(u)' = OldOf(u)
  BY <1>8 DEF NewOf, OldOf
<1>15. ASSUME NEW h \in X
       PROVE  /\ h \in Owned /\ h.block \in Units /\ h.block # NULL /\ IsBlock(h.block) /\
                   h.size <= BlockSize(h.block)
              /\ NotListed(h.block) /\ \A k \in held : k.block # h.block
              /\ \A u \in Callers : NewOf(u)' # h.block /\ OldOf(u)' # h.block
  <2>1. h \in Owned /\ h.block \in Units /\ h.block # NULL /\ h.size <= BlockSize(h.block)
    BY <1>5, <1>15, OwnedNat, NoBlockFacts
  <2>2. IsBlock(h.block) /\ NotListed(h.block) /\ \A k \in held : k.block # h.block
    BY <2>1, <1>1, <1>5, <1>15 DEF OwnersInv, SoleOwner
  <2>3. NewOf(t)' # h.block /\ OldOf(t)' # h.block
    <3>1. CASE place = "free"
      <4>1. h.block = NewOf(t)
        BY <1>6, <1>15, <3>1
      <4> QED BY <4>1, <2>1, <1>1, <1>13 DEF SoleOwner
    <3>2. CASE place # "free"
      BY <3>2, <2>1, <1>13
    <3> QED BY <3>1, <3>2
  <2>4. \A u \in Callers : u # t => NewOf(u) # h.block /\ OldOf(u) # h.block
    BY <2>1, <1>1, <1>5, <1>15 DEF SoleOwner
  <2> QED BY <2>1, <2>2, <2>3, <2>4, <1>14
<1>16. OwnersInv'
  <2>1. ASSUME NEW h \in held' PROVE IsBlock(h.block)' /\ h.size <= BlockSize(h.block)'
    <3>1. h \in Owned /\ IsBlock(h.block) /\ h.size <= BlockSize(h.block)
      <4>1. CASE h \in X
        BY <4>1, <1>15
      <4>2. CASE h \in held
        BY <4>2, <1>1 DEF HeapTypes, OwnersInv
      <4> QED BY <2>1, <4>1, <4>2, <1>5
    <3>2. h.block \in Units
      BY <3>1, OwnedNat
    <3> QED BY <3>1, <3>2, <1>10, SameHeapFacts
  <2>2. ASSUME NEW u \in Callers, NEW k \in Units, NewOf(u)' = k
        PROVE  IsBlock(k)' /\ job'[u].size <= BlockSize(k)'
    <3>1. u # t
      BY <2>2, <1>13, NoBlockFacts
    <3> QED BY <3>1, <2>2, <1>1, <1>8, <1>10, <1>14, NoBlockFacts, SameHeapFacts DEF OwnersInv
  <2>3. ASSUME NEW u \in Callers, NEW k \in Units, OldOf(u)' = k
        PROVE  IsBlock(k)' /\ job'[u].old.size <= BlockSize(k)'
    <3>1. OldOf(u)' = OldOf(u) /\ job'[u].old = job[u].old
      <4>1. CASE u = t
        <5>1. place = "free" /\ OldOf(t)' = OldOf(t)
          BY <2>3, <4>1, <1>13, NoBlockFacts
        <5> QED BY <4>1, <5>1, <1>6, <1>8
      <4>2. CASE u # t
        BY <4>2, <1>8, <1>14
      <4> QED BY <4>1, <4>2
    <3> QED BY <3>1, <2>3, <1>1, <1>10, NoBlockFacts, SameHeapFacts DEF OwnersInv
  <2> QED BY <1>9, <2>1, <2>2, <2>3, OwnersAreNext
<1>17. \A b : NotListed(b)' = NotListed(b)
  BY <1>2 DEF NotListed
<1>18. SoleOwner'
  <2>1. ASSUME NEW u \in Callers
        PROVE  /\ NewOf(u)' # NULL => NotListed(NewOf(u))'
               /\ OldOf(u)' # NULL => NotListed(OldOf(u))'
    <3>1. PICK k, l : k = NewOf(u)' /\ l = OldOf(u)'
      OBVIOUS
    <3>2. (k # NULL => NotListed(k)) /\ (l # NULL => NotListed(l))
      BY <3>1, <1>1, <1>13, <1>14 DEF SoleOwner
    <3> QED BY <3>1, <3>2, <1>17 DEF NotListed
  <2>2. ASSUME NEW h \in held'
        PROVE  NotListed(h.block)' /\ \A u \in Callers : NewOf(u)' # h.block /\ OldOf(u)' # h.block
    <3>1. CASE h \in X
      BY <3>1, <1>15, <1>17
    <3>2. CASE h \in held
      <4>1. h.block # NULL
        BY <3>2, <1>1, OwnedNat, NoBlockFacts DEF HeapTypes
      <4>2. \A u \in Callers : NewOf(u)' # h.block /\ OldOf(u)' # h.block
        BY <3>2, <4>1, <1>1, <1>13, <1>14 DEF SoleOwner
      <4> QED BY <3>2, <4>2, <1>1, <1>17 DEF SoleOwner
    <3> QED BY <2>2, <3>1, <3>2, <1>5
  <2>3. \A h, k \in held' : h.block = k.block => h = k
    BY <1>1, <1>5, <1>15 DEF SoleOwner
  <2>4. ASSUME NEW a \in Callers, NEW u \in Callers
        PROVE  /\ NewOf(a)' # NULL => NewOf(a)' # OldOf(u)'
               /\ NewOf(a)' # NULL /\ NewOf(a)' = NewOf(u)' => a = u
               /\ OldOf(a)' # NULL /\ OldOf(a)' = OldOf(u)' => a = u
    <3>1. CASE a = t
      BY <3>1, <1>1, <1>13, <1>14 DEF SoleOwner
    <3>2. CASE a # t
      BY <3>2, <1>1, <1>13, <1>14 DEF SoleOwner
    <3> QED BY <3>1, <3>2
  <2> QED BY <2>1, <2>2, <2>3, <2>4 DEF SoleOwner
<1>19. CountsInv'
  <2>1. \A u \in Callers : at[u] = "pop" => at'[u] = "pop" /\ job'[u].size = job[u].size
    BY <1>2, <1>8
  <2> QED BY <2>1, <1>1, <1>2, <1>10, CountsStay
<1>20. /\ \A h \in Owned : IsBlock(h.block) /\ h.size <= BlockSize(h.block) /\
            h.block # NewOf(t) /\ Keeps(h) => Keeps(h)'
       /\ \A c \in Units : IsBlock(c) /\ c # NewOf(t) => mem'[c] = mem[c]
       /\ \A x \in Pages : \A u \in Headers(x) : mem'[u] = mem[u]
  <2>1. CASE mem' = mem
    BY <2>1 DEF Keeps
  <2>2. CASE mem' # mem
    <3>1. PICK b : b = NewOf(t)
      OBVIOUS
    <3>2. b \in Units /\ IsBlock(b) /\ \A u \in Units : u \notin Span(b, BlockSize(b)) => mem'[u] = mem[u]
      BY <2>2, <3>1, <1>1, <1>7, JobTypes DEF NewOf, OwnersInv
    <3> QED BY <3>1, <3>2, <1>1, WritesApart
  <2> QED BY <2>1, <2>2
<1>21. Kept'
  <2>1. HeldKept'
    <3> SUFFICES ASSUME NEW h \in held' PROVE Keeps(h)'
      BY DEF HeldKept
    <3>1. CASE h \in X
      BY <3>1, <1>5
    <3>2. CASE h \in held
      <4>1. h \in Owned /\ IsBlock(h.block) /\ h.size <= BlockSize(h.block) /\
              h.block # NewOf(t) /\ Keeps(h)
        BY <3>2, <1>1 DEF HeapTypes, OwnersInv, SoleOwner, Kept, HeldKept
      <4> QED BY <4>1, <1>20
    <3> QED BY <3>1, <3>2, <1>5
  <2>2. OldKept'
    <3> SUFFICES ASSUME NEW u \in Callers, job'[u].op = "realloc" PROVE Keeps(job[u].old)'
      BY DEF OldKept
    <3>1. u # t
      BY <1>6, <1>8 DEF NoJob
    <3>2. PICK h : h = job[u].old
      OBVIOUS
    <3>3. job[u].op = "realloc" /\ job'[u].old = h /\ Keeps(h)
      BY <3>1, <3>2, <1>1, <1>8 DEF Kept, OldKept
    <3>4. at[u] \in Asking /\ h \in Owned
      BY <3>2, <3>3, <1>1 DEF CallsInv, CallInv, NoJob, Giving
    <3>5. OldOf(u) = h.block /\ h.block # NULL
      BY <3>2, <3>4, OwnedNat, NoBlockFacts DEF OldOf, Asking
    <3>6. IsBlock(h.block) /\ h.size <= BlockSize(h.block) /\ h.block # NewOf(t)
      BY <3>2, <3>5, <1>1 DEF OwnersInv, SoleOwner
    <3>7. Keeps(h)'
      BY <3>3, <3>4, <3>6, <1>20
    <3> QED BY <3>3, <3>7 DEF Keeps
  <2>3. HeadersKept'
    BY <1>1, <1>10, <1>20, SameHeapFacts DEF Kept, HeadersKept
  <2>4. LinksKept'
    <3> SUFFICES ASSUME NEW x \in Descs, NEW b \in Elems(freeList[x]) PROVE mem'[b] = "link"
      BY <1>2 DEF LinksKept
    <3>1. b \in Units /\ IsBlock(b) /\ mem[b] = "link"
      BY <1>1 DEF ListsInv, HeapTypes, Elems, Kept, LinksKept
    <3>2. b # NewOf(t)
      BY <3>1, <1>1, NoBlockFacts DEF SoleOwner, NotListed
    <3> QED BY <3>1, <3>2, <1>20
  <2> QED BY <2>1, <2>2, <2>3, <2>4 DEF Kept
<1>22. CallInv(t)' /\ LocksInv(t)' /\ HandsInv(t)'
  BY <1>2, <1>3, <1>5, <1>6, <1>8 DEF CallInv, LocksInv, HandsInv, Asking, Giving
<1>23. CallsInv'
  BY <1>1, <1>2, <1>8, <1>10, <1>22, OthersCalls
<1> QED BY <1>9, <1>11, <1>12, <1>16, <1>18, <1>19, <1>21, <1>23 DEF HeapOK

-----------------------------------------------------------------------------
(* The block that free was given, of an arena.                             *)
LEMMA OldFacts ==
  ASSUME HeapOK, NEW t \in Callers, at[t] \in {"free", "put"}
  PROVE  /\ OldOf(t) = job[t].old.block /\ OldOf(t) # NULL /\ OldOf(t) \in Units /\ NewOf(t) = NULL
         /\ IsBlock(OldOf(t)) /\ PageOf(OldOf(t)) \in Pages /\ InHeap(PageOf(OldOf(t)))
         /\ InHand(t) = {} /\ hand[t] = {} /\ Freeing(t) = {} /\ job[t].op = "free" /\ job[t].old \in Owned
         /\ NotListed(OldOf(t))
         /\ \A h \in held : h.block # OldOf(t)
         /\ \A u \in Callers : NewOf(u) # OldOf(t) /\ (u # t => OldOf(u) # OldOf(t))
<1>1. HeapTypes /\ OwnersInv /\ SoleOwner /\ CallInv(t) /\ hand[t] = {} /\ InHand(t) = {} /\ Freeing(t) = {}
      /\ NewOf(t) = NULL
  BY CallFacts DEF HeapOK
<1>2. job[t].op = "free" /\ job[t].old \in Owned
  BY <1>1 DEF CallInv, Giving
<1>3. OldOf(t) = job[t].old.block /\ OldOf(t) # NULL /\ OldOf(t) \in Units
  BY <1>2, OwnedNat, NoBlockFacts DEF OldOf
<1>4. IsBlock(OldOf(t)) /\ NotListed(OldOf(t)) /\ \A h \in held : h.block # OldOf(t)
  BY <1>1, <1>3 DEF OwnersInv, SoleOwner
<1>5. PageOf(OldOf(t)) \in Pages /\ InHeap(PageOf(OldOf(t)))
  BY <1>3, <1>4, UnitPage DEF IsBlock
<1>6. \A u \in Callers : NewOf(u) # OldOf(t) /\ (u # t => OldOf(u) # OldOf(t))
  BY <1>1, <1>3 DEF SoleOwner
<1> QED BY <1>1, <1>2, <1>3, <1>4, <1>5, <1>6

(* The block that realloc copies is there, unchanged, until realloc frees  *)
(* it.                                                                     *)
LEMMA ReallocOld ==
  ASSUME HeapOK, NEW u \in Callers, job[u].op = "realloc"
  PROVE  /\ job[u].old \in Owned /\ OldOf(u) = job[u].old.block /\ OldOf(u) # NULL
         /\ IsBlock(job[u].old.block) /\ job[u].old.size <= BlockSize(job[u].old.block) /\ Keeps(job[u].old)
<1>1. HeapTypes /\ OwnersInv /\ Kept /\ CallInv(u)
  BY CallFacts DEF HeapOK
<1>2. at[u] \in Asking /\ job[u].old \in Owned
  BY <1>1 DEF CallInv, NoJob, Giving
<1>3. OldOf(u) = job[u].old.block /\ OldOf(u) # NULL
  BY <1>2, OwnedNat, NoBlockFacts DEF OldOf, Asking
<1> QED BY <1>1, <1>2, <1>3 DEF OwnersInv, Kept, OldKept

(* free of a block of an arena fills it.                                   *)
LEMMA FillBlockKeeps ==
  ASSUME MemInv, HeapOK, NEW t \in Callers, UNCHANGED <<tableVars, load>>, FreeClear(t),
         arena[PageOf(job[t].old.block)].desc # Big
  PROVE  MemInv' /\ HeapOK'
<1>1. /\ t \in Actors /\ PoolTypes /\ HeapTypes /\ SpansApart /\ ListsInv /\ OwnersInv /\ SoleOwner
      /\ CountsInv /\ CallsInv /\ Kept
  BY ActorFacts DEF MemInv, HeapOK
<1>2. PICK b, d : b = job[t].old.block /\ d = arena[PageOf(b)].desc
  OBVIOUS
<1>3. /\ at[t] = "free" /\ at' = [at EXCEPT ![t] = "put"] /\ mem' = Written(Span(b, d), "cc")
      /\ used' = used /\ poolLock' = poolLock /\ hand' = hand /\ arena' = arena
      /\ freeList' = freeList /\ descLock' = descLock /\ held' = held /\ job' = job
  BY <1>2 DEF FreeClear, Goto
<1>4. /\ OldOf(t) = b /\ b \in Units /\ NewOf(t) = NULL /\ IsBlock(b) /\ InHand(t) = {} /\ hand[t] = {}
      /\ Freeing(t) = {} /\ job[t].op = "free" /\ NotListed(b) /\ \A h \in held : h.block # b
      /\ \A u \in Callers : u # t => OldOf(u) # b
  BY <1>2, <1>3, OldFacts
<1>5. BlockSize(b) = d /\ d # Big
  BY <1>2 DEF BlockSize
<1>6. at'[t] = "put" /\ \A u \in Callers : u # t => at'[u] = at[u]
  BY <1>1, <1>3, ActorFacts DEF PoolTypes
<1>7. \A u \in Units : mem'[u] = IF u \in Span(b, BlockSize(b)) THEN "cc" ELSE mem[u]
  BY <1>3, <1>5 DEF Written
<1>8. HeapTypes'
  <2>1. mem' \in [Units -> Contents]
    <3>1. \A u \in Units : mem'[u] \in Contents
      BY <1>1, <1>7 DEF HeapTypes, Contents
    <3> QED BY <3>1, <1>3 DEF Written
  <2> QED BY <2>1, <1>1, <1>3 DEF HeapTypes
<1>9. SameHeap
  <2>1. Freeing(t)' = {}
    BY <1>6 DEF Freeing
  <2> QED BY <2>1, <1>3, <1>4, <1>6, SameHeapIs DEF SameShape, Freeing
<1>10. MemInv'
  <2>1. "put" \in Places
    BY DEF Places
  <2> QED BY <2>1, <1>3, <1>4, <1>9, NoPagesMoved
<1>11. \A u \in Callers : NewOf(u)' = NewOf(u) /\ OldOf(u)' = OldOf(u)
  BY <1>3, <1>6 DEF NewOf, OldOf
<1>12. SpansApart' /\ ListsInv' /\ OwnersInv' /\ SoleOwner'
  BY <1>1, <1>3, <1>9, <1>11, SameHeapFacts, ListsStay, OwnersStay, SoleStays
<1>13. CountsInv'
  <2>1. \A u \in Callers : at[u] = "pop" => at'[u] = "pop" /\ job'[u].size = job[u].size
    BY <1>3, <1>6
  <2> QED BY <2>1, <1>1, <1>3, <1>9, CountsStay
<1>14. /\ \A h \in Owned : IsBlock(h.block) /\ h.size <= BlockSize(h.block) /\ h.block # b /\
            Keeps(h) => Keeps(h)'
       /\ \A c \in Units : IsBlock(c) /\ c # b => mem'[c] = mem[c]
       /\ \A x \in Pages : \A u \in Headers(x) : mem'[u] = mem[u]
  BY <1>1, <1>4, <1>7, WritesApart
<1>15. Kept'
  <2>1. HeldKept'
    BY <1>1, <1>3, <1>4, <1>14 DEF HeapTypes, OwnersInv, Kept, HeldKept
  <2>2. OldKept'
    <3> SUFFICES ASSUME NEW u \in Callers, job'[u].op = "realloc" PROVE Keeps(job[u].old)'
      BY DEF OldKept
    <3>1. PICK h : h = job[u].old
      OBVIOUS
    <3>2. h \in Owned /\ IsBlock(h.block) /\ h.size <= BlockSize(h.block) /\ Keeps(h) /\
            OldOf(u) = h.block /\ job[u].op = "realloc"
      BY <3>1, <1>3, ReallocOld
    <3>3. Keeps(h)'
      BY <3>2, <1>4, <1>14
    <3> QED BY <3>1, <3>3, <1>3 DEF Keeps
  <2>3. HeadersKept'
    BY <1>1, <1>9, <1>14, SameHeapFacts DEF Kept, HeadersKept
  <2>4. LinksKept'
    <3> SUFFICES ASSUME NEW x \in Descs, NEW c \in Elems(freeList[x]) PROVE mem'[c] = "link"
      BY <1>3 DEF LinksKept
    <3>1. c \in Units /\ IsBlock(c) /\ mem[c] = "link"
      BY <1>1 DEF ListsInv, HeapTypes, Elems, Kept, LinksKept
    <3>2. c # b
      BY <1>4 DEF NotListed
    <3> QED BY <3>1, <3>2, <1>14
  <2> QED BY <2>1, <2>2, <2>3, <2>4 DEF Kept
<1>16. CallInv(t)' /\ LocksInv(t)' /\ HandsInv(t)'
  <2>1. CallInv(t)
    BY CallFacts
  <2> QED BY <2>1, <1>2, <1>3, <1>4, <1>5, <1>6 DEF CallInv, LocksInv, HandsInv, Asking, Giving
<1>17. CallsInv'
  BY <1>1, <1>3, <1>6, <1>9, <1>16, OthersCalls
<1> QED BY <1>8, <1>10, <1>12, <1>13, <1>15, <1>17 DEF HeapOK

(* The bits of the pages that free gives back, one by one.                 *)
LEMMA ClearBitKeeps ==
  ASSUME MemInv, HeapOK, NEW t \in Callers, UNCHANGED <<tableVars, load>>, ClearPages(t)
  PROVE  MemInv' /\ HeapOK'
<1>1. /\ t \in Actors /\ PoolTypes /\ LockInv /\ OwnInv /\ HeapTypes /\ SpansApart /\ ListsInv /\ OwnersInv
      /\ SoleOwner /\ CountsInv /\ CallsInv /\ Kept
  BY ActorFacts DEF MemInv, HeapOK
<1>2. PICK m : m = Min(hand[t])
  OBVIOUS
<1>3. PICK place : place = IF Cardinality(hand[t]) = 1 THEN "idle" ELSE "clear"
  OBVIOUS
<1>4. PICK j : j = IF place = "idle" THEN NoJob ELSE job[t]
  OBVIOUS
<1>5. /\ at[t] = "clear" /\ used' = used \ {m} /\ hand' = [hand EXCEPT ![t] = @ \ {Min(@)}]
      /\ at' = [at EXCEPT ![t] = place] /\ poolLock' = poolLock /\ arena' = arena /\ freeList' = freeList
      /\ mem' = mem /\ held' = held
  BY <1>2, <1>3 DEF ClearPages, FreeBit, Goto
<1>6. \A u \in Callers : job'[u] = (IF u = t THEN j ELSE job[u])
  BY <1>1, <1>3, <1>4 DEF ClearPages, HeapTypes
<1>7. \A d \in Descs : descLock'[d] = descLock[d] \/ (descLock[d] = t /\ descLock'[d] = Nobody)
  BY DEF ClearPages
<1>8. at'[t] = place /\ hand'[t] = hand[t] \ {m} /\ \A a \in Actors : a # t => at'[a] = at[a] /\
        hand'[a] = hand[a]
  BY <1>1, <1>2, <1>5 DEF PoolTypes
<1>9. hand[t] \subseteq Pages /\ hand[t] # {} /\ m \in hand[t] /\ IsFiniteSet(hand[t])
  <2>1. hand[t] \in SUBSET Pages /\ hand[t] # {}
    BY <1>1, <1>5 DEF PoolTypes, LockInv
  <2>2. hand[t] \in SUBSET Nat
    BY <2>1, NoPageFacts
  <2>3. IsFiniteSet(Pages)
    BY Sizing, FS_Interval
  <2> QED BY <2>1, <2>2, <2>3, <1>2, LeastGreatest, FS_Subset
<1>10. place = "idle" <=> hand'[t] = {}
  <2>1. Cardinality(hand[t] \ {m}) = Cardinality(hand[t]) - 1 /\ Cardinality(hand[t]) \in Nat /\
          IsFiniteSet(hand[t] \ {m})
    BY <1>9, FS_RemoveElement, FS_CardinalityType
  <2>2. hand[t] \ {m} = {} <=> Cardinality(hand[t] \ {m}) = 0
    BY <2>1, FS_EmptySet
  <2> QED BY <2>1, <2>2, <1>3, <1>8
<1>11. InHand(t) = hand[t] /\ Freeing(t) = hand[t] /\ InHand(t)' = hand[t] \ {m} /\
         Freeing(t)' = hand[t] \ {m}
  BY <1>3, <1>5, <1>8, <1>10 DEF InHand, Freeing
<1>12. CallInv(t) /\ HandsInv(t) /\ job[t].op = "free" /\ job[t].block = NULL
  BY <1>1, <1>5 DEF CallsInv, CallInv, Giving
<1>13. \A x \in Pages : ArenaSpan(x) \cap hand[t] = {}
  BY <1>5, <1>12 DEF HandsInv
<1>14. SameHeap
  <2> SUFFICES ASSUME NEW x \in Pages
               PROVE SameShape(x) /\ InHeap(x)' = InHeap(x) /\ ArenaPages(x)' = ArenaPages(x)
    BY DEF SameHeap
  <2>1. SameShape(x) /\ ArenaSpan(x)' = ArenaSpan(x)
    BY <1>5 DEF SameShape, ArenaSpan
  <2>2. \A u \in Callers : u # t => Freeing(u)' = Freeing(u)
    BY <1>8, ActorFacts DEF Freeing
  <2>3. \A q \in ArenaSpan(x) : q \notin hand[t]
    BY <1>13
  <2>4. \A q \in ArenaSpan(x) : (\E u \in Callers : q \in Freeing(u)') <=> \E u \in Callers :
          q \in Freeing(u)
    BY <2>2, <2>3, <1>11
  <2>5. ArenaPages(x)' = ArenaPages(x)
    BY <2>1, <2>4 DEF ArenaPages
  <2>6. InHeap(x)' = InHeap(x)
    <3>1. CASE arena[x].desc = NULL
      BY <3>1, <1>5 DEF InHeap
    <3>2. CASE arena[x].desc # NULL
      <4>1. x \in ArenaSpan(x)
        BY <3>2, <1>1, SpanFacts
      <4>2. (\A u \in Callers : x \notin Freeing(u)') <=> \A u \in Callers : x \notin Freeing(u)
        BY <4>1, <2>4
      <4> QED BY <4>2, <1>5 DEF InHeap
    <3> QED BY <3>1, <3>2
  <2> QED BY <2>1, <2>5, <2>6
<1>15. HeapTypes'
  <2>1. descLock' \in [Descs -> Callers \cup {Nobody}]
    BY <1>1 DEF ClearPages, HeapTypes
  <2>2. job' \in [Callers -> Jobs]
    <3>1. NoJob \in Jobs
      BY DEF NoJob, Jobs
    <3> QED BY <3>1, <1>1 DEF ClearPages, HeapTypes
  <2> QED BY <2>1, <2>2, <1>1, <1>5 DEF HeapTypes
<1>16. MemInv'
  <2>1. PoolTypes'
    BY <1>1, <1>3, <1>5, <1>9 DEF PoolTypes, Places, PoolPlaces
  <2>2. OnlyCaller(t)
    BY <1>8 DEF OnlyCaller
  <2>3. Elsewhere' \subseteq used' => LockInv'
    <3>1. ASSUME NEW a \in Actors
          PROVE  /\ at'[a] = "flip" <=> poolLock' = a
                 /\ at'[a] = "flip" => hand'[a] \cap used' = {}
                 /\ at'[a] \in {"fill", "clear"} => hand'[a] # {}
      <4>1. at[a] = "flip" <=> poolLock = a
        BY <1>1 DEF LockInv
      <4>2. CASE a = t
        BY <4>1, <4>2, <1>3, <1>5, <1>8, <1>10
      <4>3. CASE a # t
        BY <4>1, <4>3, <1>1, <1>5, <1>8 DEF LockInv
      <4> QED BY <4>2, <4>3
    <3> QED BY <3>1 DEF LockInv
  <2>4. HeapPages' = HeapPages
    BY <1>14, SameHeapFacts
  <2>5. HeapPages \cap hand[t] = {}
    BY <1>1, <1>11 DEF OwnInv
  <2> DEFINE none == {}
  <2>6. PICK gave : gave = {m}
    OBVIOUS
  <2>7. /\ none \subseteq Pages /\ none \cap used = {} /\ gave \subseteq HeapPages \cup InHand(t)
        /\ HeapPages' \cap InHand(t)' = {}
        /\ HeapPages' \cup InHand(t)' = ((HeapPages \cup InHand(t)) \cup none) \ gave
        /\ used' = (used \cup none) \ gave
    BY <1>5, <1>9, <1>11, <2>4, <2>5, <2>6
  <2> QED BY <1>1, <2>1, <2>2, <2>3, <2>7, CallerStep
<1>17. \A u \in Callers : NewOf(u)' = NewOf(u) /\ OldOf(u)' = OldOf(u)
  <2>1. NewOf(t) = NULL /\ OldOf(t) = NULL /\ NewOf(t)' = NULL
    BY <1>4, <1>5, <1>6, <1>12 DEF NewOf, OldOf, NoJob
  <2>2. OldOf(t)' = NULL
    <3>1. CASE place = "idle"
      BY <3>1, <1>3, <1>4, <1>6, <1>8 DEF OldOf, NoJob, NoBlock
    <3>2. CASE place # "idle"
      BY <3>2, <1>3, <1>8 DEF OldOf
    <3> QED BY <3>1, <3>2
  <2>3. \A u \in Callers : u # t => NewOf(u)' = NewOf(u) /\ OldOf(u)' = OldOf(u)
    BY <1>6, <1>8, ActorFacts DEF NewOf, OldOf
  <2> QED BY <2>1, <2>2, <2>3
<1>18. SpansApart' /\ ListsInv' /\ SoleOwner'
  BY <1>1, <1>5, <1>14, <1>17, SameHeapFacts, ListsStay, SoleStays
<1>19. OwnersInv'
  <2>1. \A u \in Callers : /\ NewOf(u) # NULL => job'[u].size = job[u].size
                           /\ OldOf(u) # NULL => job'[u].old = job[u].old
    BY <1>5, <1>6, <1>12 DEF NewOf, OldOf
  <2> QED BY <2>1, <1>1, <1>5, <1>14, <1>17, OwnersStay
<1>20. CountsInv'
  <2>1. \A u \in Callers : at[u] = "pop" => at'[u] = "pop" /\ job'[u].size = job[u].size
    BY <1>5, <1>6, <1>8, ActorFacts
  <2> QED BY <2>1, <1>1, <1>5, <1>14, CountsStay
<1>21. Kept'
  <2>1. \A u \in Callers : job'[u].op = "realloc" => job[u].op = "realloc" /\ job'[u].old = job[u].old
    BY <1>4, <1>6 DEF NoJob
  <2> QED BY <2>1, <1>1, <1>5, <1>14, KeptStays
<1>22. CallInv(t)' /\ LocksInv(t)' /\ HandsInv(t)'
  <2>1. \A x \in Pages : ArenaSpan(x)' = ArenaSpan(x)
    BY <1>14, SameHeapFacts
  <2>2. HandsInv(t)'
    BY <2>1, <1>3, <1>8, <1>10, <1>13 DEF HandsInv
  <2>3. LocksInv(t)'
    BY <1>3, <1>8 DEF LocksInv
  <2>4. CallInv(t)'
    BY <1>3, <1>4, <1>5, <1>6, <1>8, <1>12 DEF CallInv, Asking, Giving, NoJob
  <2> QED BY <2>2, <2>3, <2>4
<1>23. CallsInv'
  BY <1>1, <1>5, <1>6, <1>7, <1>8, <1>14, <1>22, ActorFacts, OthersCalls
<1>24. HeapOK'
  BY <1>15, <1>18, <1>19, <1>20, <1>21, <1>23 DEF HeapOK
<1> QED BY <1>16, <1>24

-----------------------------------------------------------------------------
(* The pages of an arena in use are not being given back, in part neither. *)
LEMMA SpanInUse ==
  ASSUME MemInv, HeapOK, NEW x \in Pages, InHeap(x), NEW u \in Callers
  PROVE  ArenaSpan(x) \cap Freeing(u) = {}
<1>1. HeapTypes /\ SpansApart /\ HandsInv(u)
  BY CallFacts DEF HeapOK
<1>2. x \in ArenaSpan(x) /\ x \notin Freeing(u)
  BY <1>1, SpanFacts DEF InHeap
<1>3. CASE at[u] = "fill"
  <2>1. PICK y \in Pages : ArenaSpan(y) = hand[u]
    BY <1>1, <1>3 DEF HandsInv
  <2>2. Freeing(u) = ArenaSpan(y)
    BY <1>3, <2>1 DEF Freeing
  <2>3. y # x
    BY <1>2, <2>2
  <2> QED BY <2>2, <2>3, <1>1 DEF SpansApart
<1>4. CASE at[u] = "clear"
  BY <1>1, <1>4 DEF HandsInv, Freeing
<1>5. CASE at[u] \notin {"fill", "clear"}
  BY <1>5 DEF Freeing
<1> QED BY <1>3, <1>4, <1>5

(* A step that begins to give back the pages that start at x.              *)
GivesBack(t, x) ==
  /\ UNCHANGED <<tableVars, load>>
  /\ InHeap(x) /\ at[t] \in {"free", "put"}
  /\ at' = [at EXCEPT ![t] = "fill"] /\ hand' = [hand EXCEPT ![t] = ArenaSpan(x)]
  /\ used' = used /\ poolLock' = poolLock /\ held' = held /\ job' = job
  /\ \A y \in Pages : SameShape(y)
  /\ \A y \in Pages : y # x => arena'[y] = arena[y]

(* What leaving an arena's pages to the pool does, for small and for big   *)
(* blocks.                                                                 *)
LEMMA GivesBackKeeps ==
  ASSUME MemInv, HeapOK, NEW t \in Callers, HeapTypes', NEW x \in Pages, GivesBack(t, x)
  PROVE  /\ MemInv' /\ SpansApart' /\ ~InHeap(x)'
         /\ \A y \in Pages : y # x => InHeap(y)' = InHeap(y)
         /\ \A y \in Pages : ArenaSpan(y)' = ArenaSpan(y) /\ Headers(y)' = Headers(y) /\
              arena'[y].desc = arena[y].desc
         /\ \A b \in Units : IsBlock(b) /\ PageOf(b) # x => IsBlock(b)' /\ BlockSize(b)' = BlockSize(b)
         /\ at'[t] = "fill" /\ hand'[t] = ArenaSpan(x)
         /\ \A u \in Callers : u # t => at'[u] = at[u] /\ hand'[u] = hand[u]
         /\ \A u \in Callers : NewOf(u)' = NewOf(u) /\ OldOf(u)' = (IF u = t THEN NULL ELSE OldOf(u))
<1>1. /\ t \in Actors /\ PoolTypes /\ HeapTypes /\ SpansApart /\ OwnInv
  BY ActorFacts DEF MemInv, HeapOK
<1>2. /\ UNCHANGED <<tableVars, load>> /\ InHeap(x) /\ at[t] \in {"free", "put"}
      /\ at' = [at EXCEPT ![t] = "fill"] /\ hand' = [hand EXCEPT ![t] = ArenaSpan(x)]
      /\ used' = used /\ poolLock' = poolLock /\ held' = held /\ job' = job
      /\ \A y \in Pages : SameShape(y)
  BY DEF GivesBack
<1>3. at'[t] = "fill" /\ hand'[t] = ArenaSpan(x) /\ \A u \in Callers : u # t => at'[u] = at[u] /\
        hand'[u] = hand[u]
  BY <1>1, <1>2, ActorFacts DEF PoolTypes
<1>4. Freeing(t) = {} /\ InHand(t) = {} /\ Freeing(t)' = ArenaSpan(x) /\ InHand(t)' = ArenaSpan(x)
  BY <1>2, <1>3, CallFacts DEF Freeing, InHand
<1>5. \A u \in Callers : u # t => Freeing(u)' = Freeing(u)
  BY <1>3 DEF Freeing
<1>6. ASSUME NEW y \in Pages
      PROVE  ArenaSpan(y)' = ArenaSpan(y) /\ Headers(y)' = Headers(y) /\ arena'[y].desc = arena[y].desc
  BY <1>2, ShapeStays DEF SameShape
<1>7. SpansApart'
  <2>1. \A y, z \in Pages : y # z => ArenaSpan(y)' \cap ArenaSpan(z)' = {}
    BY <1>1, <1>6 DEF SpansApart
  <2>2. \A y \in Pages : arena'[y].desc = Big => arena'[y].freeCnt # 0 /\ y + arena'[y].freeCnt <= NumPages
    BY <1>1, <1>2 DEF SpansApart, SameShape
  <2> QED BY <2>1, <2>2 DEF SpansApart
<1>8. x \in ArenaSpan(x) /\ ArenaSpan(x) \subseteq Pages /\ \A y \in ArenaSpan(x) : y # x =>
        arena[y].desc = NULL
  BY <1>1, <1>2, SpanFacts DEF InHeap
<1>9. ~InHeap(x)'
  BY <1>4, <1>8 DEF InHeap
<1>10. ASSUME NEW y \in Pages, y # x PROVE InHeap(y)' = InHeap(y)
  <2>1. CASE y \in ArenaSpan(x)
    BY <2>1, <1>6, <1>8, <1>10 DEF InHeap
  <2>2. CASE y \notin ArenaSpan(x)
    <3>1. \A u \in Callers : y \in Freeing(u)' <=> y \in Freeing(u)
      BY <2>2, <1>4, <1>5
    <3> QED BY <3>1, <1>6, InHeapStays
  <2> QED BY <2>1, <2>2
<1>11. ASSUME NEW b \in Units, IsBlock(b), PageOf(b) # x PROVE IsBlock(b)' /\ BlockSize(b)' = BlockSize(b)
  <2>1. PageOf(b) \in Pages
    BY UnitPage
  <2> QED BY <2>1, <1>2, <1>10, <1>11, BlockStays
<1>12. HeapPages' = HeapPages \ ArenaSpan(x) /\ ArenaSpan(x) \subseteq HeapPages
  <2>1. \A u \in Callers : ArenaSpan(x) \cap Freeing(u) = {}
    BY <1>2, SpanInUse
  <2>2. ArenaPages(x) = ArenaSpan(x)
    BY <2>1 DEF ArenaPages
  <2>3. \A q : (\E u \in Callers : q \in Freeing(u)') <=> q \in ArenaSpan(x) \/
          \E u \in Callers : q \in Freeing(u)
    BY <1>4, <1>5
  <2>4. \A y \in Pages : ArenaPages(y)' = ArenaPages(y) \ ArenaSpan(x)
    BY <2>3, <1>6 DEF ArenaPages
  <2> QED BY <2>2, <2>4 DEF HeapPages
<1>13. MemInv'
  <2>1. PoolTypes'
    BY <1>1, <1>2, <1>8 DEF PoolTypes, Places, PoolPlaces
  <2>2. OnlyCaller(t)
    BY <1>1, <1>2 DEF OnlyCaller, PoolTypes
  <2>3. HeapPages' \cap InHand(t)' = {} /\ HeapPages' \cup InHand(t)' = HeapPages \cup InHand(t)
    BY <1>4, <1>12
  <2>4. at[t] # "flip" /\ at'[t] # "flip" /\ hand'[t] # {}
    BY <1>2, <1>3, <1>8
  <2> QED BY <1>1, <1>2, <2>1, <2>2, <2>3, <2>4, QuietCall
<1>14. \A u \in Callers : NewOf(u)' = NewOf(u) /\ OldOf(u)' = (IF u = t THEN NULL ELSE OldOf(u))
  BY <1>2, <1>3 DEF NewOf, OldOf
<1> QED BY <1>3, <1>6, <1>7, <1>9, <1>10, <1>11, <1>13, <1>14

(* The owners of blocks and the calls of the others, when no other block   *)
(* that somebody has is in those pages.                                    *)
LEMMA GivesBackOwners ==
  ASSUME MemInv, HeapOK, NEW t \in Callers, HeapTypes', NEW x \in Pages, GivesBack(t, x),
         \A h \in held : PageOf(h.block) # x,
         \A u \in Callers : NewOf(u) # NULL => PageOf(NewOf(u)) # x,
         \A u \in Callers : u # t /\ OldOf(u) # NULL => PageOf(OldOf(u)) # x,
         \A b : NotListed(b) /\ b # OldOf(t) => NotListed(b)',
         \A d \in Descs : \A u \in Callers : u # t /\ descLock[d] = u => descLock'[d] = u /\
           freeList'[d] = freeList[d],
         arena[x].desc \in Descs => descLock'[arena[x].desc] = t
  PROVE  OwnersInv' /\ SoleOwner' /\ CallsInv'
<1>1. HeapTypes /\ SpansApart /\ OwnersInv /\ SoleOwner /\ CallsInv
  BY DEF HeapOK
<1>2. held' = held /\ job' = job /\ at[t] \in {"free", "put"}
  BY DEF GivesBack
<1>3. /\ \A y \in Pages : ArenaSpan(y)' = ArenaSpan(y) /\ arena'[y].desc = arena[y].desc
      /\ \A b \in Units : IsBlock(b) /\ PageOf(b) # x => IsBlock(b)' /\ BlockSize(b)' = BlockSize(b)
      /\ at'[t] = "fill" /\ hand'[t] = ArenaSpan(x)
      /\ \A u \in Callers : u # t => at'[u] = at[u] /\ hand'[u] = hand[u]
      /\ \A u \in Callers : NewOf(u)' = NewOf(u) /\ OldOf(u)' = (IF u = t THEN NULL ELSE OldOf(u))
  BY GivesBackKeeps
<1>4. /\ OldOf(t) = job[t].old.block /\ OldOf(t) # NULL /\ NewOf(t) = NULL /\
           job[t].op = "free" /\ job[t].old \in Owned
      /\ \A h \in held : h.block # OldOf(t)
      /\ \A u \in Callers : NewOf(u) # OldOf(t) /\ (u # t => OldOf(u) # OldOf(t))
  BY <1>2, OldFacts
<1>5. OwnersInv'
  <2>1. ASSUME NEW h \in held' PROVE IsBlock(h.block)' /\ h.size <= BlockSize(h.block)'
    <3>1. h \in held /\ h.block \in Units
      BY <2>1, <1>1, <1>2 DEF HeapTypes, Owned
    <3> QED BY <3>1, <1>1, <1>3 DEF OwnersInv
  <2>2. ASSUME NEW u \in Callers, NEW k \in Units, NewOf(u)' = k
        PROVE  IsBlock(k)' /\ job'[u].size <= BlockSize(k)'
    BY <2>2, <1>1, <1>2, <1>3, NoBlockFacts DEF OwnersInv
  <2>3. ASSUME NEW u \in Callers, NEW k \in Units, OldOf(u)' = k
        PROVE  IsBlock(k)' /\ job'[u].old.size <= BlockSize(k)'
    <3>1. u # t /\ OldOf(u) = k
      BY <2>3, <1>3, NoBlockFacts
    <3> QED BY <3>1, <1>1, <1>2, <1>3, NoBlockFacts DEF OwnersInv
  <2> QED BY <2>1, <2>2, <2>3, OwnersAreNext
<1>6. SoleOwner'
  <2>1. ASSUME NEW u \in Callers
        PROVE  /\ NewOf(u)' # NULL => NotListed(NewOf(u))'
               /\ OldOf(u)' # NULL => NotListed(OldOf(u))'
    <3>1. PICK k, l : k = NewOf(u)' /\ l = OldOf(u)'
      OBVIOUS
    <3>2. (k # NULL => NotListed(k)') /\ (l # NULL => NotListed(l)')
      BY <3>1, <1>1, <1>3, <1>4 DEF SoleOwner
    <3> QED BY <3>1, <3>2 DEF NotListed
  <2>2. \A h \in held : NotListed(h.block)'
    BY <1>1, <1>4 DEF SoleOwner
  <2>3. \A h \in held : \A u \in Callers : NewOf(u)' # h.block /\ OldOf(u)' # h.block
    <3> SUFFICES ASSUME NEW h \in held, NEW u \in Callers PROVE NewOf(u)' # h.block /\ OldOf(u)' # h.block
      OBVIOUS
    <3>1. h.block # NULL
      BY <1>1, OwnedNat, NoBlockFacts DEF HeapTypes
    <3> QED BY <3>1, <1>1, <1>3 DEF SoleOwner
  <2>4. ASSUME NEW a \in Callers, NEW u \in Callers
        PROVE  /\ NewOf(a)' # NULL => NewOf(a)' # OldOf(u)'
               /\ NewOf(a)' # NULL /\ NewOf(a)' = NewOf(u)' => a = u
               /\ OldOf(a)' # NULL /\ OldOf(a)' = OldOf(u)' => a = u
    BY <1>1, <1>3 DEF SoleOwner
  <2>5. \A h, k \in held : h.block = k.block => h = k
    BY <1>1 DEF SoleOwner
  <2> QED BY <2>1, <2>2, <2>3, <2>4, <2>5, <1>2 DEF SoleOwner
<1>7. CallsInv'
  <2>1. ASSUME NEW u \in Callers, u # t PROVE CallInv(u)' /\ LocksInv(u)' /\ HandsInv(u)'
    <3>1. CallInv(u) /\ LocksInv(u) /\ HandsInv(u)
      BY <1>1 DEF CallsInv
    <3>2. at'[u] = at[u] /\ job'[u] = job[u] /\ hand'[u] = hand[u]
      BY <1>2, <1>3, <2>1
    <3>3. \A d \in Descs : descLock[d] = u => descLock'[d] = u /\ freeList'[d] = freeList[d]
      BY <2>1
    <3>4. LocksInv(u)'
      BY <1>1, <3>1, <3>2, <3>3, LocksStay
    <3>5. HandsInv(u)'
      <4>1. at[u] = "clear" => \A y \in Pages : ArenaSpan(y)' \cap hand[u] = {}
        BY <1>3, <3>1 DEF HandsInv
      <4> QED BY <4>1, <1>1, <1>3, <3>1, <3>2, <3>3, HandsStay
    <3>6. CallInv(u)'
      <4>1. at[u] = "put" => PageOf(job[u].old.block) \in Pages /\
              arena[PageOf(job[u].old.block)].desc # Big
        BY <3>1, UnitPage DEF CallInv, Giving, Owned
      <4>2. at[u] = "put" => arena'[PageOf(job[u].old.block)].desc # Big
        BY <4>1, <1>3
      <4> QED BY <4>2, <1>1, <3>1, <3>2, CallStays
    <3> QED BY <3>4, <3>5, <3>6
  <2>2. CallInv(t)
    BY CallFacts
  <2>3. CallInv(t)'
    BY <2>2, <1>2, <1>3, <1>4 DEF CallInv, Asking, Giving, NewOf
  <2>4. LocksInv(t)'
    BY <1>3 DEF LocksInv
  <2>5. HandsInv(t)'
    BY <1>3 DEF HandsInv
  <2> QED BY <2>1, <2>3, <2>4, <2>5 DEF CallsInv
<1> QED BY <1>5, <1>6, <1>7

-----------------------------------------------------------------------------
(* The counters of the other arenas.                                       *)
LEMMA GivesBackCounts ==
  ASSUME MemInv, HeapOK, NEW t \in Callers, HeapTypes', NEW x \in Pages, GivesBack(t, x),
         \A d \in Descs : \A y \in Pages : y # x => HoldsAt(d, y)' = HoldsAt(d, y),
         \A d \in Descs : \A u \in Callers : u # t /\ descLock[d] = u => freeList'[d] = freeList[d]
  PROVE  CountsInv'
<1>1. HeapTypes /\ CountsInv /\ CallsInv
  BY DEF HeapOK
<1>2. job' = job /\ at[t] \in {"free", "put"} /\ \A y \in Pages : y # x => arena'[y] = arena[y]
  BY DEF GivesBack
<1>3. /\ ~InHeap(x)' /\ \A y \in Pages : y # x => InHeap(y)' = InHeap(y)
      /\ \A u \in Callers : u # t => at'[u] = at[u]
  BY GivesBackKeeps
<1> SUFFICES ASSUME NEW y \in Pages, InHeap(y)', arena'[y].desc \in Descs
             PROVE  /\ arena'[y].freeCnt = Cardinality(HoldsAt(arena[y].desc, y)')
                    /\ arena'[y].freeCnt = BlocksPerArena(arena'[y].desc) =>
                         \E u \in Callers : /\ at'[u] = "pop" /\ DescFor(job'[u].size) = arena'[y].desc
                                            /\ y = PageOf(Head(freeList'[arena'[y].desc]))
  BY DEF CountsInv, HoldsAt
<1>4. y # x /\ InHeap(y) /\ arena'[y] = arena[y]
  BY <1>2, <1>3
<1>5. PICK f : f = arena[y].desc
  OBVIOUS
<1>6. f \in Descs /\ arena'[y].desc = f
  BY <1>4, <1>5
<1>7. HoldsAt(arena[y].desc, y)' = HoldsAt(f, y)
  <2>1. HoldsAt(arena[y].desc, y)' = HoldsAt(f, y)'
    BY <1>6 DEF HoldsAt
  <2> QED BY <2>1, <1>4, <1>6
<1>8. arena[y].freeCnt = Cardinality(HoldsAt(f, y))
      /\ (arena[y].freeCnt = BlocksPerArena(f) =>
            \E u \in Callers : at[u] = "pop" /\ DescFor(job[u].size) = f /\ y = PageOf(Head(freeList[f])))
  BY <1>1, <1>4, <1>5, <1>6 DEF CountsInv
<1>9. ASSUME NEW u \in Callers, at[u] = "pop", DescFor(job[u].size) = f
      PROVE  at'[u] = "pop" /\ freeList'[f] = freeList[f]
  <2>1. u # t /\ LocksInv(u)
    BY <1>1, <1>2, <1>9 DEF CallsInv
  <2>2. descLock[f] = u
    BY <2>1, <1>6, <1>9, Sizing DEF LocksInv
  <2> QED BY <2>1, <2>2, <1>3, <1>6, <1>9
<1>10. arena'[y].freeCnt = BlocksPerArena(f) =>
         \E u \in Callers : at'[u] = "pop" /\ DescFor(job'[u].size) = f /\ y = PageOf(Head(freeList'[f]))
  <2> SUFFICES ASSUME arena'[y].freeCnt = BlocksPerArena(f)
               PROVE  \E u \in Callers : at'[u] = "pop" /\ DescFor(job'[u].size) = f /\
                        y = PageOf(Head(freeList'[f]))
    OBVIOUS
  <2>1. PICK u \in Callers : at[u] = "pop" /\ DescFor(job[u].size) = f /\ y = PageOf(Head(freeList[f]))
    BY <1>4, <1>8
  <2>2. at'[u] = "pop" /\ freeList'[f] = freeList[f]
    BY <2>1, <1>9
  <2> QED BY <2>1, <2>2, <1>2
<1> QED BY <1>4, <1>6, <1>7, <1>8, <1>10

(* What of Kept is about the blocks that somebody has and the headers.     *)
LEMMA GivesBackKept ==
  ASSUME MemInv, HeapOK, NEW t \in Callers, HeapTypes', NEW x \in Pages, GivesBack(t, x),
         \A h \in held : Keeps(h)',
         \A u \in Callers : job[u].op = "realloc" => Keeps(job[u].old)',
         \A y \in Pages : \A u \in Headers(y) : mem'[u] = mem[u],
         \A d \in Descs : \A b \in Elems(freeList'[d]) : mem'[b] = "link"
  PROVE  Kept'
<1>1. Kept /\ held' = held /\ job' = job
  BY DEF HeapOK, GivesBack
<1>2. HeldKept'
  BY <1>1 DEF HeldKept
<1>3. OldKept'
  BY <1>1 DEF OldKept, Keeps
<1>4. HeadersKept'
  <2>1. \A y \in Pages : Headers(y)' = Headers(y)
    BY GivesBackKeeps
  <2> QED BY <2>1, <1>1 DEF Kept, HeadersKept
<1>5. LinksKept'
  BY DEF LinksKept
<1> QED BY <1>2, <1>3, <1>4, <1>5 DEF Kept

(* free of a big block: its pages go back at once.                         *)
LEMMA GiveBigKeeps ==
  ASSUME MemInv, HeapOK, NEW t \in Callers, UNCHANGED <<tableVars, load>>, FreeClear(t),
         arena[PageOf(job[t].old.block)].desc = Big
  PROVE  MemInv' /\ HeapOK'
<1>1. /\ t \in Actors /\ PoolTypes /\ HeapTypes /\ SpansApart /\ ListsInv /\ OwnersInv /\ SoleOwner
      /\ CountsInv /\ CallsInv /\ Kept
  BY ActorFacts DEF MemInv, HeapOK
<1>2. PICK b, x : b = job[t].old.block /\ x = PageOf(b)
  OBVIOUS
<1>3. /\ at[t] = "free" /\ at' = [at EXCEPT ![t] = "fill"] /\ mem' = mem
      /\ hand' = [hand EXCEPT ![t] = Span(x, arena[x].freeCnt)]
      /\ used' = used /\ poolLock' = poolLock /\ arena' = arena
      /\ freeList' = freeList /\ descLock' = descLock /\ held' = held /\ job' = job
  BY <1>2 DEF FreeClear, Goto
<1>4. /\ OldOf(t) = b /\ b \in Units /\ IsBlock(b) /\ x \in Pages /\ InHeap(x) /\ NotListed(b)
      /\ \A h \in held : h.block # b
      /\ \A u \in Callers : NewOf(u) # b /\ (u # t => OldOf(u) # b)
  BY <1>2, <1>3, OldFacts
<1>5. arena[x].desc = Big /\ ArenaSpan(x) = Span(x, arena[x].freeCnt)
  BY <1>1, <1>2, <1>4, ArenaFacts
<1>6. HeapTypes'
  BY <1>1, <1>3 DEF HeapTypes
<1>7. GivesBack(t, x)
  BY <1>3, <1>4, <1>5 DEF GivesBack, SameShape
<1>8. /\ MemInv' /\ SpansApart'
      /\ \A c \in Units : IsBlock(c) /\ PageOf(c) # x => IsBlock(c)'
  BY <1>4, <1>6, <1>7, GivesBackKeeps
<1>9. ASSUME NEW c \in Units, IsBlock(c), c # b PROVE PageOf(c) # x
  <2>1. b = x * PageSize + HeaderSize
    BY <1>2, <1>4, <1>5 DEF IsBlock
  <2>2. PageOf(c) = x => c = x * PageSize + HeaderSize
    BY <1>5, <1>9 DEF IsBlock
  <2> QED BY <2>1, <2>2, <1>9
<1>10. \A h \in held : PageOf(h.block) # x
  BY <1>1, <1>4, <1>9, OwnedNat DEF HeapTypes, OwnersInv
<1>11. \A u \in Callers : NewOf(u) # NULL => PageOf(NewOf(u)) # x
  BY <1>1, <1>4, <1>9, JobTypes DEF OwnersInv, NewOf
<1>12. \A u \in Callers : u # t /\ OldOf(u) # NULL => PageOf(OldOf(u)) # x
  BY <1>1, <1>4, <1>9, JobTypes DEF OwnersInv
<1>13. \A c : NotListed(c)' = NotListed(c)
  BY <1>3 DEF NotListed
<1>14. OwnersInv' /\ SoleOwner' /\ CallsInv'
  BY <1>3, <1>4, <1>5, <1>6, <1>7, <1>10, <1>11, <1>12, <1>13, Sizing, GivesBackOwners
<1>15. CountsInv'
  BY <1>3, <1>4, <1>6, <1>7, GivesBackCounts DEF HoldsAt
<1>16. ListsInv'
  <2> SUFFICES ASSUME NEW d \in Descs
               PROVE  /\ NoDuplicates(freeList[d])
                      /\ \A c \in Elems(freeList[d]) : IsBlock(c)' /\ arena[PageOf(c)].desc = d
    BY <1>3 DEF ListsInv
  <2>1. NoDuplicates(freeList[d]) /\ \A c \in Elems(freeList[d]) : c \in Units /\ IsBlock(c) /\
          arena[PageOf(c)].desc = d
    BY <1>1 DEF ListsInv, HeapTypes, Elems
  <2>2. \A c \in Elems(freeList[d]) : c # b
    BY <1>4 DEF NotListed
  <2> QED BY <2>1, <2>2, <1>8, <1>9
<1>17. Kept'
  <2>1. \A h \in held : Keeps(h)'
    BY <1>1, <1>3 DEF Kept, HeldKept, Keeps
  <2>2. \A u \in Callers : job[u].op = "realloc" => Keeps(job[u].old)'
    BY <1>1, <1>3 DEF Kept, OldKept, Keeps
  <2>3. \A d \in Descs : \A c \in Elems(freeList'[d]) : mem'[c] = "link"
    BY <1>1, <1>3 DEF Kept, LinksKept
  <2> QED BY <2>1, <2>2, <2>3, <1>3, <1>4, <1>6, <1>7, GivesBackKept
<1> QED BY <1>6, <1>8, <1>14, <1>15, <1>16, <1>17 DEF HeapOK

-----------------------------------------------------------------------------
(* The arena of the block that is freed, and the list it joins.            *)
PutIs(b, x, d) ==
  /\ d \in Descs /\ d # Big /\ d # NULL /\ x \in Pages /\ b \in Units /\ IsBlock(b) /\ BlockSize(b) = d
  /\ InHeap(x)
  /\ <<b>> \o freeList[d] \in Seq(Units) /\ NoDuplicates(<<b>> \o freeList[d])
  /\ Elems(<<b>> \o freeList[d]) = Elems(freeList[d]) \cup {b}
  /\ Cardinality(HoldsAt(d, x) \cup {b}) = arena[x].freeCnt + 1
  /\ Empty(x) => Elems(Blocks(x, d)) = HoldsAt(d, x) \cup {b}
  /\ ~Empty(x) => arena[x].freeCnt + 1 # BlocksPerArena(d)
  /\ [arena[x] EXCEPT !.freeCnt = arena[x].freeCnt + 1] \in Arenas

(* What free finds when it puts a small block on the free list.            *)
LEMMA PutFacts ==
  ASSUME HeapOK, NEW t \in Callers, at[t] = "put", NEW b, NEW x, NEW d,
         b = job[t].old.block, x = PageOf(b), d = arena[x].desc
  PROVE  PutIs(b, x, d)
<1>1. HeapTypes /\ SpansApart /\ ListsInv /\ CountsInv /\ CallInv(t)
  BY CallFacts DEF HeapOK
<1>2. b \in Units /\ IsBlock(b) /\ x \in Pages /\ InHeap(x) /\ NotListed(b)
  BY OldFacts
<1>3. d # Big
  BY <1>1 DEF CallInv
<1>4. d \in Descs /\ d # NULL
  BY <1>1, <1>2, <1>3, ArenaFacts DEF InHeap
<1>5. BlockSize(b) = d
  BY <1>3 DEF BlockSize
<1>6. PICK q : q = freeList[d]
  OBVIOUS
<1>7. q \in Seq(Units) /\ NoDuplicates(q) /\ b \notin Elems(q)
  BY <1>1, <1>2, <1>4, <1>6 DEF HeapTypes, ListsInv, NotListed
<1>8. <<b>> \o q \in Seq(Units) /\ NoDuplicates(<<b>> \o q) /\ Elems(<<b>> \o q) = Elems(q) \cup {b}
  BY <1>2, <1>7, PushedFront
<1>9. PICK S, B, c : S = HoldsAt(d, x) /\ B = Elems(Blocks(x, d)) /\ c = arena[x].freeCnt
  OBVIOUS
<1>10. IsFiniteSet(S) /\ S \subseteq B /\ c = Cardinality(S) /\ c \in Nat
  BY <1>1, <1>2, <1>4, <1>9, ListedBlocks DEF CountsInv
<1>11. IsFiniteSet(B) /\ Cardinality(B) = BlocksPerArena(d) /\ b \in B
  <2>1. \E i \in 0..(BlocksPerArena(d) - 1) : b = BlockAt(x, d, i)
    BY <1>2, <1>3 DEF IsBlock
  <2>2. /\ \A k : k \in Elems(Blocks(x, d)) <=> \E i \in 0..(BlocksPerArena(d) - 1) : k = BlockAt(x, d, i)
        /\ IsFiniteSet(Elems(Blocks(x, d))) /\ Cardinality(Elems(Blocks(x, d))) = BlocksPerArena(d)
    BY <1>2, <1>4, BlocksSeq
  <2>3. b \in Elems(Blocks(x, d))
    BY ONLY <2>1, <2>2
  <2>4. B = Elems(Blocks(x, d))
    BY <1>9
  <2> QED BY ONLY <2>2, <2>3, <2>4
<1>12. b \notin S
  BY <1>6, <1>7, <1>9 DEF HoldsAt
<1>13. PICK T : T = S \cup {b}
  OBVIOUS
<1>14. IsFiniteSet(T) /\ Cardinality(T) = c + 1
  BY <1>10, <1>12, <1>13, FS_AddElement
<1>15. T \subseteq B
  BY <1>10, <1>11, <1>13
<1>16. c + 1 <= BlocksPerArena(d) /\ (c + 1 = BlocksPerArena(d) => T = B)
  BY <1>11, <1>14, <1>15, FS_Subset
<1>17. BlocksPerArena(d) \in Nat
  BY <1>4, PerArena
<1>18. Empty(x) <=> c + 1 >= BlocksPerArena(d)
  BY <1>9 DEF Empty, FreedCount
<1>19. (Empty(x) => T = B) /\ (~Empty(x) => c + 1 # BlocksPerArena(d))
  BY <1>10, <1>16, <1>17, <1>18
<1>20. [arena[x] EXCEPT !.freeCnt = c + 1] \in Arenas
  <2>1. arena[x] \in Arenas
    BY <1>1, <1>2 DEF HeapTypes
  <2>2. PICK m : m = NumPages * PageSize
    OBVIOUS
  <2>3. 1 * PageSize <= NumPages * PageSize
    BY Sizing, TimesMono
  <2>4. m \in Nat /\ PageSize <= m
    BY <2>2, <2>3, Sizing
  <2>5. c + 1 <= PageSize
    BY <1>4, <1>10, <1>16, <1>17, PerArena, Sizing
  <2>6. c + 1 \in 0..m
    BY <2>4, <2>5, <1>10, Sizing
  <2> QED BY <2>1, <2>2, <2>6 DEF Arenas
<1> QED BY <1>2, <1>3, <1>4, <1>5, <1>6, <1>8, <1>9, <1>13, <1>14, <1>19, <1>20 DEF PutIs

(* A free block is a link in memory.                                       *)
LEMMA LinkWritten ==
  ASSUME HeapTypes, SpansApart, NEW b \in Units, IsBlock(b), mem' = [mem EXCEPT ![b] = "link"]
  PROVE  /\ mem' \in [Units -> Contents] /\ mem'[b] = "link"
         /\ \A h \in Owned : IsBlock(h.block) /\ h.size <= BlockSize(h.block) /\ h.block # b /\
              Keeps(h) => Keeps(h)'
         /\ \A c \in Units : IsBlock(c) /\ c # b => mem'[c] = mem[c]
         /\ \A x \in Pages : \A u \in Headers(x) : mem'[u] = mem[u]
<1>1. mem' \in [Units -> Contents] /\ mem'[b] = "link"
  BY DEF HeapTypes, Contents
<1>2. \A u \in Units : u \notin Span(b, BlockSize(b)) => mem'[u] = mem[u]
  BY BlockFirst DEF HeapTypes
<1> QED BY <1>1, <1>2, WritesApart

(* The block joins its list.                                               *)
LEMMA PutKeeps ==
  ASSUME MemInv, HeapOK, NEW t \in Callers, UNCHANGED <<tableVars, load>>, FreePut(t),
         ~Empty(PageOf(job[t].old.block))
  PROVE  MemInv' /\ HeapOK'
<1>1. /\ t \in Actors /\ PoolTypes /\ HeapTypes /\ SpansApart /\ ListsInv /\ OwnersInv /\ SoleOwner
      /\ CountsInv /\ CallsInv /\ Kept
  BY ActorFacts DEF MemInv, HeapOK
<1>2. PICK b, x : b = job[t].old.block /\ x = PageOf(b)
  OBVIOUS
<1>3. PICK d, c : d = arena[x].desc /\ c = arena[x].freeCnt
  OBVIOUS
<1>4. PICK q, e : q = <<b>> \o freeList[d] /\ e = [arena[x] EXCEPT !.freeCnt = arena[x].freeCnt + 1]
  OBVIOUS
<1>5. /\ at[t] = "put" /\ descLock[d] = Nobody /\
           arena' = [arena EXCEPT ![x].freeCnt = arena[x].freeCnt + 1]
      /\ mem' = [mem EXCEPT ![b] = "link"] /\ freeList' = [freeList EXCEPT ![d] = q]
      /\ job' = [job EXCEPT ![t] = NoJob] /\ at' = [at EXCEPT ![t] = "idle"]
      /\ hand' = hand /\ descLock' = descLock /\ used' = used /\ poolLock' = poolLock /\ held' = held
  BY <1>2, <1>3, <1>4 DEF FreePut, FreedCount, Goto
<1>6. /\ d \in Descs /\ d # Big /\ d # NULL /\ x \in Pages /\ b \in Units /\ IsBlock(b)
      /\ q \in Seq(Units) /\ NoDuplicates(q) /\ Elems(q) = Elems(freeList[d]) \cup {b}
      /\ Cardinality(HoldsAt(d, x) \cup {b}) = c + 1
      /\ c + 1 # BlocksPerArena(d) /\ e \in Arenas
  <2>1. PutIs(b, x, d) /\ ~Empty(x)
    BY <1>2, <1>3, <1>5, PutFacts
  <2> QED BY <2>1, <1>3, <1>4 DEF PutIs
<1>7. /\ OldOf(t) = b /\ NewOf(t) = NULL /\ InHand(t) = {} /\ hand[t] = {} /\ Freeing(t) = {}
      /\ job[t].op = "free" /\ \A h \in held : h.block # b
      /\ \A u \in Callers : NewOf(u) # b /\ (u # t => OldOf(u) # b)
  BY <1>2, <1>5, OldFacts
<1>8. at'[t] = "idle" /\ job'[t] = NoJob /\ \A u \in Callers : u # t => at'[u] = at[u] /\ job'[u] = job[u]
  BY <1>1, <1>5, ActorFacts DEF PoolTypes, HeapTypes
<1>9. /\ arena'[x] = e /\ e.desc = d /\ e.freeCnt = c + 1 /\ \A y \in Pages : y # x => arena'[y] = arena[y]
      /\ arena' \in [Pages -> Arenas]
  <2>1. arena[x] \in Arenas
    BY <1>1, <1>6 DEF HeapTypes
  <2>2. arena' = [arena EXCEPT ![x] = e]
    BY <1>4, <1>5
  <2>3. e.desc = d /\ e.freeCnt = c + 1
    BY <2>1, <1>3, <1>4 DEF Arenas
  <2> QED BY <2>2, <2>3, <1>1, <1>6 DEF HeapTypes
<1>10. freeList'[d] = q /\ \A y \in Descs : y # d => freeList'[y] = freeList[y]
  BY <1>1, <1>5, <1>6 DEF HeapTypes
<1>11. /\ mem' \in [Units -> Contents] /\ mem'[b] = "link"
       /\ \A h \in Owned : IsBlock(h.block) /\ h.size <= BlockSize(h.block) /\ h.block # b /\
            Keeps(h) => Keeps(h)'
       /\ \A k \in Units : IsBlock(k) /\ k # b => mem'[k] = mem[k]
       /\ \A y \in Pages : \A u \in Headers(y) : mem'[u] = mem[u]
  BY <1>1, <1>5, <1>6, LinkWritten
<1>12. HeapTypes'
  <2>1. freeList' \in [Descs -> Seq(Units)]
    BY <1>1, <1>5, <1>6 DEF HeapTypes
  <2>2. job' \in [Callers -> Jobs]
    <3>1. NoJob \in Jobs
      BY DEF NoJob, Jobs
    <3> QED BY <3>1, <1>1, <1>5 DEF HeapTypes
  <2> QED BY <2>1, <2>2, <1>1, <1>5, <1>9, <1>11 DEF HeapTypes
<1>13. SameHeap
  <2>1. \A y \in Pages : SameShape(y)
    BY <1>3, <1>6, <1>9 DEF SameShape
  <2>2. \A u \in Callers : Freeing(u)' = Freeing(u)
    BY <1>5, <1>7, <1>8 DEF Freeing
  <2> QED BY <2>1, <2>2, SameHeapIs
<1>14. MemInv'
  <2>1. "idle" \in Places
    BY DEF Places
  <2> QED BY <2>1, <1>5, <1>7, <1>13, NoPagesMoved
<1>15. SpansApart'
  BY <1>1, <1>13, SameHeapFacts
<1>16. ASSUME NEW y \in Descs
       PROVE  /\ freeList'[y] \in Seq(Units) /\ NoDuplicates(freeList'[y])
              /\ Elems(freeList'[y]) = IF y = d THEN Elems(freeList[y]) \cup {b} ELSE Elems(freeList[y])
  BY <1>1, <1>6, <1>10 DEF ListsInv, HeapTypes
<1>17. ListsInv'
  <2> SUFFICES ASSUME NEW y \in Descs, NEW k \in Elems(freeList'[y]) PROVE IsBlock(k)' /\
                        arena'[PageOf(k)].desc = y
    BY <1>16 DEF ListsInv
  <2>1. k \in Units /\ IsBlock(k) /\ arena[PageOf(k)].desc = y
    <3>1. CASE k \in Elems(freeList[y])
      BY <3>1, <1>1 DEF ListsInv, HeapTypes, Elems
    <3>2. CASE k \notin Elems(freeList[y])
      BY <3>2, <1>2, <1>3, <1>6, <1>16
    <3> QED BY <3>1, <3>2
  <2> QED BY <2>1, <1>13, UnitPage, SameHeapFacts
<1>18. OldOf(t)' = NULL /\ \A u \in Callers : NewOf(u)' = NewOf(u) /\ (u # t => OldOf(u)' = OldOf(u))
  BY <1>7, <1>8 DEF NewOf, OldOf, NoJob, NoBlock
<1>19. OwnersInv'
  <2>1. ASSUME NEW h \in held' PROVE IsBlock(h.block)' /\ h.size <= BlockSize(h.block)'
    <3>1. h \in held /\ h.block \in Units
      BY <2>1, <1>1, <1>5 DEF HeapTypes, Owned
    <3> QED BY <3>1, <1>1, <1>13, SameHeapFacts DEF OwnersInv
  <2>2. ASSUME NEW u \in Callers, NEW k \in Units, NewOf(u)' = k
        PROVE  IsBlock(k)' /\ job'[u].size <= BlockSize(k)'
    <3>1. u # t /\ NewOf(u) = k
      BY <2>2, <1>7, <1>18, NoBlockFacts
    <3> QED BY <3>1, <1>1, <1>8, <1>13, NoBlockFacts, SameHeapFacts DEF OwnersInv
  <2>3. ASSUME NEW u \in Callers, NEW k \in Units, OldOf(u)' = k
        PROVE  IsBlock(k)' /\ job'[u].old.size <= BlockSize(k)'
    <3>1. u # t /\ OldOf(u) = k
      BY <2>3, <1>18, NoBlockFacts
    <3> QED BY <3>1, <1>1, <1>8, <1>13, NoBlockFacts, SameHeapFacts DEF OwnersInv
  <2> QED BY <1>12, <2>1, <2>2, <2>3, OwnersAreNext
<1>20. \A k : NotListed(k) /\ k # b => NotListed(k)'
  BY <1>16 DEF NotListed
<1>21. SoleOwner'
  <2>1. ASSUME NEW u \in Callers
        PROVE  /\ NewOf(u)' # NULL => NotListed(NewOf(u))'
               /\ OldOf(u)' # NULL => NotListed(OldOf(u))'
    <3>1. PICK k, l : k = NewOf(u)' /\ l = OldOf(u)'
      OBVIOUS
    <3>2. (k # NULL => NotListed(k)') /\ (l # NULL => NotListed(l)')
      BY <3>1, <1>1, <1>7, <1>18, <1>20 DEF SoleOwner
    <3> QED BY <3>1, <3>2 DEF NotListed
  <2>2. \A h \in held : NotListed(h.block)'
    BY <1>1, <1>7, <1>20 DEF SoleOwner
  <2>3. \A h \in held : \A u \in Callers : NewOf(u)' # h.block /\ OldOf(u)' # h.block
    <3> SUFFICES ASSUME NEW h \in held, NEW u \in Callers PROVE NewOf(u)' # h.block /\ OldOf(u)' # h.block
      OBVIOUS
    <3>1. h.block # NULL
      BY <1>1, OwnedNat, NoBlockFacts DEF HeapTypes
    <3> QED BY <3>1, <1>1, <1>18 DEF SoleOwner
  <2>4. ASSUME NEW a \in Callers, NEW u \in Callers
        PROVE  /\ NewOf(a)' # NULL => NewOf(a)' # OldOf(u)'
               /\ NewOf(a)' # NULL /\ NewOf(a)' = NewOf(u)' => a = u
               /\ OldOf(a)' # NULL /\ OldOf(a)' = OldOf(u)' => a = u
    BY <1>1, <1>18 DEF SoleOwner
  <2>5. \A h, k \in held : h.block = k.block => h = k
    BY <1>1 DEF SoleOwner
  <2> QED BY <2>1, <2>2, <2>3, <2>4, <2>5, <1>5 DEF SoleOwner
<1>22. ASSUME NEW u \in Callers PROVE descLock[d] # u
  BY <1>5, ActorFacts, PoolAssumption
<1>23. CountsInv'
  <2> SUFFICES ASSUME NEW y \in Pages, InHeap(y)', arena'[y].desc \in Descs
               PROVE  /\ arena'[y].freeCnt = Cardinality(HoldsAt(arena[y].desc, y)')
                      /\ arena'[y].freeCnt = BlocksPerArena(arena'[y].desc) =>
                           \E u \in Callers : /\ at'[u] = "pop" /\ DescFor(job'[u].size) = arena'[y].desc
                                              /\ y = PageOf(Head(freeList'[arena'[y].desc]))
    BY DEF CountsInv, HoldsAt
  <2>1. InHeap(y) /\ arena'[y].desc = arena[y].desc
    BY <1>13, SameHeapFacts
  <2>2. PICK f : f = arena[y].desc
    OBVIOUS
  <2>3. f \in Descs /\ arena'[y].desc = f
    BY <2>1, <2>2
  <2>4. HoldsAt(arena[y].desc, y)' = {k \in Elems(freeList'[f]) : PageOf(k) = y}
    BY <2>3 DEF HoldsAt
  <2>5. arena[y].freeCnt = Cardinality(HoldsAt(f, y))
        /\ (arena[y].freeCnt = BlocksPerArena(f) =>
              \E u \in Callers : at[u] = "pop" /\ DescFor(job[u].size) = f /\ y = PageOf(Head(freeList[f])))
    BY <2>1, <2>2, <2>3, <1>1 DEF CountsInv
  <2>6. ASSUME NEW u \in Callers, at[u] = "pop", DescFor(job[u].size) = f
        PROVE  descLock[f] = u /\ at'[u] = "pop" /\ job'[u] = job[u]
    <3>1. u # t /\ LocksInv(u)
      BY <2>6, <1>1, <1>5 DEF CallsInv
    <3> QED BY <3>1, <2>3, <2>6, <1>8, Sizing DEF LocksInv
  <2>7. arena'[y].freeCnt = Cardinality({k \in Elems(freeList'[f]) : PageOf(k) = y})
        /\ (arena'[y].freeCnt = BlocksPerArena(f) =>
              \E u \in Callers : at'[u] = "pop" /\ DescFor(job'[u].size) = f /\
                y = PageOf(Head(freeList'[f])))
    <3>1. CASE y = x
      <4>1. f = d /\ arena'[y].freeCnt = c + 1
        BY <3>1, <2>2, <1>3, <1>9
      <4>2. {k \in Elems(freeList'[f]) : PageOf(k) = y} = HoldsAt(d, x) \cup {b}
        BY <3>1, <4>1, <1>2, <1>6, <1>16 DEF HoldsAt
      <4> QED BY <4>1, <4>2, <1>6
    <3>2. CASE y # x
      <4>1. arena'[y] = arena[y] /\ {k \in Elems(freeList'[f]) : PageOf(k) = y} = HoldsAt(f, y)
        BY <3>2, <2>3, <1>2, <1>9, <1>16 DEF HoldsAt
      <4>2. ASSUME arena[y].freeCnt = BlocksPerArena(f)
            PROVE  \E u \in Callers : at'[u] = "pop" /\ DescFor(job'[u].size) = f /\
                     y = PageOf(Head(freeList'[f]))
        <5>1. PICK u \in Callers : at[u] = "pop" /\ DescFor(job[u].size) = f /\
                y = PageOf(Head(freeList[f]))
          BY <2>5, <4>2
        <5>2. descLock[f] = u /\ at'[u] = "pop" /\ job'[u] = job[u]
          BY <5>1, <2>6
        <5>3. f # d
          BY <5>2, <1>22
        <5>4. freeList'[f] = freeList[f]
          BY <5>3, <2>3, <1>10
        <5> QED BY <5>1, <5>2, <5>4
      <4> QED BY <4>1, <4>2, <2>5
    <3> QED BY <3>1, <3>2
  <2> QED BY <2>3, <2>4, <2>7
<1>24. Kept'
  <2>1. HeldKept'
    BY <1>1, <1>5, <1>7, <1>11 DEF HeapTypes, OwnersInv, Kept, HeldKept
  <2>2. OldKept'
    <3> SUFFICES ASSUME NEW u \in Callers, job'[u].op = "realloc" PROVE Keeps(job[u].old)'
      BY DEF OldKept
    <3>1. u # t
      BY <1>8 DEF NoJob
    <3>2. PICK h : h = job[u].old
      OBVIOUS
    <3>3. h \in Owned /\ IsBlock(h.block) /\ h.size <= BlockSize(h.block) /\ Keeps(h) /\ OldOf(u) = h.block
          /\ job'[u].old = h
      BY <3>1, <3>2, <1>8, ReallocOld
    <3>4. Keeps(h)'
      BY <3>1, <3>3, <1>7, <1>11
    <3> QED BY <3>3, <3>4 DEF Keeps
  <2>3. HeadersKept'
    BY <1>1, <1>11, <1>13, SameHeapFacts DEF Kept, HeadersKept
  <2>4. LinksKept'
    <3> SUFFICES ASSUME NEW y \in Descs, NEW k \in Elems(freeList'[y]) PROVE mem'[k] = "link"
      BY DEF LinksKept
    <3>1. CASE k = b
      BY <3>1, <1>11
    <3>2. CASE k # b
      <4>1. k \in Elems(freeList[y])
        BY <3>2, <1>16
      <4>2. k \in Units /\ IsBlock(k) /\ mem[k] = "link"
        BY <4>1, <1>1 DEF ListsInv, HeapTypes, Elems, Kept, LinksKept
      <4> QED BY <3>2, <4>2, <1>11
    <3> QED BY <3>1, <3>2
  <2> QED BY <2>1, <2>2, <2>3, <2>4 DEF Kept
<1>25. CallInv(t)' /\ LocksInv(t)' /\ HandsInv(t)'
  BY <1>5, <1>7, <1>8 DEF CallInv, LocksInv, HandsInv, Asking, Giving, NoJob
<1>26. CallsInv'
  <2>1. \A y \in Descs : \A u \in Callers : u # t /\ descLock[y] = u => descLock'[y] = u /\
          freeList'[y] = freeList[y]
    BY <1>5, <1>10, <1>22
  <2> QED BY <2>1, <1>1, <1>5, <1>8, <1>13, <1>25, OthersCalls
<1> QED BY <1>12, <1>14, <1>15, <1>17, <1>19, <1>21, <1>23, <1>24, <1>26 DEF HeapOK

-----------------------------------------------------------------------------
(* The last block of an arena: the page is given back.                     *)
LEMMA EmptyKeeps ==
  ASSUME MemInv, HeapOK, NEW t \in Callers, UNCHANGED <<tableVars, load>>, FreePut(t),
         Empty(PageOf(job[t].old.block))
  PROVE  MemInv' /\ HeapOK'
<1>1. /\ t \in Actors /\ PoolTypes /\ HeapTypes /\ SpansApart /\ ListsInv /\ OwnersInv /\ SoleOwner
      /\ CountsInv /\ CallsInv /\ Kept
  BY ActorFacts DEF MemInv, HeapOK
<1>2. PICK b, x : b = job[t].old.block /\ x = PageOf(b)
  OBVIOUS
<1>3. PICK d, c : d = arena[x].desc /\ c = arena[x].freeCnt
  OBVIOUS
<1>4. PICK q, e : q = <<b>> \o freeList[d] /\ e = [arena[x] EXCEPT !.freeCnt = arena[x].freeCnt + 1]
  OBVIOUS
<1>5. PICK r : r = Remaining(q, x)
  OBVIOUS
<1>6. /\ at[t] = "put" /\ descLock[d] = Nobody /\
           arena' = [arena EXCEPT ![x].freeCnt = arena[x].freeCnt + 1]
      /\ mem' = [mem EXCEPT ![b] = "link"] /\ freeList' = [freeList EXCEPT ![d] = r]
      /\ job' = job /\ at' = [at EXCEPT ![t] = "fill"] /\ hand' = [hand EXCEPT ![t] = {x}]
      /\ descLock' = [descLock EXCEPT ![d] = t] /\ used' = used /\ poolLock' = poolLock /\ held' = held
  BY <1>2, <1>3, <1>4, <1>5 DEF FreePut, FreedCount, Goto
<1>7. /\ d \in Descs /\ d # Big /\ d # NULL /\ x \in Pages /\ b \in Units /\ IsBlock(b) /\ InHeap(x)
      /\ q \in Seq(Units) /\ NoDuplicates(q) /\ Elems(q) = Elems(freeList[d]) \cup {b}
      /\ Elems(Blocks(x, d)) = HoldsAt(d, x) \cup {b} /\ e \in Arenas
  <2>1. PutIs(b, x, d) /\ Empty(x)
    BY <1>2, <1>3, <1>6, PutFacts
  <2> QED BY <2>1, <1>3, <1>4 DEF PutIs
<1>8. /\ OldOf(t) = b /\ NewOf(t) = NULL /\ \A h \in held : h.block # b
      /\ \A u \in Callers : NewOf(u) # b /\ (u # t => OldOf(u) # b)
  BY <1>2, <1>6, OldFacts
<1>9. r \in Seq(Units) /\ NoDuplicates(r) /\ \A k : k \in Elems(r) <=> k \in Elems(q) /\ PageOf(k) # x
  <2>1. PICK R : R = {k \in Elems(q) : PageOf(k) = x}
    OBVIOUS
  <2>2. r = Without(q, R)
    BY <2>1, <1>5 DEF Remaining
  <2>3. r \in Seq(Units) /\ Elems(r) = Elems(q) \ R /\ NoDuplicates(r)
    BY <2>2, <1>7, WithoutProperties
  <2> QED BY <2>1, <2>3
<1>10. /\ arena'[x] = e /\ e.desc = d /\ \A y \in Pages : y # x => arena'[y] = arena[y]
       /\ arena' \in [Pages -> Arenas]
  <2>1. arena[x] \in Arenas
    BY <1>1, <1>7 DEF HeapTypes
  <2>2. arena' = [arena EXCEPT ![x] = e]
    BY <1>4, <1>6
  <2>3. e.desc = d
    BY <2>1, <1>3, <1>4 DEF Arenas
  <2> QED BY <2>2, <2>3, <1>1, <1>7 DEF HeapTypes
<1>11. freeList'[d] = r /\ \A y \in Descs : y # d => freeList'[y] = freeList[y]
  BY <1>1, <1>6, <1>7 DEF HeapTypes
<1>12. descLock'[d] = t /\ \A y \in Descs : y # d => descLock'[y] = descLock[y]
  BY <1>1, <1>6, <1>7 DEF HeapTypes
<1>13. /\ mem' \in [Units -> Contents]
       /\ \A h \in Owned : IsBlock(h.block) /\ h.size <= BlockSize(h.block) /\ h.block # b /\
            Keeps(h) => Keeps(h)'
       /\ \A k \in Units : IsBlock(k) /\ k # b => mem'[k] = mem[k]
       /\ \A y \in Pages : \A u \in Headers(y) : mem'[u] = mem[u]
  BY <1>1, <1>6, <1>7, LinkWritten
<1>14. HeapTypes'
  <2>1. freeList' \in [Descs -> Seq(Units)]
    BY <1>1, <1>6, <1>9 DEF HeapTypes
  <2>2. descLock' \in [Descs -> Callers \cup {Nobody}]
    BY <1>1, <1>6 DEF HeapTypes
  <2> QED BY <2>1, <2>2, <1>1, <1>6, <1>10, <1>13 DEF HeapTypes
<1>15. ArenaSpan(x) = {x}
  BY <1>1, <1>3, <1>7, ArenaFacts
<1>16. GivesBack(t, x)
  <2>1. \A y \in Pages : SameShape(y)
    BY <1>3, <1>7, <1>10 DEF SameShape
  <2> QED BY <2>1, <1>6, <1>7, <1>10, <1>15 DEF GivesBack
<1>17. /\ MemInv' /\ SpansApart'
       /\ \A y \in Pages : arena'[y].desc = arena[y].desc
       /\ \A k \in Units : IsBlock(k) /\ PageOf(k) # x => IsBlock(k)'
  BY <1>7, <1>14, <1>16, GivesBackKeeps
<1>18. ASSUME NEW k \in Units, IsBlock(k), NotListed(k), k # b PROVE PageOf(k) # x
  <2> SUFFICES ASSUME PageOf(k) = x PROVE FALSE
    OBVIOUS
  <2>1. \E i \in 0..(BlocksPerArena(d) - 1) : k = BlockAt(x, d, i)
    BY <1>3, <1>7, <1>18 DEF IsBlock
  <2>2. k \in Elems(Blocks(x, d))
    BY <2>1, <1>7, BlocksSeq
  <2>3. k \in Elems(freeList[d])
    BY <2>2, <1>7, <1>18 DEF HoldsAt
  <2> QED BY <2>3, <1>7, <1>18 DEF NotListed
<1>19. \A h \in held : PageOf(h.block) # x
  BY <1>1, <1>8, <1>18, OwnedNat DEF HeapTypes, OwnersInv, SoleOwner
<1>20. \A u \in Callers : NewOf(u) # NULL => PageOf(NewOf(u)) # x
  BY <1>1, <1>8, <1>18, JobTypes DEF OwnersInv, SoleOwner, NewOf
<1>21. \A u \in Callers : u # t /\ OldOf(u) # NULL => PageOf(OldOf(u)) # x
  BY <1>1, <1>8, <1>18, JobTypes DEF OwnersInv, SoleOwner
<1>22. ASSUME NEW y \in Descs
       PROVE  /\ freeList'[y] \in Seq(Units) /\ NoDuplicates(freeList'[y])
              /\ \A k \in Elems(freeList'[y]) : k \in Elems(freeList[y]) /\ PageOf(k) # x
  <2>1. CASE y = d
    BY <2>1, <1>2, <1>7, <1>9, <1>11
  <2>2. CASE y # d
    <3>1. freeList'[y] = freeList[y] /\ freeList[y] \in Seq(Units) /\ NoDuplicates(freeList[y])
      BY <2>2, <1>1, <1>11 DEF ListsInv, HeapTypes
    <3>2. \A k \in Elems(freeList[y]) : arena[PageOf(k)].desc = y
      BY <1>1 DEF ListsInv
    <3> QED BY <2>2, <3>1, <3>2, <1>3
  <2> QED BY <2>1, <2>2
<1>23. \A k : NotListed(k) => NotListed(k)'
  BY <1>22 DEF NotListed
<1>24. ASSUME NEW u \in Callers PROVE descLock[d] # u
  BY <1>6, ActorFacts, PoolAssumption
<1>25. \A y \in Descs : \A u \in Callers : u # t /\ descLock[y] = u => descLock'[y] = u /\
         freeList'[y] = freeList[y]
  BY <1>11, <1>12, <1>24
<1>26. OwnersInv' /\ SoleOwner' /\ CallsInv'
  <2>1. \A k : NotListed(k) /\ k # OldOf(t) => NotListed(k)'
    BY <1>23
  <2>2. arena[x].desc \in Descs => descLock'[arena[x].desc] = t
    BY <1>3, <1>12
  <2> QED BY <2>1, <2>2, <1>7, <1>14, <1>16, <1>19, <1>20, <1>21, <1>25, GivesBackOwners
<1>27. CountsInv'
  <2>1. ASSUME NEW y \in Descs, NEW z \in Pages, z # x PROVE HoldsAt(y, z)' = HoldsAt(y, z)
    <3>1. HoldsAt(y, z)' = {k \in Elems(freeList'[y]) : PageOf(k) = z}
      BY DEF HoldsAt
    <3>2. CASE y = d
      BY <3>1, <3>2, <2>1, <1>2, <1>7, <1>9, <1>11 DEF HoldsAt
    <3>3. CASE y # d
      BY <3>1, <3>3, <1>11 DEF HoldsAt
    <3> QED BY <3>2, <3>3
  <2> QED BY <2>1, <1>7, <1>14, <1>16, <1>25, GivesBackCounts
<1>28. ListsInv'
  <2> SUFFICES ASSUME NEW y \in Descs
               PROVE  /\ NoDuplicates(freeList'[y])
                      /\ \A k \in Elems(freeList'[y]) : IsBlock(k)' /\ arena'[PageOf(k)].desc = y
    BY DEF ListsInv
  <2>1. \A k \in Elems(freeList[y]) : k \in Units /\ IsBlock(k) /\ arena[PageOf(k)].desc = y
    BY <1>1 DEF ListsInv, HeapTypes, Elems
  <2> QED BY <2>1, <1>17, <1>22, UnitPage
<1>29. Kept'
  <2>1. \A h \in held : Keeps(h)'
    BY <1>1, <1>8, <1>13 DEF HeapTypes, OwnersInv, Kept, HeldKept
  <2>2. ASSUME NEW u \in Callers, job[u].op = "realloc" PROVE Keeps(job[u].old)'
    <3>1. PICK h : h = job[u].old
      OBVIOUS
    <3>2. h \in Owned /\ IsBlock(h.block) /\ h.size <= BlockSize(h.block) /\ Keeps(h) /\ OldOf(u) = h.block
      BY <3>1, <2>2, ReallocOld
    <3>3. u # t
      <4>1. job[t].op = "free"
        BY <1>6, OldFacts
      <4> QED BY <4>1, <2>2
    <3>4. Keeps(h)'
      BY <3>2, <3>3, <1>8, <1>13
    <3> QED BY <3>1, <3>4, <1>6 DEF Keeps
  <2>3. ASSUME NEW y \in Descs, NEW k \in Elems(freeList'[y]) PROVE mem'[k] = "link"
    <3>1. k \in Elems(freeList[y]) /\ PageOf(k) # x
      BY <1>22
    <3>2. k \in Units /\ IsBlock(k) /\ mem[k] = "link"
      BY <3>1, <1>1 DEF ListsInv, HeapTypes, Elems, Kept, LinksKept
    <3> QED BY <3>1, <3>2, <1>2, <1>13
  <2> QED BY <2>1, <2>2, <2>3, <1>7, <1>13, <1>14, <1>16, GivesBackKept
<1> QED BY <1>14, <1>17, <1>26, <1>27, <1>28, <1>29 DEF HeapOK

-----------------------------------------------------------------------------
(* The pages that free gives back are filled; with that the arena is gone. *)
LEMMA FillPagesKeeps ==
  ASSUME MemInv, HeapOK, NEW t \in Callers, UNCHANGED <<tableVars, load>>, FillPages(t)
  PROVE  MemInv' /\ HeapOK'
<1>1. /\ t \in Actors /\ PoolTypes /\ LockInv /\ OwnInv /\ HeapTypes /\ SpansApart /\ ListsInv /\ OwnersInv
      /\ SoleOwner /\ CountsInv /\ CallsInv /\ Kept
  BY ActorFacts DEF MemInv, HeapOK
<1>2. PICK H : H = hand[t]
  OBVIOUS
<1>3. /\ at[t] = "fill" /\ at' = [at EXCEPT ![t] = "clear"] /\ hand' = hand /\ used' = used /\
           poolLock' = poolLock
      /\ mem' = Written({u \in Units : PageOf(u) \in H}, "cc")
      /\ arena' = [y \in Pages |-> IF y \in H THEN NoArena ELSE arena[y]]
      /\ freeList' = freeList /\ descLock' = descLock /\ held' = held /\ job' = job
  BY <1>2 DEF FillPages, FreeFill, Goto
<1>4. CallInv(t) /\ HandsInv(t) /\ job[t].op = "free" /\ job[t].block = NULL /\ job[t].old \in Owned
  BY <1>1, <1>3 DEF CallsInv, CallInv, Giving
<1>5. H # {}
  BY <1>1, <1>2, <1>3 DEF LockInv
<1>6. PICK x \in Pages : ArenaSpan(x) = H
  BY <1>2, <1>3, <1>4 DEF HandsInv
<1>7. arena[x].desc # NULL /\ x \in H /\ H \subseteq Pages /\ \A y \in H : y # x => arena[y].desc = NULL
  BY <1>1, <1>5, <1>6, ArenaFacts, SpanFacts
<1>8. at'[t] = "clear" /\ \A a \in Actors : a # t => at'[a] = at[a] /\ hand'[a] = hand[a]
  BY <1>1, <1>3 DEF PoolTypes
<1>9. InHand(t) = H /\ Freeing(t) = H /\ InHand(t)' = H /\ \A u \in Callers : Freeing(u)' = Freeing(u)
  BY <1>2, <1>3, <1>8, ActorFacts DEF InHand, Freeing
<1>10. ASSUME NEW y \in Pages
       PROVE  /\ y \in H => arena'[y] = NoArena /\ arena'[y].desc = NULL /\ ArenaSpan(y)' = {} /\
                   Headers(y)' = {} /\ ~InHeap(y)
              /\ y \notin H => arena'[y] = arena[y] /\ ArenaSpan(y)' = ArenaSpan(y) /\
                   Headers(y)' = Headers(y)
              /\ InHeap(y)' = InHeap(y)
  <2>1. CASE y \in H
    <3>1. arena'[y] = NoArena /\ arena'[y].desc = NULL
      BY <2>1, <1>3 DEF NoArena
    <3>2. ~InHeap(y) /\ ~InHeap(y)'
      BY <2>1, <3>1, <1>9 DEF InHeap
    <3>3. InHeap(y)' = InHeap(y)
      BY <3>2 DEF InHeap
    <3>4. ArenaSpan(y)' = {} /\ Headers(y)' = {}
      BY <3>1 DEF ArenaSpan, Headers
    <3> QED BY <2>1, <3>1, <3>2, <3>3, <3>4
  <2>2. CASE y \notin H
    <3>1. arena'[y] = arena[y]
      BY <2>2, <1>3
    <3> QED BY <2>2, <3>1, <1>9, InHeapStays DEF ArenaSpan, Headers
  <2> QED BY <2>1, <2>2
<1>11. ASSUME NEW k \in Units, IsBlock(k)
       PROVE  /\ IsBlock(k)' /\ BlockSize(k)' = BlockSize(k) /\ PageOf(k) \in Pages /\ PageOf(k) \notin H
              /\ arena'[PageOf(k)] = arena[PageOf(k)] /\ ArenaSpan(PageOf(k)) \cap H = {}
  <2>1. PageOf(k) \in Pages /\ InHeap(PageOf(k))
    BY <1>11, UnitPage DEF IsBlock
  <2>2. PageOf(k) \notin H /\ arena'[PageOf(k)] = arena[PageOf(k)] /\ InHeap(PageOf(k))'
    BY <2>1, <1>10
  <2>3. ArenaSpan(PageOf(k)) \cap H = {}
    BY <2>1, <2>2, <1>1, <1>6, <1>7 DEF SpansApart
  <2>4. IsBlock(k)' /\ BlockSize(k)' = BlockSize(k)
    BY <2>1, <2>2, <1>11, BlockStays DEF SameShape
  <2> QED BY <2>1, <2>2, <2>3, <2>4
<1>12. \A u \in Units : mem'[u] = IF PageOf(u) \in H THEN "cc" ELSE mem[u]
  BY <1>3 DEF Written
<1>13. HeapTypes'
  <2>1. mem' \in [Units -> Contents]
    <3>1. \A u \in Units : mem'[u] \in Contents
      BY <1>1, <1>12 DEF HeapTypes, Contents
    <3> QED BY <3>1, <1>3 DEF Written
  <2>2. NoArena \in Arenas
    <3>1. PICK m : m = NumPages * PageSize
      OBVIOUS
    <3>2. m \in Nat
      BY <3>1, Sizing
    <3> QED BY <3>1, <3>2 DEF NoArena, Arenas
  <2>3. arena' \in [Pages -> Arenas]
    BY <2>2, <1>1, <1>3 DEF HeapTypes
  <2> QED BY <2>1, <2>3, <1>1, <1>3 DEF HeapTypes
<1>14. SpansApart'
  <2>1. \A y, z \in Pages : y # z => ArenaSpan(y)' \cap ArenaSpan(z)' = {}
    BY <1>1, <1>10 DEF SpansApart
  <2>2. Big # NULL
    BY DEF Big, NULL
  <2>3. \A y \in Pages : arena'[y].desc = Big => arena'[y].freeCnt # 0 /\ y + arena'[y].freeCnt <= NumPages
    BY <2>2, <1>1, <1>10 DEF SpansApart
  <2> QED BY <2>1, <2>3 DEF SpansApart
<1>15. MemInv'
  <2>1. PoolTypes'
    BY <1>1, <1>3 DEF PoolTypes, Places, PoolPlaces
  <2>2. OnlyCaller(t)
    BY <1>8 DEF OnlyCaller
  <2>3. ASSUME NEW y \in Pages PROVE ArenaPages(y)' = ArenaPages(y)
    <3>1. \A p : (\E u \in Callers : p \in Freeing(u)') <=> \E u \in Callers : p \in Freeing(u)
      BY <1>9
    <3>2. CASE y \in H
      <4>1. ArenaSpan(y) \subseteq H
        BY <3>2, <1>6, <1>7, <1>1, ArenaFacts
      <4>2. ArenaPages(y) = {}
        BY <4>1, <1>9 DEF ArenaPages
      <4> QED BY <3>2, <4>2, <1>10 DEF ArenaPages
    <3>3. CASE y \notin H
      BY <3>1, <3>3, <1>10 DEF ArenaPages
    <3> QED BY <3>2, <3>3
  <2>4. HeapPages' = HeapPages
    BY <2>3 DEF HeapPages
  <2>5. HeapPages \cap H = {}
    BY <1>1, <1>9 DEF OwnInv
  <2>6. HeapPages' \cap InHand(t)' = {} /\ HeapPages' \cup InHand(t)' = HeapPages \cup InHand(t)
    BY <2>4, <2>5, <1>9
  <2>7. hand'[t] # {}
    BY <1>2, <1>3, <1>5
  <2> QED BY <1>1, <1>3, <1>8, <2>1, <2>2, <2>6, <2>7, QuietCall
<1>16. \A u \in Callers : NewOf(u)' = NewOf(u) /\ OldOf(u)' = OldOf(u)
  <2>1. OldOf(t) = NULL /\ OldOf(t)' = NULL
    BY <1>3, <1>8 DEF OldOf
  <2> QED BY <2>1, <1>3, <1>8, ActorFacts DEF NewOf, OldOf
<1>17. SoleOwner'
  BY <1>1, <1>3, <1>16, SoleStays
<1>18. ListsInv'
  <2> SUFFICES ASSUME NEW d \in Descs
               PROVE  /\ NoDuplicates(freeList[d])
                      /\ \A k \in Elems(freeList[d]) : IsBlock(k)' /\ arena'[PageOf(k)].desc = d
    BY <1>3 DEF ListsInv
  <2>1. NoDuplicates(freeList[d]) /\ \A k \in Elems(freeList[d]) : k \in Units /\ IsBlock(k) /\
          arena[PageOf(k)].desc = d
    BY <1>1 DEF ListsInv, HeapTypes, Elems
  <2> QED BY <2>1, <1>11
<1>19. OwnersInv'
  <2>1. ASSUME NEW h \in held' PROVE IsBlock(h.block)' /\ h.size <= BlockSize(h.block)'
    <3>1. h \in held /\ h.block \in Units
      BY <2>1, <1>1, <1>3 DEF HeapTypes, Owned
    <3> QED BY <3>1, <1>1, <1>11 DEF OwnersInv
  <2>2. ASSUME NEW u \in Callers, NEW k \in Units, NewOf(u)' = k
        PROVE  IsBlock(k)' /\ job'[u].size <= BlockSize(k)'
    BY <2>2, <1>1, <1>3, <1>11, <1>16, NoBlockFacts DEF OwnersInv
  <2>3. ASSUME NEW u \in Callers, NEW k \in Units, OldOf(u)' = k
        PROVE  IsBlock(k)' /\ job'[u].old.size <= BlockSize(k)'
    BY <2>3, <1>1, <1>3, <1>11, <1>16, NoBlockFacts DEF OwnersInv
  <2> QED BY <1>13, <2>1, <2>2, <2>3, OwnersAreNext
<1>20. CountsInv'
  <2>1. ASSUME NEW y \in Pages, InHeap(y)', arena'[y].desc \in Descs
        PROVE  /\ arena'[y].freeCnt = Cardinality(HoldsAt(arena'[y].desc, y))
               /\ arena'[y].freeCnt = BlocksPerArena(arena'[y].desc) =>
                    \E u \in Callers : /\ at'[u] = "pop" /\ DescFor(job[u].size) = arena'[y].desc
                                       /\ y = PageOf(Head(freeList[arena'[y].desc]))
    <3>1. InHeap(y) /\ arena'[y] = arena[y]
      BY <2>1, <1>10
    <3>2. \A u \in Callers : at[u] = "pop" => at'[u] = "pop"
      BY <1>3, <1>8, ActorFacts
    <3> QED BY <2>1, <3>1, <3>2, <1>1 DEF CountsInv
  <2> QED BY <2>1, <1>3 DEF CountsInv, HoldsAt
<1>21. ASSUME NEW h \in Owned, IsBlock(h.block), h.size <= BlockSize(h.block), Keeps(h) PROVE Keeps(h)'
  <2>1. h.block \in Units
    BY OwnedNat
  <2>2. \A u \in Units : PageOf(u) \in ArenaSpan(PageOf(h.block)) => mem'[u] = mem[u]
    BY <2>1, <1>11, <1>12, <1>21
  <2> QED BY <2>2, <1>1, <1>21, KeepsStays
<1>22. Kept'
  <2>1. HeldKept'
    BY <1>1, <1>3, <1>21 DEF HeapTypes, OwnersInv, Kept, HeldKept
  <2>2. OldKept'
    <3> SUFFICES ASSUME NEW u \in Callers, job'[u].op = "realloc" PROVE Keeps(job[u].old)'
      BY DEF OldKept
    <3>1. PICK h : h = job[u].old
      OBVIOUS
    <3>2. h \in Owned /\ IsBlock(h.block) /\ h.size <= BlockSize(h.block) /\ Keeps(h)
      BY <3>1, <1>3, ReallocOld
    <3>3. Keeps(h)'
      BY <3>2, <1>21
    <3> QED BY <3>1, <3>3, <1>3 DEF Keeps
  <2>3. HeadersKept'
    <3> SUFFICES ASSUME NEW y \in Pages, NEW u \in Headers(y)' PROVE mem'[u] = "arena"
      BY DEF HeadersKept
    <3>1. y \notin H /\ u \in Headers(y)
      BY <1>10
    <3>2. mem[u] = "arena" /\ PageOf(u) = y /\ u \in Units
      BY <3>1, <1>1, HeaderUnits DEF Kept, HeadersKept
    <3> QED BY <3>1, <3>2, <1>12
  <2>4. LinksKept'
    <3> SUFFICES ASSUME NEW d \in Descs, NEW k \in Elems(freeList[d]) PROVE mem'[k] = "link"
      BY <1>3 DEF LinksKept
    <3>1. k \in Units /\ IsBlock(k) /\ mem[k] = "link"
      BY <1>1 DEF ListsInv, HeapTypes, Elems, Kept, LinksKept
    <3> QED BY <3>1, <1>11, <1>12
  <2> QED BY <2>1, <2>2, <2>3, <2>4 DEF Kept
<1>23. CallsInv'
  <2>1. ASSUME NEW u \in Callers, u # t PROVE CallInv(u)' /\ LocksInv(u)' /\ HandsInv(u)'
    <3>1. CallInv(u) /\ LocksInv(u) /\ HandsInv(u) /\ u \in Actors
      BY <1>1, ActorFacts DEF CallsInv
    <3>2. at'[u] = at[u] /\ job'[u] = job[u] /\ hand'[u] = hand[u]
      BY <2>1, <3>1, <1>3, <1>8
    <3>3. LocksInv(u)'
      BY <3>1, <3>2, <1>1, <1>3, LocksStay
    <3>4. ASSUME at[u] = "fill", NEW y \in Pages, ArenaSpan(y) = hand[u]
          PROVE  ArenaSpan(y)' = ArenaSpan(y) /\ arena'[y].desc = arena[y].desc
      <4>1. InHand(u) = hand[u] /\ hand[u] # {}
        BY <3>1, <3>4, <1>1 DEF InHand, LockInv
      <4>2. y \in hand[u]
        BY <3>4, <4>1, <1>1, ArenaFacts, SpanFacts
      <4>3. y \notin H
        BY <4>1, <4>2, <2>1, <3>1, <1>1, <1>9 DEF OwnInv
      <4> QED BY <4>3, <1>10
    <3>5. at[u] = "clear" => \A y \in Pages : ArenaSpan(y)' \cap hand[u] = {}
      BY <3>1, <1>10 DEF HandsInv
    <3>6. HandsInv(u)'
      BY <3>1, <3>2, <3>4, <3>5, <1>1, <1>3, HandsStay
    <3>7. at[u] = "put" => arena'[PageOf(job[u].old.block)].desc # Big
      <4> SUFFICES ASSUME at[u] = "put" PROVE arena'[PageOf(job[u].old.block)].desc # Big
        OBVIOUS
      <4>1. job[u].old.block \in Units /\ IsBlock(job[u].old.block)
        BY OldFacts
      <4> QED BY <4>1, <3>1, <1>11 DEF CallInv
    <3>8. CallInv(u)'
      BY <3>1, <3>2, <3>7, <1>1, CallStays
    <3> QED BY <3>3, <3>6, <3>8
  <2>2. CallInv(t)' /\ LocksInv(t)'
    BY <1>3, <1>4, <1>8 DEF CallInv, LocksInv, Asking, Giving
  <2>3. HandsInv(t)'
    <3>1. \A y \in Pages : ArenaSpan(y)' \cap H = {}
      BY <1>1, <1>6, <1>7, <1>10 DEF SpansApart
    <3> QED BY <3>1, <1>2, <1>3, <1>8 DEF HandsInv
  <2> QED BY <2>1, <2>2, <2>3 DEF CallsInv
<1> QED BY <1>13, <1>14, <1>15, <1>17, <1>18, <1>19, <1>20, <1>22, <1>23 DEF HeapOK

-----------------------------------------------------------------------------
(* Every step on the heap.                                                 *)
LEMMA HeapStepKeeps ==
  ASSUME MemInv, HeapOK, NEW t \in Callers, UNCHANGED <<tableVars, load>>, HeapStep(t)
  PROVE  MemInv' /\ HeapOK'
<1>1. ASSUME NEW size \in Sizes, StartMalloc(t, size) PROVE MemInv' /\ HeapOK'
  <2>1. NoBlock \notin held
    BY NoBlockFacts DEF HeapOK, HeapTypes
  <2>2. Begin(t, "malloc", size, NoBlock, "alloc") /\ held' = held \ {NoBlock}
    BY <1>1, <2>1 DEF StartMalloc
  <2>3. UNCHANGED <<used, poolLock, hand, arena, freeList, descLock, mem>>
    BY <1>1 DEF StartMalloc
  <2> QED BY <1>1, <2>2, <2>3, BeginKeeps
<1>2. ASSUME NEW b \in held, StartFree(t, b) PROVE MemInv' /\ HeapOK'
  <2>1. Begin(t, "free", 0, b, "free") /\ held' = held \ {b}
        /\ UNCHANGED <<used, poolLock, hand, arena, freeList, descLock, mem>>
    BY <1>2 DEF StartFree
  <2> QED BY <1>2, <2>1, BeginKeeps
<1>3. ASSUME NEW b \in held, NEW size \in Sizes, StartRealloc(t, b, size) PROVE MemInv' /\ HeapOK'
  <2>1. Begin(t, "realloc", size, b, "alloc") /\ held' = held \ {b}
        /\ UNCHANGED <<used, poolLock, hand, arena, freeList, descLock, mem>>
    BY <1>3 DEF StartRealloc
  <2> QED BY <1>3, <2>1, BeginKeeps
<1>4. CASE Alloc(t)
  BY <1>4, AllocKeeps
<1>5. CASE AskPages(t)
  BY <1>5, AskKeeps
<1>6. CASE GetFlip(t) /\ UNCHANGED heapVars
  BY <1>6, SetBitsKeeps
<1>7. CASE GotPages(t)
  <2>1. CASE hand[t] = {}
    BY <1>7, <2>1, NoPagesKeeps
  <2>2. CASE hand[t] # {} /\ DescFor(job[t].size) = Big
    BY <1>7, <2>2, NewBigKeeps
  <2>3. CASE hand[t] # {} /\ DescFor(job[t].size) # Big
    BY <1>7, <2>3, NewArenaKeeps
  <2> QED BY <2>1, <2>2, <2>3
<1>8. CASE Pop(t)
  BY <1>8, PopKeeps
<1>9. CASE Return(t)
  BY <1>9, ReturnKeeps
<1>10. CASE FreeClear(t)
  BY <1>10, FillBlockKeeps, GiveBigKeeps
<1>11. CASE FreePut(t)
  BY <1>11, PutKeeps, EmptyKeeps
<1>12. CASE FillPages(t)
  BY <1>12, FillPagesKeeps
<1>13. CASE ClearPages(t)
  BY <1>13, ClearBitKeeps
<1> QED BY <1>1, <1>2, <1>3, <1>4, <1>5, <1>6, <1>7, <1>8, <1>9, <1>10, <1>11, <1>12, <1>13 DEF HeapStep

(* A step that is of none of them.                                         *)
LEMMA MemStays ==
  ASSUME MemInv, UNCHANGED <<poolVars, heapVars, tableVars, load>>
  PROVE  MemInv'
<1>1. /\ used' = used /\ poolLock' = poolLock /\ hand' = hand /\ at' = at
      /\ arena' = arena /\ load' = load /\ root' = root /\ node' = node /\ pte' = pte /\ frames' = frames
      /\ walk' = walk /\ gone' = gone /\ running' = running /\ cr3' = cr3 /\ tlb' = tlb
  BY DEF poolVars, heapVars, tableVars
<1>2. PoolTypes' /\ LockInv'
  BY <1>1 DEF MemInv, PoolTypes, LockInv, Elsewhere
<1>3. TreeTypes' /\ PteFrames'
  BY <1>1 DEF MemInv, Trees, TreeTypes, PteFrames
<1>4. \A r \in Procs : /\ \A s \in Slots : NodeAt(r, s)' = NodeAt(r, s)
                       /\ \A va \in IndexPath : FrameAt(r, va)' = FrameAt(r, va)
                       /\ Phase(r)' /\ Victim(r)' /\ Chain(r)'
  BY <1>1, ApartStays DEF MemInv, Trees
<1>5. Injective' /\ Outside' /\ FrameInv'
  BY <1>1, <1>4, InjectiveStays, OutsideStays, FrameInvStays DEF MemInv, Trees
<1>6. Trees'
  BY <1>3, <1>4, <1>5 DEF Trees, PteFrames
<1>7. \A a \in Actors : InHand(a)' = InHand(a)
  BY <1>1 DEF InHand
<1>8. \A a : Freeing(a)' = Freeing(a)
  BY <1>1 DEF Freeing
<1>9. \A r \in Procs : TreePages(r)' = TreePages(r)
  BY <1>4, <1>8 DEF TreePages
<1>10. HeapPages' = HeapPages
  BY <1>1 DEF HeapPages, ArenaPages, ArenaSpan, Freeing
<1>11. OwnInv'
  BY <1>1, <1>7, <1>9, <1>10 DEF MemInv, OwnInv, Elsewhere
<1> QED BY <1>2, <1>5, <1>6, <1>11 DEF MemInv

-----------------------------------------------------------------------------
(***************************************************************************)
(* The invariants hold: at first, and after every step.                    *)
(***************************************************************************)
KernelInv == load \in Loads /\ MemInv /\ HeapOK

(* What programs are loaded is of the right types.                         *)
LEMMA LoadFacts ==
  ASSUME load \in Loads
  PROVE  load.touched \subseteq Vas /\ load.pages \in 0..NumPages /\ Elsewhere \subseteq Pages
<1>1. load \in [actors : SUBSET (Callers \cup Procs), pages : 0..NumPages, blocks : Nat,
                touched : SUBSET Vas, hashing : BOOLEAN]
  BY LoadsAssumption
<1>2. load.touched \subseteq Vas /\ load.pages \in 0..NumPages
  BY <1>1
<1> QED BY <1>2, PoolAssumption DEF Elsewhere, Pages

(* At boot no call is in progress and the heap has no arena.               *)
LEMMA NothingYet ==
  ASSUME Init
  PROVE  /\ \A a \in Actors : at[a] = "idle" /\ hand[a] = {} /\ InHand(a) = {} /\ Freeing(a) = {}
         /\ \A x \in Pages : /\ arena[x].desc = NULL /\ ArenaSpan(x) = {} /\ ArenaPages(x) = {}
                             /\ Headers(x) = {} /\ ~InHeap(x)
         /\ \A d \in Descs : freeList[d] = <<>> /\ Elems(freeList[d]) = {}
         /\ \A t \in Callers : job[t] = NoJob /\ NewOf(t) = NULL /\ OldOf(t) = NULL
<1>1. at = [a \in Actors |-> "idle"] /\ hand = [a \in Actors |-> {}]
  BY DEF Init, PoolInit
<1>2. arena = [p \in Pages |-> NoArena] /\ freeList = [d \in Descs |-> <<>>] /\
        job = [t \in Callers |-> NoJob]
  BY DEF Init, HeapInit
<1>3. \A a \in Actors : at[a] = "idle" /\ hand[a] = {} /\ InHand(a) = {} /\ Freeing(a) = {}
  BY <1>1 DEF InHand, Freeing
<1>4. \A x \in Pages : /\ arena[x].desc = NULL /\ ArenaSpan(x) = {} /\ ArenaPages(x) = {}
                       /\ Headers(x) = {} /\ ~InHeap(x)
  BY <1>2 DEF NoArena, ArenaSpan, ArenaPages, Headers, InHeap
<1>5. \A d \in Descs : freeList[d] = <<>> /\ Elems(freeList[d]) = {}
  BY <1>2 DEF Elems
<1>6. \A t \in Callers : job[t] = NoJob /\ NewOf(t) = NULL /\ OldOf(t) = NULL
  BY <1>2, <1>3, ActorFacts DEF NoJob, NewOf, OldOf, NoBlock
<1> QED BY <1>3, <1>4, <1>5, <1>6

(* At boot no process has a page table.                                    *)
LEMMA NoTreeYet ==
  ASSUME Init
  PROVE  /\ TreeTypes
         /\ \A p \in Procs : \A s \in Slots : NodeAt(p, s) = NoPage
         /\ \A p \in Procs : \A va \in IndexPath : FrameAt(p, va) = NoPage
         /\ \A p \in Procs : root[p] = NoPage /\ walk[p] = NoWalk /\ gone[p] = {}
<1>1. /\ root = [p \in Procs |-> NoPage] /\ node = [q \in Pages |-> EmptyNode] /\
           pte = [q \in Pages |-> EmptyTable]
      /\ frames = {} /\ walk = [p \in Procs |-> NoWalk] /\ gone = [p \in Procs |-> {}]
      /\ running \in Procs /\ cr3 = BasePml4 /\ tlb = {}
  BY DEF Init, TablesInit
<1>2. NoWalk \in Walks
  BY WalkTypes
<1>3. EmptyNode \in [Index -> Pages \cup {NoPage}] /\ EmptyTable \in [Index -> Ptes]
  <2>1. NoPte \in Ptes
    BY DEF NoPte, Ptes
  <2> QED BY <2>1 DEF EmptyNode, EmptyTable
<1>4. TreeTypes
  BY <1>1, <1>2, <1>3 DEF TreeTypes
<1>5. \A p \in Procs : root[p] = NoPage /\ walk[p] = NoWalk /\ gone[p] = {} /\ Top(p) = NoPage
  BY <1>1 DEF Top, Live, NoWalk
<1>6. \A p \in Procs : \A s \in Slots : NodeAt(p, s) = NoPage
  BY <1>4, <1>5, NoTree
<1>7. ASSUME NEW p \in Procs, NEW va \in IndexPath PROVE FrameAt(p, va) = NoPage
  <2>1. SlotOf(va) \in Slots
    BY PathFacts
  <2>2. NodeAt(p, SlotOf(va)) = LivePt(p, va[1], va[2])
    BY DEF NodeAt, SlotOf
  <2> QED BY <1>6, <2>1, <2>2 DEF FrameAt
<1> QED BY <1>4, <1>5, <1>6, <1>7

(* MemInv holds at boot.                                                   *)
LEMMA MemInit ==
  ASSUME Init
  PROVE  load \in Loads /\ MemInv
<1>1. load \in Loads /\ used = Elsewhere /\ poolLock = Nobody
  BY DEF Init, PoolInit
<1>2. PoolTypes
  <2>1. at = [a \in Actors |-> "idle"] /\ hand = [a \in Actors |-> {}]
    BY DEF Init, PoolInit
  <2> QED BY <1>1, <2>1, LoadFacts DEF PoolTypes, Places
<1>3. LockInv
  BY <1>1, NothingYet, ActorFacts DEF LockInv
<1>4. HeapPages = {} /\ \A p \in Procs : TreePages(p) = {}
  BY NothingYet, NoTreeYet DEF HeapPages, TreePages
<1>5. OwnInv
  BY <1>1, <1>4, NothingYet DEF OwnInv
<1>6. pte = [q \in Pages |-> EmptyTable] /\ node = [q \in Pages |-> EmptyNode] /\ frames = {}
  BY DEF Init, TablesInit
<1>7. ASSUME NEW p \in Procs PROVE Phase(p) /\ Victim(p) /\ Chain(p)
  BY NothingYet, NoTreeYet, ActorFacts DEF Phase, Victim, Chain, NoWalk
<1>8. Trees
  <2>1. Injective /\ Outside
    BY <1>6, NoTreeYet DEF Injective, Outside
  <2>2. \A q \in Pages : \A i \in Index : ~pte[q][i].present
    BY <1>6 DEF EmptyTable, NoPte
  <2> QED BY <1>7, <2>1, <2>2, NoTreeYet DEF Trees
<1>9. FrameInv
  <2>1. \A p \in Procs : walk[p].frame = NoPage
    BY NoTreeYet DEF NoWalk
  <2> QED BY <1>6, <2>1, NoTreeYet, NoPageFacts DEF FrameInv
<1> QED BY <1>1, <1>2, <1>3, <1>5, <1>8, <1>9 DEF MemInv

(* HeapOK holds at boot.                                                   *)
LEMMA HeapIsEmpty ==
  ASSUME Init
  PROVE  HeapOK
<1>1. /\ arena = [p \in Pages |-> NoArena] /\ freeList = [d \in Descs |-> <<>>]
      /\ descLock = [d \in Descs |-> Nobody] /\ mem = [u \in Units |-> "cc"] /\ held = {}
      /\ job = [t \in Callers |-> NoJob]
  BY DEF Init, HeapInit
<1>2. HeapTypes
  <2>1. NoArena \in Arenas
    BY PoolAssumption, MallocAssumption DEF NoArena, Arenas
  <2>2. NoJob \in Jobs
    BY DEF NoJob, Jobs, NoBlock
  <2> QED BY <1>1, <2>1, <2>2 DEF HeapTypes, Contents
<1>3. SpansApart
  BY NothingYet DEF SpansApart, Big, NULL
<1>4. ListsInv
  BY NothingYet DEF ListsInv, NoDuplicates
<1>5. OwnersInv
  BY <1>1, NothingYet DEF OwnersInv
<1>6. SoleOwner
  BY <1>1, NothingYet DEF SoleOwner
<1>7. CountsInv
  BY NothingYet DEF CountsInv
<1>8. ASSUME NEW t \in Callers PROVE CallInv(t) /\ LocksInv(t) /\ HandsInv(t)
  BY NothingYet, ActorFacts DEF CallInv, LocksInv, HandsInv, Asking, Giving, NoJob
<1>9. Kept
  BY <1>1, NothingYet DEF Kept, HeldKept, OldKept, HeadersKept, LinksKept, NoJob
<1> QED BY <1>2, <1>3, <1>4, <1>5, <1>6, <1>7, <1>8, <1>9 DEF HeapOK, CallsInv

(* Every step keeps the inductive invariant.                               *)
LEMMA KernelStep ==
  ASSUME KernelInv, [Next]_vars
  PROVE  KernelInv'
<1>0. load \in Loads /\ MemInv /\ HeapOK
  BY DEF KernelInv
<1>1. ASSUME UNCHANGED load, NEW t \in Callers, HeapStep(t),
               UNCHANGED <<tableVars, hashVars>> PROVE KernelInv'
  BY <1>0, <1>1, HeapStepKeeps DEF KernelInv
<1>2. ASSUME UNCHANGED load, NEW p \in Procs, UNCHANGED <<heapVars, hashVars>>,
             TableStep(p) \/ \E va \in load.touched : UseStep(p, va)
      PROVE  KernelInv'
  <2>1. TableStep(p) \/ \E va \in Vas : UseStep(p, va)
    BY <1>0, <1>2, LoadFacts
  <2>2. MemInv'
    BY <1>0, <1>2, <2>1, TableKeeps
  <2>3. \A a \in Actors : a # p => at'[a] = at[a] /\ hand'[a] = hand[a]
    BY <1>0, <1>2, <2>1, OnlyItself DEF MemInv
  <2>4. HeapOK'
    BY <1>0, <1>2, <2>3, ActorFacts, HeapStays
  <2> QED BY <1>0, <1>2, <2>2, <2>4 DEF KernelInv
<1>3. ASSUME UNCHANGED <<poolVars, heapVars, tableVars, load>> PROVE KernelInv'
  <2>1. MemInv'
    BY <1>0, <1>3, MemStays
  <2>2. HeapOK'
    BY <1>0, <1>3, HeapStays DEF poolVars
  <2> QED BY <1>0, <1>3, <2>1, <2>2 DEF KernelInv
<1> QED BY <1>1, <1>2, <1>3 DEF Next, vars

(* The inductive invariant of the whole: the pool, the trees and the heap, *)
(* whatever the interleaving of processes and callers of malloc.           *)
THEOREM KernelKeepsInv == Spec => []KernelInv
<1>1. Init => KernelInv
  BY MemInit, HeapIsEmpty DEF KernelInv
<1>2. KernelInv /\ [Next]_vars => KernelInv'
  BY KernelStep
<1> QED BY <1>1, <1>2, PTL DEF Spec

-----------------------------------------------------------------------------
(***************************************************************************)
(* The locks of the pool and of the descriptors.                           *)
(***************************************************************************)
(* A call of malloc, realloc or free moves its caller and nobody else.     *)
LEMMA CallerOnly ==
  ASSUME PoolTypes, NEW t \in Callers, HeapStep(t)
  PROVE  \A a \in Actors : a # t => at'[a] = at[a]
<1> DEFINE Goes == \E place : at' = [at EXCEPT ![t] = place]
<1>1. at \in [Actors -> Places]
  BY DEF PoolTypes
<1>2. ASSUME Goes PROVE \A a \in Actors : a # t => at'[a] = at[a]
  BY <1>1, <1>2
<1>3. ASSUME NEW b, NEW size, StartMalloc(t, size) \/ StartFree(t, b) \/ StartRealloc(t, b, size) PROVE Goes
  BY <1>3 DEF StartMalloc, StartFree, StartRealloc, Begin, Goto
<1>4. CASE Alloc(t)
  <2>1. Goes
    BY <1>4 DEF Alloc, Goto
  <2> QED BY <1>2, <2>1
<1>5. CASE AskPages(t)
  <2>1. PICK n : GetScan(t, n)
    BY <1>5 DEF AskPages
  <2>2. Goes
    BY <2>1 DEF GetScan, Goto
  <2> QED BY <1>2, <2>2
<1>6. CASE GetFlip(t)
  <2>1. Goes
    BY <1>6 DEF GetFlip, Goto
  <2> QED BY <1>2, <2>1
<1>7. CASE GotPages(t)
  <2>1. NoPages(t) \/ \E p : NewBigBlock(t, p) \/ NewArena(t, p)
    BY <1>7 DEF GotPages
  <2>2. Goes
    BY <2>1 DEF NoPages, NewBigBlock, NewArena, Goto
  <2> QED BY <1>2, <2>2
<1>8. CASE Pop(t)
  <2>1. Goes
    BY <1>8 DEF Pop, Goto
  <2> QED BY <1>2, <2>1
<1>9. CASE Return(t)
  <2>1. Goes
    BY <1>9 DEF Return, Goto
  <2> QED BY <1>2, <2>1
<1>10. CASE FreeClear(t)
  <2>1. Goes
    BY <1>10 DEF FreeClear, Goto
  <2> QED BY <1>2, <2>1
<1>11. CASE FreePut(t)
  <2>1. Goes
    BY <1>11 DEF FreePut, Goto
  <2> QED BY <1>2, <2>1
<1>12. CASE FillPages(t)
  <2>1. Goes
    BY <1>12 DEF FillPages, FreeFill, Goto
  <2> QED BY <1>2, <2>1
<1>13. CASE ClearPages(t)
  <2>1. Goes
    BY <1>13 DEF ClearPages, FreeBit, Goto
  <2> QED BY <1>2, <2>1
<1> QED BY <1>2, <1>3, <1>4, <1>5, <1>6, <1>7, <1>8, <1>9, <1>10, <1>11, <1>12, <1>13 DEF HeapStep

(* What a call that is not t's sees of a step of t: nothing.               *)
LEMMA OtherCalls ==
  ASSUME PoolTypes, HeapTypes, NEW t \in Callers, HeapStep(t), NEW u \in Callers, u # t
  PROVE  /\ at'[u] = at[u] /\ job'[u] = job[u]
         /\ \A d \in Descs : descLock'[d] = u => descLock[d] = u
<1>1. at'[u] = at[u]
  BY CallerOnly, ActorFacts
<1>2. job \in [Callers -> Jobs] /\ descLock \in [Descs -> Callers \cup {Nobody}] /\ u # Nobody
  BY ActorFacts DEF HeapTypes
<1> DEFINE Sees == job'[u] = job[u] /\ \A d \in Descs : descLock'[d] = u => descLock[d] = u
<1>3. ASSUME NEW b, NEW size, StartMalloc(t, size) \/ StartFree(t, b) \/ StartRealloc(t, b, size)
      PROVE  Sees
  BY <1>2, <1>3 DEF StartMalloc, StartFree, StartRealloc, Begin
<1>4. ASSUME Alloc(t) PROVE Sees
  BY <1>2, <1>4 DEF Alloc
<1>5. ASSUME AskPages(t) \/ (GetFlip(t) /\ UNCHANGED heapVars) PROVE Sees
  BY <1>5 DEF AskPages, heapVars
<1>6. ASSUME GotPages(t) PROVE Sees
  <2>1. ASSUME NoPages(t) PROVE Sees
    BY <1>2, <2>1 DEF NoPages
  <2>2. ASSUME NEW p, NewBigBlock(t, p) PROVE Sees
    BY <1>2, <2>2 DEF NewBigBlock
  <2>3. ASSUME NEW p, NewArena(t, p) PROVE Sees
    BY <2>3 DEF NewArena
  <2> QED BY <1>6, <2>1, <2>2, <2>3 DEF GotPages
<1>7. ASSUME Pop(t) PROVE Sees
  BY <1>2, <1>7 DEF Pop
<1>8. ASSUME Return(t) PROVE Sees
  BY <1>2, <1>8 DEF Return
<1>9. ASSUME FreeClear(t) PROVE Sees
  BY <1>9 DEF FreeClear
<1>10. ASSUME FreePut(t) PROVE Sees
  BY <1>2, <1>10 DEF FreePut
<1>11. ASSUME FillPages(t) PROVE Sees
  BY <1>11 DEF FillPages
<1>12. ASSUME ClearPages(t) PROVE Sees
  BY <1>2, <1>12 DEF ClearPages
<1>13. Sees
  BY <1>3, <1>4, <1>5, <1>6, <1>7, <1>8, <1>9, <1>10, <1>11, <1>12 DEF HeapStep
<1> QED BY <1>1, <1>13

(* Where a thread is that holds the lock of descriptor d.                  *)
Inside(t, d) ==
  \/ at[t] \in {"get", "flip", "got", "pop"} /\ DescFor(job[t].size) = d
  \/ at[t] \in {"fill", "clear"}

(* A step of t takes a lock only to go inside and leaves it on the way out.*)
LEMMA OwnLocks ==
  ASSUME PoolTypes, HeapTypes, NEW t \in Callers, HeapStep(t),
         NEW d \in Descs, descLock[d] = t => Inside(t, d), descLock'[d] = t
  PROVE  Inside(t, d)'
<1>0. /\ at \in [Actors -> Places] /\ job \in [Callers -> Jobs]
      /\ descLock \in [Descs -> Callers \cup {Nobody}]
      /\ t \in Actors /\ t # Nobody
  BY ActorFacts DEF PoolTypes, HeapTypes
<1>1. Big \notin Descs
  BY MallocAssumption DEF Big, Descs
<1> USE DEF Goto, Inside
<1>2. ASSUME NEW b, NEW size, StartMalloc(t, size) \/ StartFree(t, b) \/ StartRealloc(t, b, size)
      PROVE  Inside(t, d)'
  BY <1>0, <1>2 DEF StartMalloc, StartFree, StartRealloc, Begin
<1>3. CASE Alloc(t)
  BY <1>0, <1>3 DEF Alloc
<1>4. CASE AskPages(t)
  BY <1>0, <1>4 DEF AskPages, GetScan, heapVars
<1>5. CASE GetFlip(t) /\ UNCHANGED heapVars
  BY <1>0, <1>5 DEF GetFlip, heapVars
<1>6. CASE GotPages(t)
  <2>1. CASE NoPages(t)
    BY <1>0, <2>1 DEF NoPages
  <2>2. ASSUME NEW p, DescFor(job[t].size) = Big, NewBigBlock(t, p) PROVE Inside(t, d)'
    BY <1>0, <1>1, <1>6, <2>2 DEF GotPages, NewBigBlock
  <2>3. ASSUME NEW p, NewArena(t, p) PROVE Inside(t, d)'
    BY <1>0, <1>6, <2>3 DEF GotPages, NewArena
  <2> QED BY <1>6, <2>1, <2>2, <2>3 DEF GotPages
<1>7. CASE Pop(t)
  BY <1>0, <1>7 DEF Pop
<1>8. CASE Return(t)
  BY <1>0, <1>8 DEF Return
<1>9. CASE FreeClear(t)
  BY <1>0, <1>9 DEF FreeClear
<1>10. CASE FreePut(t)
  BY <1>0, <1>10 DEF FreePut
<1>11. CASE FillPages(t)
  BY <1>0, <1>11 DEF FillPages, FreeFill
<1>12. CASE ClearPages(t)
  BY <1>0, <1>12 DEF ClearPages, FreeBit
<1> QED BY <1>2, <1>3, <1>4, <1>5, <1>6, <1>7, <1>8, <1>9, <1>10, <1>11, <1>12 DEF HeapStep

(* Every step, of whichever thread or process, leaves locks only with      *)
(* those inside.                                                           *)
LEMMA LocksStep ==
  ASSUME KernelInv, KernelInv', LocksReleased, [Next]_vars
  PROVE  LocksReleased'
<1>0. load \in Loads /\ MemInv /\ PoolTypes /\ HeapTypes
  BY DEF KernelInv, MemInv, HeapOK
<1>1. \A a \in Actors : poolLock' = a <=> at'[a] = "flip"
  BY DEF KernelInv, MemInv, LockInv
<1> SUFFICES ASSUME NEW d \in Descs, NEW u \in Callers, descLock'[d] = u PROVE Inside(u, d)'
  BY <1>1 DEF LocksReleased, Inside
<1>2. descLock[d] = u => Inside(u, d)
  BY DEF LocksReleased, Inside
<1>3. ASSUME at'[u] = at[u], job'[u] = job[u], descLock'[d] = u => descLock[d] = u
      PROVE  Inside(u, d)'
  BY <1>2, <1>3 DEF Inside
<1>4. ASSUME NEW t \in Callers, HeapStep(t) PROVE Inside(u, d)'
  BY <1>0, <1>2, <1>3, <1>4, OtherCalls, OwnLocks
<1>5. ASSUME UNCHANGED load, NEW p \in Procs, UNCHANGED <<heapVars, hashVars>>,
             TableStep(p) \/ \E va \in load.touched : UseStep(p, va)
      PROVE  Inside(u, d)'
  <2>1. TableStep(p) \/ \E va \in Vas : UseStep(p, va)
    BY <1>0, <1>5, LoadFacts
  <2>2. at'[u] = at[u]
    BY <1>0, <1>5, <2>1, OnlyItself, ActorFacts
  <2> QED BY <1>3, <1>5, <2>2 DEF heapVars
<1>6. ASSUME UNCHANGED <<poolVars, heapVars>> PROVE Inside(u, d)'
  BY <1>3, <1>6 DEF poolVars, heapVars
<1> QED BY <1>4, <1>5, <1>6 DEF Next, vars

(* A process is never inside malloc or free.                               *)
LEMMA CallerPlaces ==
  ASSUME MemInv, NEW a \in Actors, at[a] \in {"alloc", "put"}
  PROVE  a \in Callers
<1> SUFFICES ASSUME a \in Procs PROVE FALSE
  BY LoadsAssumption
<1>1. Phase(a) /\ walk[a] \in Walks
  BY DEF MemInv, Trees, TreeTypes
<1>2. PICK w : w = walk[a]
  OBVIOUS
<1>3. w.op \in {"none", "create", "set", "destroy"}
  BY <1>1, <1>2 DEF Walks
<1>4. /\ w.op = "none" => at[a] = "idle"
      /\ w.op = "create" => at[a] \in {"get", "flip", "got"}
      /\ w.op = "set" => at[a] \in {"walk", "get", "flip", "got", "unwind", "fill", "clear", "unlink"}
      /\ w.op = "destroy" => at[a] \in {"activate", "destroy", "fill", "clear"}
  BY ONLY <1>1, <1>2 DEF Phase
<1> QED BY <1>3, <1>4

(* The pool's lock is held for one step, a descriptor's by a thread that   *)
(* may wait for the pool's: the waits have an end.                         *)
LEMMA WaitsEnd ==
  ASSUME KernelInv, LocksReleased
  PROVE  CallsGoOn
<1>0. /\ PoolTypes /\ HeapTypes /\ OwnersInv /\ CallsInv /\ MemInv
      /\ \A a \in Actors : at[a] = "flip" <=> poolLock = a
  BY DEF KernelInv, MemInv, LockInv, HeapOK
<1>1. ASSUME NEW b \in Actors, at[b] # "idle", ~HasToWait(b) PROVE CallsGoOn
  BY <1>1 DEF CallsGoOn
<1> SUFFICES ASSUME NEW a \in Actors, at[a] # "idle", HasToWait(a) PROVE CallsGoOn
  BY DEF CallsGoOn
<1>2. ASSUME poolLock # Nobody PROVE CallsGoOn
  <2>1. PICK b \in Actors : at[b] = "flip"
    BY <1>0, <1>2 DEF PoolTypes
  <2>2. ~HasToWait(b)
    BY <2>1 DEF HasToWait
  <2> QED BY <1>1, <2>1, <2>2
<1>3. ASSUME NEW d \in Descs, descLock[d] # Nobody PROVE CallsGoOn
  <2>1. PICK t \in Callers : descLock[d] = t
    BY <1>0, <1>3 DEF HeapTypes
  <2>2. t \in Actors /\ at[t] \in {"get", "flip", "got", "pop", "fill", "clear"}
    BY <2>1, ActorFacts DEF LocksReleased
  <2>3. CASE at[t] = "get" /\ poolLock # Nobody
    BY <1>2, <2>3
  <2>4. CASE ~(at[t] = "get" /\ poolLock # Nobody)
    <3>1. ~HasToWait(t)
      BY <2>2, <2>4 DEF HasToWait
    <3> QED BY <1>1, <2>2, <3>1
  <2> QED BY <2>3, <2>4
<1>4. CASE at[a] = "get"
  BY <1>2, <1>4 DEF HasToWait
<1>5. CASE at[a] = "alloc"
  <2>1. a \in Callers
    BY <1>0, <1>5, CallerPlaces
  <2>2. DescFor(job[a].size) \in Descs /\ descLock[DescFor(job[a].size)] # Nobody
    BY <1>0, <1>5, <2>1, JobTypes, DescForIs DEF HasToWait
  <2> QED BY <1>3, <2>2
<1>6. CASE at[a] = "put"
  <2>1. a \in Callers
    BY <1>0, <1>6, CallerPlaces
  <2>2. job[a].op = "free" /\ job[a].old \in Owned /\ arena[PageOf(job[a].old.block)].desc # Big
    BY <1>0, <1>6, <2>1 DEF CallsInv, CallInv, Giving
  <2>3. OldOf(a) = job[a].old.block /\ OldOf(a) \in Units /\ OldOf(a) # NULL
    BY <1>6, <2>2, NoBlockFacts DEF OldOf, Owned
  <2>4. IsBlock(job[a].old.block)
    BY <1>0, <2>1, <2>3 DEF OwnersInv
  <2>5. PICK x \in Pages : x = PageOf(job[a].old.block)
    BY <2>3, UnitPage
  <2>6. arena[x].desc \in Descs
    BY <1>0, <2>2, <2>4, <2>5, ArenaFacts DEF IsBlock, InHeap
  <2>7. descLock[arena[x].desc] # Nobody
    BY <1>6, <2>5 DEF HasToWait
  <2> QED BY <1>3, <2>6, <2>7
<1> QED BY <1>4, <1>5, <1>6 DEF HasToWait

(* Locks are held only inside the code they protect, and the threads that  *)
(* wait for them do not wait for each other.                               *)
THEOREM LocksGiven == Spec => [](LocksReleased /\ CallsGoOn)
<1>1. Init => LocksReleased
  BY NothingYet, ActorFacts DEF LocksReleased, Init, PoolInit, HeapInit
<1>2. KernelInv /\ KernelInv' /\ LocksReleased /\ [Next]_vars => LocksReleased'
  BY LocksStep
<1>3. KernelInv /\ LocksReleased => CallsGoOn
  BY WaitsEnd
<1> QED BY <1>1, <1>2, <1>3, KernelKeepsInv, PTL DEF Spec

-----------------------------------------------------------------------------
(***************************************************************************)
(* What the invariants say of the heap.                                    *)
(***************************************************************************)
LEMMA HandedBlocks ==
  ASSUME HeapOK, NEW b \in Handed
  PROVE  b \in Units /\ IsBlock(b) /\ NotListed(b)
<1>0. HeapTypes /\ OwnersInv /\ SoleOwner /\ CallsInv
  BY DEF HeapOK
<1>1. ASSUME NEW h \in held, b = h.block PROVE b \in Units /\ IsBlock(b) /\ NotListed(b)
  <2>1. h \in Owned
    BY <1>0, <1>1 DEF HeapTypes
  <2> QED BY <1>0, <1>1, <2>1 DEF Owned, OwnersInv, SoleOwner
<1>2. ASSUME NEW t \in Callers, b = job[t].block, b # NULL PROVE b \in Units /\ IsBlock(b) /\ NotListed(b)
  BY <1>0, <1>2, JobTypes DEF NewOf, OwnersInv, SoleOwner
<1>3. ASSUME NEW t \in Callers, b = job[t].old.block, at[t] \notin {"fill", "clear"}, job[t].old # NoBlock
      PROVE  b \in Units /\ IsBlock(b) /\ NotListed(b)
  <2>1. job[t].old \in Owned
    BY <1>0, <1>3, JobTypes
  <2>2. b \in Units /\ b # NULL
    BY <1>3, <2>1, NoBlockFacts DEF Owned
  <2>3. OldOf(t) = b
    BY <1>3 DEF OldOf
  <2> QED BY <1>0, <2>2, <2>3 DEF OwnersInv, SoleOwner
<1> QED BY <1>1, <1>2, <1>3 DEF Handed

(* A block on a free list is a block, and on no list twice.                *)
LEMMA FreeBlocks ==
  ASSUME HeapOK, NEW b \in Free
  PROVE  b \in Units /\ IsBlock(b) /\ ~NotListed(b)
<1>0. HeapTypes /\ ListsInv
  BY DEF HeapOK
<1>1. PICK d \in Descs : b \in Elems(freeList[d])
  BY DEF Free
<1>2. freeList[d] \in Seq(Units)
  BY <1>0 DEF HeapTypes
<1>3. b \in Units
  BY <1>1, <1>2 DEF Elems
<1> QED BY <1>0, <1>1, <1>3 DEF ListsInv, NotListed

(* No two blocks overlap, each other or a header.                          *)
LEMMA BlocksAreDisjoint ==
  ASSUME MemInv, HeapOK
  PROVE  BlocksDisjoint
<1>0. HeapTypes /\ SpansApart /\ ListsInv /\ OwnInv
  BY DEF HeapOK, MemInv
<1>1. \A b \in Handed \cup Free : b \in Units /\ IsBlock(b)
  BY HandedBlocks, FreeBlocks
<1>2. ASSUME NEW b \in Handed \cup Free
      PROVE  /\ arena[PageOf(b)].desc # NULL
             /\ \A u \in Span(b, BlockSize(b)) :
                  /\ PageOf(u) \in used
                  /\ u \notin Headers(PageOf(u))
                  /\ \A c \in (Handed \cup Free) \ {b} : u \notin Span(c, BlockSize(c))
  <2>1. PICK x : x = PageOf(b)
    OBVIOUS
  <2>2. b \in Units /\ IsBlock(b) /\ x \in Pages /\ InHeap(x) /\ arena[x].desc # NULL
    BY <1>1, <2>1, UnitPage DEF IsBlock, InHeap
  <2>3. ASSUME NEW u \in Span(b, BlockSize(b)) PROVE PageOf(u) \in used /\ u \notin Headers(PageOf(u))
    <3>1. PageOf(u) \in ArenaSpan(x) /\ u \notin Headers(PageOf(u)) /\ u \in Units
      BY <1>0, <2>1, <2>2, BlockFacts
    <3>2. PageOf(u) \in ArenaPages(x)
      BY <2>2, <3>1, SpanInUse DEF ArenaPages
    <3>3. PageOf(u) \in Pages /\ PageOf(u) \in HeapPages
      BY <2>2, <3>1, <3>2, UnitPage DEF HeapPages
    <3>4. PageOf(u) \in used
      BY <1>0, <3>3 DEF OwnInv
    <3> QED BY <3>1, <3>4
  <2>4. ASSUME NEW u \in Span(b, BlockSize(b)), NEW c \in (Handed \cup Free) \ {b}
        PROVE  u \notin Span(c, BlockSize(c))
    BY <1>0, <1>1, <2>2, <2>4, BlocksApart
  <2> QED BY <2>1, <2>2, <2>3, <2>4
<1>3. Handed \cap Free = {}
  BY HandedBlocks, FreeBlocks
<1>4. \A d \in Descs : NoDuplicates(freeList[d])
  BY <1>0 DEF ListsInv
<1> QED BY <1>2, <1>3, <1>4 DEF BlocksDisjoint

(* free_cnt counts the free blocks.                                        *)
LEMMA ArenasCount ==
  ASSUME HeapOK
  PROVE  ArenaCounts
<1>0. HeapTypes /\ SpansApart /\ CountsInv /\ CallsInv
  BY DEF HeapOK
<1>1. SUFFICES ASSUME NEW d \in Descs, descLock[d] = Nobody, NEW x \in Pages, arena[x].desc = d
               PROVE  /\ arena[x].freeCnt = Cardinality(HoldsAt(d, x))
                      /\ arena[x].freeCnt < BlocksPerArena(d)
  BY DEF ArenaCounts, HoldsAt
<1>2. ArenaSpan(x) = {x} /\ d # NULL /\ d # Big
  BY <1>0, <1>1, ArenaFacts
<1>3. ASSUME NEW t \in Callers, x \in Freeing(t) PROVE FALSE
  <2>1. x \in hand[t] /\ at[t] \in {"fill", "clear"} /\ HandsInv(t)
    BY <1>0, <1>3 DEF Freeing, CallsInv
  <2>2. at[t] = "fill"
    BY <1>1, <1>2, <2>1 DEF HandsInv
  <2>3. PICK y \in Pages : ArenaSpan(y) = hand[t] /\
          (arena[y].desc \in Descs => descLock[arena[y].desc] = t)
    BY <2>1, <2>2 DEF HandsInv
  <2>4. y = x
    BY <1>0, <1>2, <2>1, <2>3 DEF SpansApart
  <2> QED BY <1>1, <2>3, <2>4, ActorFacts
<1>4. InHeap(x)
  BY <1>1, <1>2, <1>3 DEF InHeap
<1>5. arena[x].freeCnt = Cardinality(HoldsAt(d, x)) /\ arena[x].freeCnt # BlocksPerArena(d)
  <2>1. arena[x].freeCnt = Cardinality(HoldsAt(d, x))
    BY <1>0, <1>1, <1>4 DEF CountsInv
  <2>2. ASSUME NEW t \in Callers, at[t] = "pop", DescFor(job[t].size) = d PROVE FALSE
    BY <1>0, <1>1, <1>2, <2>2, ActorFacts DEF CallsInv, LocksInv
  <2> QED BY <1>0, <1>1, <1>4, <2>1, <2>2 DEF CountsInv
<1>6. Cardinality(HoldsAt(d, x)) \in Nat /\ Cardinality(HoldsAt(d, x)) <= BlocksPerArena(d)
  BY <1>1, ListedBlocks DEF HeapOK
<1>7. BlocksPerArena(d) \in Nat
  BY <1>1, PerArena
<1> QED BY <1>5, <1>6, <1>7

(* What was written to a block is still there.                             *)
LEMMA ContentsAreKept ==
  ASSUME HeapOK
  PROVE  ContentsKept
<1>1. HeldKept /\ OldKept /\ HeadersKept /\ LinksKept
  BY DEF HeapOK, Kept
<1>2. \A b \in Free : mem[b] = "link"
  BY <1>1 DEF LinksKept, Free
<1>3. \A p \in Pages : \A u \in Headers(p) : mem[u] = "arena"
  BY <1>1 DEF HeadersKept
<1>4. ASSUME NEW h \in held \cup {job[t].old : t \in {u \in Callers : job[u].op = "realloc"}}, h # NoBlock
      PROVE  \A u \in Span(h.block, h.size) : mem[u] = "data"
  BY <1>1, <1>4 DEF HeldKept, OldKept, Keeps
<1> QED BY <1>2, <1>3, <1>4 DEF ContentsKept

(* Blocks are disjoint, lie in taken pages, are counted, and keep what     *)
(* their owners put there, whatever threads malloc, realloc and free, and  *)
(* however the steps of palloc_get_multiple, palloc_free_multiple and of   *)
(* the users of the page pool interleave (malloc.c, palloc.c).             *)
THEOREM HeapIsSound == Spec => []HeapInv
<1>1. KernelInv /\ LocksReleased /\ CallsGoOn => HeapInv
  BY BlocksAreDisjoint, ArenasCount, ContentsAreKept DEF KernelInv, HeapInv
<1> QED BY <1>1, KernelKeepsInv, LocksGiven, PTL

-----------------------------------------------------------------------------
(***************************************************************************)
(* What the invariants say of the pools.                                   *)
(***************************************************************************)
LEMMA OneOrNone ==
  ASSUME NEW S, NEW P, \A c, e \in S : c = e, P <=> S # {}
  PROVE  Cardinality(S) = IF P THEN 1 ELSE 0
<1>1. CASE S = {}
  BY <1>1, FS_EmptySet
<1>2. CASE S # {}
  <2>1. PICK c : S = {c}
    BY <1>2
  <2> QED BY <1>2, <2>1, FS_Singleton
<1> QED BY <1>1, <1>2

(* The owners of a page: an arena, a place in a tree, or a call.           *)
LEMMA OwnerKinds ==
  ASSUME NEW q \in Pages, NEW c
  PROVE  c \in Owners(q) <=>
           \/ \E x \in Pages : q \in ArenaPages(x) /\ c = <<"arena", x>>
           \/ \E p \in Procs : \E s \in Slots : NodeAt(p, s) = q /\ q \notin Freeing(p) /\
                c = <<"node", <<p, s>>>>
           \/ \E a \in Actors : q \in InHand(a) /\ c = <<"call", a>>
BY DEF Owners

(* A bit is set exactly when its page has one owner.                       *)
LEMMA EveryPageOwned ==
  ASSUME MemInv, HeapOK
  PROVE  PagesOwned
<1>0. SpansApart /\ OwnInv /\ Injective
  BY DEF HeapOK, MemInv, Trees
<1> SUFFICES ASSUME NEW q \in Pages \ Elsewhere
             PROVE  Cardinality(Owners(q)) = IF q \in used THEN 1 ELSE 0
  BY DEF PagesOwned
<1>1. q # NoPage
  BY NoPageFacts
<1> DEFINE InArena(c) == \E x \in Pages : q \in ArenaPages(x) /\ c = <<"arena", x>>
           InTree(c) == \E p \in Procs : \E s \in Slots :
                          NodeAt(p, s) = q /\ q \notin Freeing(p) /\ c = <<"node", <<p, s>>>>
           InCall(c) == \E a \in Actors : q \in InHand(a) /\ c = <<"call", a>>
<1>2. \A c : c \in Owners(q) <=> InArena(c) \/ InTree(c) \/ InCall(c)
  BY OwnerKinds
<1>3. \A c : InArena(c) => q \in HeapPages
  BY DEF HeapPages
<1>4. \A c : InTree(c) => \E p \in Procs : q \in TreePages(p)
  BY <1>1 DEF TreePages
<1>5. \A c : InCall(c) => \E a \in Actors : q \in InHand(a)
  OBVIOUS
<1>6. \A c, e : InArena(c) /\ InArena(e) => c = e
  <2>1. \A x, y \in Pages : q \in ArenaPages(x) /\ q \in ArenaPages(y) => x = y
    BY <1>0 DEF SpansApart, ArenaPages
  <2> QED BY <2>1
<1>7. \A c, e : InTree(c) /\ InTree(e) => c = e
  BY <1>0, <1>1 DEF Injective
<1>8. \A c, e : InCall(c) /\ InCall(e) => c = e
  BY <1>0 DEF OwnInv
<1>9. /\ q \in HeapPages => (\A p \in Procs : q \notin TreePages(p)) /\ \A a \in Actors : q \notin InHand(a)
      /\ \A p \in Procs : q \in TreePages(p) => \A a \in Actors : q \notin InHand(a)
  BY <1>0 DEF OwnInv
<1>10. \A c, e \in Owners(q) : c = e
  <2> HIDE DEF InArena, InTree, InCall
  <2> QED BY <1>2, <1>3, <1>4, <1>5, <1>6, <1>7, <1>8, <1>9
<1>11. q \in used => Owners(q) # {}
  <2>1. ASSUME q \in HeapPages PROVE Owners(q) # {}
    BY <1>2, <2>1 DEF HeapPages
  <2>2. ASSUME NEW p \in Procs, q \in TreePages(p) PROVE Owners(q) # {}
    BY <1>2, <2>2 DEF TreePages
  <2>3. ASSUME NEW a \in Actors, q \in InHand(a) PROVE Owners(q) # {}
    BY <1>2, <2>3
  <2> QED BY <1>0, <2>1, <2>2, <2>3 DEF OwnInv
<1>12. Owners(q) # {} => q \in used
  <2> HIDE DEF InArena, InTree, InCall
  <2> QED BY <1>0, <1>2, <1>3, <1>4, <1>5 DEF OwnInv
<1> QED BY <1>10, <1>11, <1>12, OneOrNone

(* A frame is in use exactly when it has one owner.                        *)
LEMMA EveryFrameOwned ==
  ASSUME MemInv
  PROVE  FramesOwned
<1>0. FrameInv
  BY DEF MemInv
<1> SUFFICES ASSUME NEW f \in Frames PROVE Cardinality(FrameOwners(f)) = IF f \in frames THEN 1 ELSE 0
  BY DEF FramesOwned
<1>1. f # NoPage
  BY NoPageFacts
<1> DEFINE IsMapped(c) == \E p \in Procs : \E va \in IndexPath : FrameAt(p, va) = f /\
             c = <<"mapped", <<p, va>>>>
           InCall(c) == \E p \in Procs : walk[p].frame = f /\ c = <<"call", p>>
<1>2. \A c : c \in FrameOwners(f) <=> IsMapped(c) \/ InCall(c)
  BY DEF FrameOwners, IndexPath
<1>3. \A c, e : IsMapped(c) /\ IsMapped(e) => c = e
  BY <1>0, <1>1 DEF FrameInv
<1>4. \A c, e : InCall(c) /\ InCall(e) => c = e
  BY <1>0, <1>1 DEF FrameInv
<1>5. \A c, e : ~(IsMapped(c) /\ InCall(e))
  BY <1>0, <1>1 DEF FrameInv
<1>6. \A c, e \in FrameOwners(f) : c = e
  <2> HIDE DEF IsMapped, InCall
  <2> QED BY <1>2, <1>3, <1>4, <1>5
<1>7. f \in frames <=> FrameOwners(f) # {}
  <2>1. f \in frames => FrameOwners(f) # {}
    <3>1. ASSUME NEW p \in Procs, NEW va \in IndexPath, FrameAt(p, va) = f PROVE FrameOwners(f) # {}
      <4>1. IsMapped(<<"mapped", <<p, va>>>>)
        BY <3>1
      <4> QED BY <4>1, <1>2
    <3>2. ASSUME NEW p \in Procs, walk[p].frame = f PROVE FrameOwners(f) # {}
      <4>1. InCall(<<"call", p>>)
        BY <3>2
      <4> QED BY <4>1, <1>2
    <3> HIDE DEF IsMapped, InCall
    <3> QED BY <1>0, <3>1, <3>2 DEF FrameInv
  <2>2. FrameOwners(f) # {} => f \in frames
    BY <1>0, <1>2 DEF FrameInv
  <2> QED BY <2>1, <2>2
<1> QED BY <1>6, <1>7, OneOrNone

(* Every page of the kernel pool, and every frame of the user pool that    *)
(* mmu.c has, belongs to exactly one owner while its bit is set and to     *)
(* none while it is not, between any two steps of palloc.c, malloc.c and   *)
(* mmu.c: nothing is lost, nothing is given out twice.                     *)
THEOREM PoolIsSound == Spec => []PoolInv
<1>1. MemInv /\ HeapOK => TypeOK
  BY DEF MemInv, HeapOK, PoolTypes, HeapTypes, Trees, TreeTypes, TypeOK
<1>2. KernelInv => PoolInv
  BY <1>1, EveryPageOwned, EveryFrameOwned DEF KernelInv, PoolInv
<1> QED BY <1>2, KernelKeepsInv, PTL

-----------------------------------------------------------------------------
(* Every step of the whole, or none, is one of the maps or leaves them.    *)
LEMMA StepShown ==
  ASSUME KernelInv, CacheInv, [Next]_vars
  PROVE  Shown
<1>0. load \in Loads /\ MemInv /\ PoolTypes
  BY DEF KernelInv, MemInv
<1>1. ASSUME NEW t \in Callers, HeapStep(t), UNCHANGED tableVars PROVE Shown
  <2>1. \A p \in Procs : p \in Actors /\ p # t
    BY ActorFacts
  <2>2. \A p \in Procs : at'[p] = at[p]
    BY <1>0, <1>1, <2>1, CallerOnly
  <2> QED BY <1>0, <1>1, <2>2, ElsewhereShown
<1>2. ASSUME UNCHANGED load, NEW p \in Procs, UNCHANGED heapVars,
             TableStep(p) \/ \E va \in load.touched : UseStep(p, va)
      PROVE  Shown
  <2>1. TableStep(p) \/ \E va \in Vas : UseStep(p, va)
    BY <1>0, <1>2, LoadFacts
  <2> QED BY <1>0, <1>2, <2>1, TableShown
<1>3. ASSUME UNCHANGED <<poolVars, tableVars>> PROVE Shown
  BY <1>0, <1>3, ElsewhereShown DEF poolVars
<1> QED BY <1>1, <1>2, <1>3 DEF Next, vars

(* At boot the processor has no translation.                               *)
LEMMA CacheEmpty ==
  ASSUME Init
  PROVE  CacheInv
BY NoTreeYet DEF Init, TablesInit, CacheInv

(* Whatever the processor has cached is what the tables of the process     *)
(* that runs say.                                                          *)
THEOREM CacheIsCurrent == Spec => [](KernelInv /\ CacheInv)
<1>1. Init => KernelInv /\ CacheInv
  BY MemInit, HeapIsEmpty, CacheEmpty DEF KernelInv
<1>2. KernelInv /\ CacheInv /\ [Next]_vars => (KernelInv /\ CacheInv)'
  BY KernelStep, StepShown DEF Shown
<1> QED BY <1>1, <1>2, PTL DEF Spec

(* The translation lookaside buffer is never behind the page tables, and   *)
(* the tables that the processor uses are never freed ones.                *)
THEOREM ProcessorIsSound == Spec => []ProcessorInv
<1>1. ASSUME KernelInv, CacheInv PROVE ProcessorInv
  <2>0. TreeTypes
    BY <1>1 DEF KernelInv, MemInv, Trees
  <2>1. PICK r \in Procs : r = running
    BY <2>0 DEF TreeTypes
  <2>2. ASSUME NEW e \in tlb
        PROVE  /\ Mapped(cr3, e.va) /\ GetPage(cr3, e.va) = e.frame
               /\ Entry(cr3, e.va).accessed
               /\ e.dirty => Entry(cr3, e.va).dirty
    <3>1. FrameAt(r, e.va) = e.frame /\ Cell(r, e.va).accessed /\ (e.dirty => Cell(r, e.va).dirty)
      BY <1>1, <2>1, <2>2 DEF CacheInv, Cached
    <3>2. e.frame # NoPage
      BY <2>0, <2>2, NoPageFacts DEF TreeTypes
    <3>3. /\ Top(r) = (IF root[r] # NoPage THEN root[r] ELSE walk[r].root)
          /\ Entry(Top(r), e.va) = Cell(r, e.va) /\ Mapped(Top(r), e.va)
          /\ GetPage(Top(r), e.va) = FrameAt(r, e.va)
      BY <3>1, <3>2, EntryIs
    <3>4. Top(r) = cr3
      BY <1>1, <2>1, <2>2, <3>3 DEF CacheInv
    <3> QED BY <3>1, <3>3, <3>4
  <2>3. ActiveTreeWhole
    BY <1>1, <2>1 DEF CacheInv, ActiveTreeWhole
  <2> QED BY <2>2, <2>3 DEF ProcessorInv, TlbCurrent
<1> QED BY <1>1, CacheIsCurrent, PTL

(* The trees implement maps: each step of mmu.c and of the processor is a  *)
(* step of AddressMaps or shows nothing.                                   *)
THEOREM TreesAreMaps == Spec => ImplementsAddressMaps
<1>1. Init => Maps!Init
  <2> SUFFICES ASSUME Init PROVE Maps!Init
    OBVIOUS
  <2>1. \A p \in Procs : \A va \in Vas : MapCell(p, va) = NotMapped
    BY NoTreeYet DEF MapCell
  <2> QED BY <2>1, MapIs DEF Maps!Init, Maps!Nothing
<1>2. KernelInv /\ CacheInv /\ [Next]_vars => [Maps!Next]_AddressMap
  BY StepShown DEF Shown
<1> QED BY <1>1, <1>2, CacheIsCurrent, PTL DEF Spec, ImplementsAddressMaps, Maps!Spec
=============================================================================
