---------------------------- MODULE FramesProofs ----------------------------
(***************************************************************************)
(* What a program wrote to its memory stays there through any number of    *)
(* evictions, for any address space, frames, slots and mapped files.       *)
(***************************************************************************)
EXTENDS Frames, FiniteSetTheorems, TLAPS

(* Each frame of frame_table is of a page that has been claimed, and it is *)
(* the one that the page is in if that is anonymous.                       *)
FramesHeld ==
  /\ used # 0
  /\ \A f \in Frame :
       IF f <= used
         THEN /\ owner[f] \in VA /\ page[owner[f]].ops \in {"anon", "file"}
              /\ page[owner[f]].ops = "anon" => frame[owner[f]] = f
         ELSE owner[f] = 0

(* The operations of a page follow its type, the stack has no holes, and   *)
(* dirty bits are of present file pages.                                   *)
PagesTyped ==
  /\ \A va \in VA :
       /\ page[va].ops = "none" <=> page[va].type = "none"
       /\ page[va].ops = "file" => page[va].type = "file"
       /\ page[va].ops = "anon" => page[va].type \in {"segment", "stack"}
       /\ page[va].ops = "uninit" => page[va].type \in {"segment", "file"}
  /\ \A va \in stackBottom..Top : Found(va)
  /\ \A va \in dirty : Present(va) /\ page[va].type = "file"

(* The tables agree.                                                       *)
TablesKept == FramesInv /\ FramesHeld /\ PagesTyped

(* ContentsKept, of the pages too that stay in the table after munmap.     *)
ContentsHeld ==
  state = "run" =>
    \A va \in VA : Found(va) /\ memory[va] # Unknown /\ (page[va].type = "file" => page[va].backed)
      => Visible(va) = memory[va]

(* A page that is not dirty is in its file, too.                           *)
CleanSaved ==
  state = "run" =>
    \A va \in VA :
      /\ ~Found(va) => memory[va] = Unknown
      /\ Present(va) /\ page[va].type = "file" /\ page[va].backed /\ va \notin dirty
         => disk[va] = mem[frame[va]]

-----------------------------------------------------------------------------
(* A set of numbers has a least one.  If it had none, all the numbers up   *)
(* to one of it would be greater than another of it, 0 included; but there *)
(* is no way to pair finitely many of them with all but one.               *)
LEMMA Least ==
  ASSUME NEW S \in SUBSET Nat, S # {}
  PROVE  \E x \in S : \A y \in S : x <= y
<1> SUFFICES ASSUME \A x \in S : \E y \in S : y < x PROVE FALSE
  OBVIOUS
<1>1. PICK n \in S : TRUE
  OBVIOUS
<1> DEFINE D == {m \in 0..n : \E y \in S : y <= m}
           down == [m \in D |-> m - 1]
<1>2. n \in D /\ D \in SUBSET (0..n)
  BY <1>1
<1>3. IsFiniteSet(D)
  <2>1. IsFiniteSet(0..n)
    BY <1>1, FS_Interval
  <2> HIDE DEF D
  <2> QED BY <1>2, <2>1, FS_Subset
<1>4. ASSUME NEW m \in D PROVE m - 1 \in D \ {n}
  <2>1. PICK y \in S : y <= m
    OBVIOUS
  <2>2. PICK z \in S : z < y
    OBVIOUS
  <2>3. m \in 0..n /\ n \in Nat /\ y \in Nat /\ z \in Nat
    BY <1>1
  <2>4. m - 1 \in 0..n /\ z <= m - 1 /\ m - 1 # n
    BY <2>1, <2>2, <2>3
  <2> QED BY <2>4
<1>5. down \in Injection(D, D \ {n})
  <2>1. down \in [D -> D \ {n}]
    BY <1>4
  <2>2. \A a, b \in D : down[a] = down[b] => a = b
    BY <1>2
  <2> QED BY <2>1, <2>2 DEF Injection, IsInjective
<1>6. /\ IsFiniteSet(D \ {n}) /\ Cardinality(D) \in Nat
      /\ Cardinality(D \ {n}) = Cardinality(D) - 1
  <2> HIDE DEF D
  <2> QED BY <1>2, <1>3, FS_RemoveElement, FS_CardinalityType
<1>7. Cardinality(D) <= Cardinality(D \ {n})
  BY <1>3, <1>5, <1>6, FS_Injection
<1> QED BY <1>6, <1>7

(* Min of slots is one of them.                                            *)
LEMMA MinIsIn ==
  ASSUME NEW S \in SUBSET Nat, S # {}
  PROVE  Min(S) \in S
BY Least DEF Min

(* vm_get_victim finds a frame.                                            *)
LEMMA VictimIsIn ==
  ASSUME TypeOK, used # 0
  PROVE  /\ Victim \in 1..used
         /\ NotPassed # {} => Victim \in NotPassed
<1>1. used \in Nat /\ start \in Nat /\ \A f \in 1..used : Turn(f) \in 0..(2 * used)
  BY FramesAssumption DEF TypeOK, Turn
<1>2. ASSUME NEW S \in SUBSET (1..used), S # {} PROVE Earliest(S) \in S
  <2> DEFINE T == {Turn(f) : f \in S}
  <2>0. \A f \in S : Turn(f) \in Nat
    BY <1>1, <1>2
  <2>1. T \in SUBSET Nat /\ T # {}
    BY <1>2, <2>0
  <2>2. \E x \in T : \A y \in T : x <= y
    <3> HIDE DEF T
    <3> QED BY <2>1, Least
  <2>3. \E f \in S : \A g \in S : Turn(f) <= Turn(g)
    BY <2>2
  <2> QED BY <2>3 DEF Earliest
<1>3. ASSUME NEW S \in SUBSET (1..used), S # {} PROVE Latest(S) \in S
  <2> DEFINE T == {2 * used - Turn(f) : f \in S}
  <2>0. \A f \in S : 2 * used - Turn(f) \in Nat
    BY <1>1, <1>3
  <2>1. T \in SUBSET Nat /\ T # {}
    BY <1>3, <2>0
  <2>2. \E x \in T : \A y \in T : x <= y
    <3> HIDE DEF T
    <3> QED BY <2>1, Least
  <2>3. \E f \in S : \A g \in S : 2 * used - Turn(f) <= 2 * used - Turn(g)
    BY <2>2
  <2>4. \E f \in S : \A g \in S : Turn(f) >= Turn(g)
    BY <2>3, <1>1
  <2> QED BY <2>4 DEF Latest
<1>4. NotPassed \in SUBSET (1..used) /\ 1..used # {}
  BY <1>1 DEF NotPassed
<1>5. 1..used \in SUBSET (1..used)
  OBVIOUS
<1>6. CASE NotPassed = {}
  BY <1>3, <1>4, <1>5, <1>6 DEF Victim
<1>7. CASE NotPassed # {}
  BY <1>2, <1>4, <1>7 DEF Victim
<1> QED BY <1>6, <1>7

-----------------------------------------------------------------------------
(* The frame that vm_get_frame returns: a new one without an owner, or one *)
(* whose owner is not the page that is claimed.                            *)
LEMMA Claimed ==
  ASSUME TablesKept
  PROVE  LET f == Claimable
             out == owner[f]
         IN  /\ f \in Frame
             /\ IF PoolFree THEN f = used + 1 /\ out = 0
                ELSE /\ f \in 1..used /\ out \in VA /\ page[out].ops \in {"anon", "file"}
                     /\ page[out].ops = "anon" => frame[out] = f
<1>1. /\ TypeOK /\ used \in 1..NumFrames /\ NumFrames \in Nat /\ NumFrames > 0
  BY FramesAssumption DEF TablesKept, FramesInv, TypeOK, FramesHeld
<1>2. CASE PoolFree
  <2>1. Claimable = used + 1 /\ used + 1 \in Frame
    BY <1>1, <1>2 DEF Claimable, PoolFree, Frame
  <2>2. owner[used + 1] = 0
    BY <1>1, <2>1 DEF TablesKept, FramesHeld
  <2> QED BY <1>2, <2>1, <2>2
<1>3. CASE ~PoolFree
  <2>1. Claimable \in 1..used
    BY <1>1, <1>3, VictimIsIn DEF Claimable
  <2>2. Claimable \in Frame /\ Claimable <= used
    BY <1>1, <2>1 DEF Frame
  <2> QED BY <1>3, <2>1, <2>2 DEF TablesKept, FramesHeld
<1> QED BY <1>2, <1>3

(* What vm_do_claim_page does, one table at a time, if a page that goes to *)
(* swap goes to slot.                                                      *)
Effect(va, p, slot) ==
  LET f == Claimable
      out == owner[f]
      toSwap == out # 0 /\ page[out].ops = "anon"
      toFile == out # 0 /\ WrittenBack(out)
  IN  /\ toSwap => slot \in FreeSlots
      /\ page' = [w \in VA |-> IF w = va THEN Initialized(p)
                  ELSE IF toSwap /\ w = out THEN [page[w] EXCEPT !.slot = slot] ELSE page[w]]
      /\ swap' = [s \in Slot |-> IF p.ops = "anon" /\ s = p.slot THEN Unused
                  ELSE IF toSwap /\ s = slot THEN mem[f] ELSE swap[s]]
      /\ disk' = [w \in VA |-> IF toFile /\ w = out THEN mem[frame[out]] ELSE disk[w]]
      /\ frame' = [w \in VA |-> IF w = va THEN f ELSE IF w = out THEN 0 ELSE frame[w]]
      /\ owner' = [g \in Frame |-> IF g = f THEN va ELSE owner[g]]
      /\ mem' = [g \in Frame |-> IF g = f THEN Contents(va, p, f, disk') ELSE mem[g]]
      /\ used' = IF out = 0 THEN f ELSE used
      /\ start' \in {start, f} /\ dirty' = dirty \ {va, out}
      /\ accessed' \subseteq accessed \cup {out}

(* It does that, with a free slot where it needs one.                      *)
LEMMA ClaimEffect ==
  ASSUME TablesKept, NEW va \in VA, ~Present(va), NEW p \in PageType,
         ~SwapFull(Claimable), Claim(va, p, Claimable),
         p.ops = "anon" => p.slot \in Slot /\ swap[p.slot] # Unused
  PROVE  \E slot \in 0..NumSlots : Effect(va, p, slot)
<1> DEFINE f == Claimable
           out == owner[f]
           toSwap == out # 0 /\ page[out].ops = "anon"
           toFile == out # 0 /\ WrittenBack(out)
           slot == IF toSwap THEN Min(FreeSlots) ELSE 0
<1>1. /\ f \in Frame /\ out # 0 => out \in VA
      /\ page \in [VA -> PageType] /\ swap \in [Slot -> Values \cup {Unused}]
      /\ disk \in [VA -> Values] /\ owner \in [Frame -> 0..Top] /\ mem \in [Frame -> Values]
      /\ NumSlots \in Nat
  BY Claimed, FramesAssumption DEF TablesKept, FramesInv, TypeOK
<1>2. slot \in 0..NumSlots /\ (toSwap => slot \in FreeSlots)
  <2>1. CASE toSwap
    <3>1. FreeSlots # {}
      BY <2>1 DEF SwapFull
    <3>2. FreeSlots \in SUBSET Nat /\ FreeSlots \subseteq 0..NumSlots
      BY <1>1 DEF FreeSlots, Slot
    <3> QED BY <2>1, <3>1, <3>2, MinIsIn
  <2> QED BY <1>1, <2>1
<1>3. page' = [w \in VA |-> IF w = va THEN Initialized(p)
                ELSE IF toSwap /\ w = out THEN [page[w] EXCEPT !.slot = slot] ELSE page[w]]
  BY <1>1 DEF Claim
<1>4. disk' = [w \in VA |-> IF toFile /\ w = out THEN mem[frame[out]] ELSE disk[w]]
  BY <1>1 DEF Claim
<1>5. swap' = [s \in Slot |-> IF p.ops = "anon" /\ s = p.slot THEN Unused
                ELSE IF toSwap /\ s = slot THEN mem[f] ELSE swap[s]]
  BY <1>1 DEF Claim, SlotFreed
<1>6. frame' = [w \in VA |-> IF w = va THEN f ELSE IF w = out THEN 0 ELSE frame[w]]
  BY DEF Claim, Installed
<1>7. /\ owner' = [g \in Frame |-> IF g = f THEN va ELSE owner[g]]
      /\ used' = IF out = 0 THEN f ELSE used
      /\ start' \in {start, f} /\ dirty' = dirty \ {va, out}
  BY <1>1 DEF Claim
<1>8. mem' = [g \in Frame |-> IF g = f THEN Contents(va, p, f, disk') ELSE mem[g]]
  BY <1>1 DEF Claim
<1>9. accessed' \subseteq accessed \cup {out}
  BY DEF Claim
<1> QED BY <1>2, <1>3, <1>4, <1>5, <1>6, <1>7, <1>8, <1>9 DEF Effect

-----------------------------------------------------------------------------
(* A page that is in a slot.                                               *)
Swapped(va) == page[va].ops = "anon" /\ ~Present(va)

(* SlotOfOnePage, slot by slot.                                            *)
SlotsAgree ==
  /\ \A va \in VA : Swapped(va) => page[va].slot \in Slot /\ swap[page[va].slot] # Unused
  /\ \A s \in Slot : swap[s] # Unused => \E va \in VA : Swapped(va) /\ page[va].slot = s
  /\ \A va, w \in VA : Swapped(va) /\ Swapped(w) /\ page[va].slot = page[w].slot => va = w

(* In this state and in the next.                                          *)
LEMMA SlotBySlot ==
  /\ SlotOfOnePage <=> SlotsAgree
  /\ SlotOfOnePage' <=> SlotsAgree'
<1>1. SlotOfOnePage <=> SlotsAgree
  BY DEF SlotOfOnePage, SlotsAgree, Swapped, FreeSlots
<1>2. SlotOfOnePage' <=> SlotsAgree'
  BY DEF SlotOfOnePage, SlotsAgree, Swapped, FreeSlots, Present
<1> QED BY <1>1, <1>2

(* The pages that are claimed: one of the table, or a new one of the stack.*)
Claims(va, p) ==
  /\ va \in VA /\ ~Present(va)
  /\ \/ Found(va) /\ p = page[va]
     \/ ~Found(va) /\ p = NewPage("stack", FALSE)

(* What such a page is.                                                    *)
LEMMA ClaimsWhat ==
  ASSUME TablesKept, NEW va, NEW p, Claims(va, p)
  PROVE  /\ p \in PageType /\ va \in VA /\ ~Present(va)
         /\ p.ops = "anon" => p.slot \in Slot /\ swap[p.slot] # Unused /\ page[va] = p
         /\ Initialized(p) \in PageType /\ Initialized(p).ops \in {"anon", "file"}
         /\ Initialized(p).type = p.type /\ Initialized(p).backed = p.backed
         /\ p.type # "none"
         /\ Initialized(p).ops = "file" <=> p.type = "file"
         /\ ~Found(va) => p.type = "stack"
<1>1. page \in [VA -> PageType] /\ NumSlots \in Nat /\ SlotsAgree /\ PagesTyped
  BY FramesAssumption, SlotBySlot DEF TablesKept, FramesInv, TypeOK
<1>2. CASE Found(va) /\ p = page[va]
  <2>1. /\ p \in PageType /\ p.ops # "none" /\ va \in VA /\ ~Present(va)
        /\ p.ops = "anon" => p.slot \in Slot /\ swap[p.slot] # Unused
    BY <1>1, <1>2 DEF Claims, Found, SlotsAgree, Swapped
  <2>2. /\ p.ops = "file" => p.type = "file"
        /\ p.ops = "anon" => p.type \in {"segment", "stack"}
        /\ p.ops = "uninit" => p.type \in {"segment", "file"}
    BY <1>1, <1>2, <2>1 DEF PagesTyped
  <2>3. CASE p.ops = "uninit"
    BY <1>2, <2>1, <2>2, <2>3 DEF Initialized, PageType
  <2>4. CASE p.ops # "uninit"
    BY <1>2, <2>1, <2>2, <2>4 DEF Initialized, PageType
  <2> QED BY <2>3, <2>4
<1>3. CASE ~Found(va) /\ p = NewPage("stack", FALSE)
  <2>1. /\ p = [ops |-> "uninit", type |-> "stack", backed |-> FALSE, slot |-> 0]
        /\ p \in PageType /\ 0 \in 0..NumSlots
    BY <1>1, <1>3 DEF NewPage, PageType
  <2>2. Initialized(p) = [ops |-> "anon", type |-> "stack", backed |-> FALSE, slot |-> 0]
    BY <2>1 DEF Initialized
  <2>3. [ops |-> "anon", type |-> "stack", backed |-> FALSE, slot |-> 0] \in PageType
    BY <2>1 DEF PageType
  <2>4. p.ops = "uninit" /\ p.type = "stack" /\ p.backed = FALSE
    BY <2>1
  <2>5. /\ Initialized(p).ops = "anon" /\ Initialized(p).type = "stack"
        /\ Initialized(p).backed = FALSE /\ Initialized(p) \in PageType
    BY <2>2, <2>3
  <2>6. p \in PageType
    BY <2>1
  <2> QED BY <2>4, <2>5, <2>6 DEF Claims
<1> QED BY <1>2, <1>3 DEF Claims

(* The types of what a claim changes.                                      *)
TablesTyped ==
  /\ page \in [VA -> PageType] /\ frame \in [VA -> 0..NumFrames]
  /\ accessed \subseteq VA /\ dirty \subseteq VA
  /\ used \in 0..NumFrames /\ start \in 0..NumFrames /\ owner \in [Frame -> 0..Top]
  /\ mem \in [Frame -> Values] /\ swap \in [Slot -> Values \cup {Unused}]
  /\ disk \in [VA -> Values]

(* A claim keeps them.                                                     *)
LEMMA ClaimTypes ==
  ASSUME TablesKept, NEW va, NEW p, Claims(va, p), ~SwapFull(Claimable),
         Claim(va, p, Claimable)
  PROVE  TablesTyped'
<1> USE DEF Effect
<1> DEFINE f == Claimable
           out == owner[f]
           toSwap == out # 0 /\ page[out].ops = "anon"
           toFile == out # 0 /\ WrittenBack(out)
<1>1. /\ f \in Frame /\ f \in 0..NumFrames /\ NumFrames \in Nat /\ NumSlots \in Nat
      /\ out # 0 => out \in VA
      /\ page \in [VA -> PageType] /\ swap \in [Slot -> Values \cup {Unused}]
      /\ disk \in [VA -> Values] /\ owner \in [Frame -> 0..Top] /\ mem \in [Frame -> Values]
      /\ frame \in [VA -> 0..NumFrames] /\ accessed \subseteq VA /\ dirty \subseteq VA
      /\ used \in 0..NumFrames /\ start \in 0..NumFrames
      /\ 0 \in Values /\ Top \in Nat
  BY Claimed, FramesAssumption DEF TablesKept, FramesInv, TypeOK, Frame
<1>2. /\ va \in VA /\ ~Present(va) /\ p \in PageType /\ Initialized(p) \in PageType
      /\ p.ops = "anon" => p.slot \in Slot /\ swap[p.slot] # Unused
  BY ClaimsWhat
<1>3. PICK slot \in 0..NumSlots : Effect(va, p, slot)
  BY <1>2, ClaimEffect
<1>4. toFile => mem[frame[out]] \in Values
  <2>1. toFile => out \in dirty /\ Present(out)
    BY DEF WrittenBack, TablesKept, PagesTyped
  <2> QED BY <1>1, <2>1 DEF Present, Frame
<1>5. disk' \in [VA -> Values]
  BY <1>1, <1>3, <1>4
<1>6. Contents(va, p, f, disk') \in Values
  BY <1>1, <1>2, <1>5 DEF Contents
<1>7. mem' \in [Frame -> Values]
  BY <1>1, <1>3, <1>6
<1>8. page' \in [VA -> PageType]
  <2>1. ASSUME NEW w \in VA, NEW slot1 \in 0..NumSlots PROVE [page[w] EXCEPT !.slot = slot1] \in PageType
    BY <1>1, <2>1 DEF PageType
  <2> QED BY <1>1, <1>2, <1>3, <2>1
<1>9. swap' \in [Slot -> Values \cup {Unused}]
  BY <1>1, <1>3
<1>10. frame' \in [VA -> 0..NumFrames] /\ owner' \in [Frame -> 0..Top]
  BY <1>1, <1>2, <1>3 DEF VA
<1>11. used' \in 0..NumFrames /\ start' \in 0..NumFrames /\ dirty' \subseteq VA
  BY <1>1, <1>3
<1>12. accessed' \subseteq VA
  <2>1. accessed' \subseteq {owner'[g] : g \in 1..used'}
    BY DEF Claim, Owners
  <2>2. 0 \notin {owner'[g] : g \in 1..used'}
    <3>1. ASSUME NEW g \in 1..used' PROVE owner'[g] # 0
      <4>1. /\ g \in Frame /\ va # 0 /\ owner'[g] = IF g = f THEN va ELSE owner[g]
        BY <1>1, <1>2, <1>3, <1>11 DEF Frame, VA
      <4>2. CASE g = f
        BY <4>1, <4>2
      <4>3. CASE g # f
        <5>1. g <= used
          BY <1>1, <1>3, <4>1, <4>3, Claimed
        <5> QED BY <1>1, <4>1, <4>3, <5>1 DEF TablesKept, FramesHeld, VA
      <4> QED BY <4>2, <4>3
    <3> QED BY <3>1
  <2> QED BY <1>1, <1>3, <2>1, <2>2 DEF VA
<1> QED BY <1>5, <1>7, <1>8, <1>9, <1>10, <1>11, <1>12 DEF TablesTyped

(* The tables agree after a claim, the stack apart, and no page is lost.   *)
LEMMA ClaimTables ==
  ASSUME TablesKept, NEW va, NEW p, Claims(va, p), ~SwapFull(Claimable),
         Claim(va, p, Claimable)
  PROVE  /\ FrameOfOnePage' /\ SlotOfOnePage' /\ FramesHeld'
         /\ \A w \in VA : w = va \/ Found(w) => Found(w)'
         /\ stackBottom' \in VA /\ (\A w \in stackBottom'..Top : w = va \/ Found(w))
            => PagesTyped'
<1> USE DEF Effect
<1> DEFINE f == Claimable
           out == owner[f]
           toSwap == out # 0 /\ page[out].ops = "anon"
           toFile == out # 0 /\ WrittenBack(out)
<1>1. /\ f \in Frame /\ f # 0 /\ NumFrames \in Nat /\ used \in 1..NumFrames
      /\ IF PoolFree THEN f = used + 1 /\ out = 0
         ELSE /\ f \in 1..used /\ out \in VA /\ out # 0 /\ page[out].ops \in {"anon", "file"}
              /\ page[out].ops = "anon" => frame[out] = f
  BY Claimed, FramesAssumption DEF TablesKept, FramesInv, TypeOK, Frame, VA, FramesHeld
<1>2. /\ va \in VA /\ va # 0 /\ frame[va] = 0 /\ p \in PageType
      /\ p.ops = "anon" => p.slot \in Slot /\ swap[p.slot] # Unused /\ page[va] = p
      /\ Initialized(p).ops \in {"anon", "file"} /\ Initialized(p).type = p.type
      /\ p.type # "none"
      /\ Initialized(p).ops = "file" <=> p.type = "file"
      /\ ~Found(va) => p.type = "stack"
      /\ Found(va) => p = page[va]
  <2>1. /\ va \in VA /\ ~Present(va) /\ p \in PageType
        /\ p.ops = "anon" => p.slot \in Slot /\ swap[p.slot] # Unused /\ page[va] = p
        /\ Initialized(p).ops \in {"anon", "file"} /\ Initialized(p).type = p.type
        /\ p.type # "none"
        /\ Initialized(p).ops = "file" <=> p.type = "file"
        /\ ~Found(va) => p.type = "stack"
    BY ClaimsWhat
  <2>2. Found(va) => p = page[va]
    BY DEF Claims
  <2>3. va # 0 /\ frame[va] = 0
    BY <2>1 DEF VA, Present
  <2> QED BY <2>1, <2>2, <2>3
<1>3. PICK slot \in 0..NumSlots : Effect(va, p, slot)
  BY <1>2, ClaimEffect DEF Present
<1>4. used' \in 1..NumFrames /\ f \in 1..used' /\ \A g \in Frame \ {f} : g <= used' <=> g <= used
  BY <1>1, <1>3 DEF Frame
<1>5. \A w \in VA : /\ page[w] \in PageType /\ page'[w].ops = IF w = va THEN Initialized(p).ops ELSE page[w].ops
                    /\ page'[w].type = IF w = va THEN p.type ELSE page[w].type
                    /\ page'[w].slot = IF w = va THEN Initialized(p).slot
                                       ELSE IF toSwap /\ w = out THEN slot ELSE page[w].slot
  <2>1. ASSUME NEW w \in VA PROVE page[w] \in PageType
    BY DEF TablesKept, FramesInv, TypeOK
  <2>2. ASSUME NEW w \in VA
        PROVE  LET r == [page[w] EXCEPT !.slot = slot]
               IN  r.ops = page[w].ops /\ r.type = page[w].type /\ r.slot = slot
    BY <2>1 DEF PageType
  <2> QED BY <1>2, <1>3, <2>1, <2>2
<1>6. FrameOfOnePage'
  <2>1. ASSUME NEW w \in VA, frame'[w] # 0
        PROVE  /\ frame'[w] \in 1..used' /\ owner'[frame'[w]] = w
               /\ page'[w].ops \notin {"none", "uninit"}
    <3>1. CASE w = va
      BY <1>1, <1>2, <1>3, <1>4, <1>5, <3>1
    <3>2. CASE w # va
      <4>1. w # out /\ frame'[w] = frame[w] /\ frame[w] # 0
        BY <1>3, <2>1, <3>2
      <4>2. /\ frame[w] \in 1..used /\ owner[frame[w]] = w
            /\ page[w].ops \notin {"none", "uninit"}
        BY <4>1 DEF TablesKept, FramesInv, FrameOfOnePage, Present, Found
      <4>3. frame[w] # f /\ frame[w] \in Frame
        BY <1>1, <4>1, <4>2 DEF Frame
      <4> QED BY <1>1, <1>3, <1>4, <1>5, <3>2, <4>1, <4>2, <4>3
    <3> QED BY <3>1, <3>2
  <2> QED BY <2>1 DEF FrameOfOnePage, Present, Found
<1>7. FramesHeld'
  <2>1. ASSUME NEW g \in Frame, g <= used'
        PROVE  /\ owner'[g] \in VA /\ page'[owner'[g]].ops \in {"anon", "file"}
               /\ page'[owner'[g]].ops = "anon" => frame'[owner'[g]] = g
    <3>1. CASE g = f
      BY <1>2, <1>3, <1>5, <3>1
    <3>2. CASE g # f
      <4>1. /\ owner'[g] = owner[g] /\ owner[g] \in VA /\ page[owner[g]].ops \in {"anon", "file"}
            /\ page[owner[g]].ops = "anon" => frame[owner[g]] = g
        BY <1>3, <1>4, <2>1, <3>2 DEF TablesKept, FramesHeld
      <4>2. CASE owner[g] = va
        <5>1. g # 0
          BY DEF Frame
        <5>2. page[va].ops = "file" /\ Found(va)
          BY <1>2, <4>1, <4>2, <5>1 DEF Found
        <5>3. page[va].type = "file"
          BY <1>2, <5>2 DEF TablesKept, PagesTyped
        <5> QED BY <1>2, <1>5, <4>1, <4>2, <5>2, <5>3
      <4>3. CASE owner[g] # va
        <5>1. page[owner[g]].ops = "anon" => owner[g] # out
          BY <1>1, <3>2, <4>1 DEF VA
        <5> QED BY <1>3, <1>5, <4>1, <4>3, <5>1
      <4> QED BY <4>2, <4>3
    <3> QED BY <3>1, <3>2
  <2>2. ASSUME NEW g \in Frame, ~(g <= used') PROVE owner'[g] = 0
    <3>1. g # f /\ ~(g <= used)
      BY <1>4, <2>2 DEF Frame
    <3> QED BY <1>3, <3>1 DEF TablesKept, FramesHeld
  <2> QED BY <1>4, <2>1, <2>2 DEF FramesHeld
<1>8. \A w \in VA : w = va \/ Found(w) => Found(w)'
  BY <1>2, <1>5 DEF Found
<1>9. ASSUME stackBottom' \in VA, \A w \in stackBottom'..Top : w = va \/ Found(w)
      PROVE  PagesTyped'
  <2>1. ASSUME NEW w \in VA
        PROVE  /\ page'[w].ops = "none" <=> page'[w].type = "none"
               /\ page'[w].ops = "file" => page'[w].type = "file"
               /\ page'[w].ops = "anon" => page'[w].type \in {"segment", "stack"}
               /\ page'[w].ops = "uninit" => page'[w].type \in {"segment", "file"}
    <3>1. CASE w = va
      BY <1>2, <1>5, <3>1 DEF PageType
    <3>2. CASE w # va
      BY <1>5, <3>2 DEF TablesKept, PagesTyped
    <3> QED BY <3>1, <3>2
  <2>2. ASSUME NEW w \in stackBottom'..Top PROVE Found(w)'
    <3>1. w \in VA
      BY <1>9, FramesAssumption DEF VA
    <3> QED BY <1>8, <1>9, <2>2, <3>1
  <2>3. ASSUME NEW w \in dirty' PROVE frame'[w] # 0 /\ page'[w].type = "file"
    <3>1. w \in VA /\ w \notin {va, out} /\ frame[w] # 0 /\ page[w].type = "file"
      BY <1>3, <2>3 DEF TablesKept, FramesInv, TypeOK, PagesTyped, Present
    <3> QED BY <1>3, <1>5, <3>1
  <2> QED BY <2>1, <2>2, <2>3 DEF PagesTyped, Present
<1>10. SlotsAgree'
  <2>1. SlotsAgree
    BY SlotBySlot DEF TablesKept, FramesInv
  <2>2. mem[f] # Unused /\ (toSwap => out \in VA /\ frame[out] # 0 /\ slot \in Slot /\ swap[slot] = Unused)
    <3>1. mem[f] \in Nat
      BY <1>1, FramesAssumption DEF TablesKept, FramesInv, TypeOK
    <3> QED BY <1>1, <1>3, <3>1 DEF FreeSlots, Unused
  <2>3. p.ops = "anon" => Swapped(va) /\ page[va] = p
    BY <1>2 DEF Swapped, Present
  <2>4. Swapped(va) => p.ops = "anon"
    BY <1>2 DEF Swapped, Found
  <2>5. ASSUME NEW w \in VA
        PROVE  Swapped(w)' <=> w # va /\ (Swapped(w) \/ (toSwap /\ w = out))
    <3>1. Swapped(w)' <=> page'[w].ops = "anon" /\ frame'[w] = 0
      BY DEF Swapped, Present
    <3>2. Swapped(w) <=> page[w].ops = "anon" /\ frame[w] = 0
      BY DEF Swapped, Present
    <3>3. CASE w = va
      BY <1>1, <1>3, <3>1, <3>3
    <3>4. CASE w # va /\ w = out
      <4>1. w # 0
        BY DEF VA
      <4> QED BY <1>3, <1>5, <3>1, <3>2, <3>4, <4>1
    <3>5. CASE w # va /\ w # out
      BY <1>3, <1>5, <3>1, <3>2, <3>5
    <3> QED BY <3>3, <3>4, <3>5
  <2>6. \A w \in VA : Swapped(w) => ~(toSwap /\ w = out)
    BY <2>2 DEF Swapped, Present
  <2>7. ASSUME NEW w \in VA, w # va, Swapped(w)
        PROVE  /\ page'[w].slot = page[w].slot /\ page[w].slot \in Slot
               /\ swap'[page[w].slot] # Unused /\ (toSwap => page[w].slot # slot)
    <3>1. page[w].slot \in Slot /\ swap[page[w].slot] # Unused
      BY <2>1, <2>7 DEF SlotsAgree
    <3>2. p.ops = "anon" => page[w].slot # p.slot
      BY <1>2, <2>1, <2>3, <2>7 DEF SlotsAgree
    <3> QED BY <1>3, <1>5, <2>2, <2>6, <2>7, <3>1, <3>2
  <2>8. ASSUME toSwap, out # va
        PROVE  page'[out].slot = slot /\ slot \in Slot /\ swap'[slot] # Unused
    BY <1>2, <1>3, <1>5, <2>2, <2>8
  <2>9. ASSUME NEW w \in VA, Swapped(w)'
        PROVE  page'[w].slot \in Slot /\ swap'[page'[w].slot] # Unused
    BY <2>5, <2>7, <2>8, <2>9
  <2>10. ASSUME NEW s \in Slot, swap'[s] # Unused
         PROVE  \E w \in VA : Swapped(w)' /\ page'[w].slot = s
    <3>1. ~(p.ops = "anon" /\ s = p.slot)
      BY <1>3, <2>10
    <3>2. CASE toSwap /\ s = slot
      <4>1. out # va
        BY <1>2, <2>2, <3>2
      <4> QED BY <2>2, <2>5, <2>8, <3>2, <4>1
    <3>3. CASE ~(toSwap /\ s = slot)
      <4>1. swap[s] # Unused
        BY <1>3, <2>10, <3>1, <3>3
      <4>2. PICK w \in VA : Swapped(w) /\ page[w].slot = s
        BY <2>1, <4>1 DEF SlotsAgree
      <4>3. w # va
        BY <2>3, <2>4, <3>1, <4>2
      <4> QED BY <2>5, <2>7, <4>2, <4>3
    <3> QED BY <3>2, <3>3
  <2>11. ASSUME NEW w \in VA, NEW x \in VA, Swapped(w)', Swapped(x)', page'[w].slot = page'[x].slot
         PROVE  w = x
    <3>1. CASE Swapped(w) /\ Swapped(x)
      BY <2>1, <2>5, <2>7, <2>11, <3>1 DEF SlotsAgree
    <3>2. CASE ~Swapped(w) \/ ~Swapped(x)
      BY <2>5, <2>7, <2>8, <2>11, <3>2
    <3> QED BY <3>1, <3>2
  <2> QED BY <2>9, <2>10, <2>11 DEF SlotsAgree
<1> QED BY <1>6, <1>7, <1>8, <1>9, <1>10, SlotBySlot

(* Nor is anything that was written.                                       *)
LEMMA ClaimMemory ==
  ASSUME TablesKept, ContentsHeld, CleanSaved, state = "run", NEW va, NEW p, Claims(va, p),
         ~SwapFull(Claimable), Claim(va, p, Claimable), UNCHANGED <<state, history>>
  PROVE  ContentsHeld' /\ CleanSaved'
<1> USE DEF Effect, history
<1> DEFINE f == Claimable
           out == owner[f]
           toSwap == out # 0 /\ page[out].ops = "anon"
           toFile == out # 0 /\ WrittenBack(out)
<1>1. /\ f \in Frame /\ f # 0
      /\ out # 0 => out \in VA /\ page[out].ops \in {"anon", "file"} /\ (toSwap => frame[out] = f)
  BY Claimed DEF Frame, VA
<1>2. /\ va \in VA /\ va # 0 /\ frame[va] = 0 /\ ~Present(va) /\ p \in PageType
      /\ p.ops = "anon" => p.slot \in Slot /\ swap[p.slot] # Unused /\ page[va] = p
      /\ Initialized(p).type = p.type /\ Initialized(p).backed = p.backed
      /\ Initialized(p).ops \in {"anon", "file"} /\ p.type # "none"
      /\ ~Found(va) => p.type = "stack"
  BY ClaimsWhat DEF VA, Present
<1>3. Found(va) => p = page[va]
  BY DEF Claims
<1>4. PICK slot \in 0..NumSlots : Effect(va, p, slot)
  BY <1>2, ClaimEffect
<1>5. \A w \in VA : /\ page[w] \in PageType /\ page'[w].ops = IF w = va THEN Initialized(p).ops ELSE page[w].ops
                    /\ page'[w].type = IF w = va THEN p.type ELSE page[w].type
                    /\ page'[w].backed = IF w = va THEN p.backed ELSE page[w].backed
                    /\ page'[w].slot = IF w = va THEN Initialized(p).slot
                                       ELSE IF toSwap /\ w = out THEN slot ELSE page[w].slot
  <2>1. ASSUME NEW w \in VA PROVE page[w] \in PageType
    BY DEF TablesKept, FramesInv, TypeOK
  <2>2. ASSUME NEW w \in VA
        PROVE  LET r == [page[w] EXCEPT !.slot = slot]
               IN  /\ r.ops = page[w].ops /\ r.type = page[w].type /\ r.slot = slot
                   /\ r.backed = page[w].backed
    BY <2>1 DEF PageType
  <2> QED BY <1>2, <1>4, <2>1, <2>2
<1>6. toFile => out \in dirty /\ frame[out] # 0 /\ out # va
  BY <1>2 DEF TablesKept, PagesTyped, WrittenBack, Present
<1>7. disk'[va] = disk[va]
  BY <1>2, <1>4, <1>6
<1>8. mem'[f] = Contents(va, p, f, disk')
  BY <1>1, <1>4
<1>9. p.ops # "anon" /\ Found(va) => p.type # "stack"
  <2>1. Found(va) => p.ops \in {"uninit", "anon", "file"}
    BY <1>2, <1>3 DEF Found, PageType
  <2> QED BY <1>2, <1>3, <2>1 DEF TablesKept, PagesTyped
<1>10. p.type = "file" => p.ops # "anon"
  BY <1>2 DEF TablesKept, PagesTyped
<1>11. SlotsAgree
  BY SlotBySlot DEF TablesKept, FramesInv
<1>12. ASSUME NEW w \in VA, w # va, w # out, frame[w] # 0
       PROVE  mem'[frame[w]] = mem[frame[w]]
  <2>1. owner[frame[w]] = w /\ frame[w] \in Frame
    BY <1>12 DEF TablesKept, FramesInv, TypeOK, FrameOfOnePage, Present, Frame
  <2> QED BY <1>4, <1>12, <2>1
<1>13. ASSUME NEW w \in VA, Found(w)', memory[w] # Unknown, page'[w].type = "file" => page'[w].backed
       PROVE  Visible(w)' = memory[w]
  <2>0. /\ frame'[w] = IF w = va THEN f ELSE IF w = out THEN 0 ELSE frame[w]
        /\ Visible(w)' = IF frame'[w] # 0 THEN mem'[frame'[w]]
                         ELSE IF page'[w].ops = "anon" THEN swap'[page'[w].slot]
                         ELSE IF page'[w].type = "file" THEN disk'[w] ELSE 0
        /\ Visible(w) = IF frame[w] # 0 THEN mem[frame[w]]
                        ELSE IF page[w].ops = "anon" THEN swap[page[w].slot]
                        ELSE IF page[w].type = "file" THEN disk[w] ELSE 0
    BY <1>4 DEF Visible, Present
  <2>1. Found(w) /\ Visible(w) = memory[w]
    <3>1. Found(w)
      BY <1>13 DEF CleanSaved
    <3>2. page[w].type = "file" => page[w].backed
      BY <1>3, <1>5, <1>13, <3>1
    <3> QED BY <1>13, <3>1, <3>2 DEF ContentsHeld
  <2>2. CASE w = va
    <3>1. Visible(w)' = Contents(va, p, f, disk')
      BY <1>1, <1>8, <2>0, <2>2
    <3>2. Contents(va, p, f, disk') = Visible(w)
      BY <1>2, <1>3, <1>5, <1>7, <1>9, <1>10, <1>13, <2>0, <2>1, <2>2 DEF Contents
    <3> QED BY <2>1, <3>1, <3>2
  <2>3. CASE w # va /\ w = out
    <3>1. out # 0 /\ Visible(w)' = IF page[w].ops = "anon" THEN swap'[slot]
                                  ELSE IF page[w].type = "file" THEN disk'[w] ELSE 0
      BY <1>5, <2>0, <2>3 DEF VA
    <3>2. CASE toSwap
      <4>1. slot \in Slot /\ swap[slot] = Unused
        BY <1>4, <3>2 DEF FreeSlots
      <4>2. swap'[slot] = mem[f]
        BY <1>2, <1>4, <3>2, <4>1
      <4> QED BY <1>1, <2>0, <2>1, <2>3, <3>1, <3>2, <4>2
    <3>3. CASE ~toSwap
      <4>1. page[w].ops = "file" /\ page[w].type = "file" /\ page[w].backed
        BY <1>1, <1>5, <1>13, <2>3, <3>1, <3>3 DEF TablesKept, PagesTyped
      <4>2. CASE toFile
        BY <1>4, <1>6, <2>0, <2>1, <2>3, <3>1, <4>1, <4>2
      <4>3. CASE ~toFile
        <5>1. out \notin dirty /\ disk'[w] = disk[w]
          BY <1>4, <2>3, <3>1, <4>1, <4>3 DEF WrittenBack
        <5>2. frame[w] # 0 => disk[w] = mem[frame[w]]
          BY <2>3, <4>1, <5>1 DEF CleanSaved, Present
        <5> QED BY <2>0, <2>1, <3>1, <4>1, <5>1, <5>2
      <4> QED BY <4>2, <4>3
    <3> QED BY <3>2, <3>3
  <2>4. CASE w # va /\ w # out
    <3>1. CASE frame[w] # 0
      BY <1>12, <2>0, <2>1, <2>4, <3>1
    <3>2. CASE frame[w] = 0
      <4>1. disk'[w] = disk[w] /\ page'[w].slot = page[w].slot
        BY <1>4, <1>5, <2>4
      <4>2. ASSUME page[w].ops = "anon" PROVE swap'[page[w].slot] = swap[page[w].slot]
        <5>1. page[w].slot \in Slot /\ swap[page[w].slot] # Unused
          BY <1>11, <3>2, <4>2 DEF SlotsAgree, Swapped, Present
        <5>2. p.ops = "anon" => page[w].slot # p.slot
          BY <1>2, <1>11, <2>4, <3>2, <4>2 DEF SlotsAgree, Swapped, Present
        <5>3. toSwap => page[w].slot # slot
          BY <1>4, <5>1 DEF FreeSlots
        <5> QED BY <1>4, <5>1, <5>2, <5>3
      <4> QED BY <1>5, <2>0, <2>1, <2>4, <3>2, <4>1, <4>2
    <3> QED BY <3>1, <3>2
  <2> QED BY <2>2, <2>3, <2>4
<1>14. ASSUME NEW w \in VA
       PROVE  /\ ~Found(w)' => memory[w] = Unknown
              /\ frame'[w] # 0 /\ page'[w].type = "file" /\ page'[w].backed /\ w \notin dirty'
                 => disk'[w] = mem'[frame'[w]]
  <2>1. Found(w) => Found(w)'
    BY <1>2, <1>5 DEF Found
  <2>2. page'[w].type = "file" => page[w].type = "file" /\ (page'[w].backed => page[w].backed)
    BY <1>2, <1>3, <1>5
  <2>3. ASSUME frame'[w] # 0, page'[w].type = "file", page'[w].backed, w \notin dirty'
        PROVE  disk'[w] = mem'[frame'[w]]
    <3>1. CASE w = va
      BY <1>4, <1>5, <1>8, <1>10, <2>3, <3>1 DEF Contents
    <3>2. CASE w # va
      <4>1. w # out /\ frame'[w] = frame[w] /\ disk'[w] = disk[w] /\ w \notin dirty
        BY <1>4, <2>3, <3>2
      <4>2. disk[w] = mem[frame[w]]
        BY <2>2, <2>3, <4>1 DEF CleanSaved, Present
      <4> QED BY <1>12, <2>3, <3>2, <4>1, <4>2
    <3> QED BY <3>1, <3>2
  <2> QED BY <2>1, <2>2, <2>3 DEF CleanSaved
<1> QED BY <1>13, <1>14 DEF ContentsHeld, CleanSaved, Present

-----------------------------------------------------------------------------
(* Everything the program relies on, kept by every step.                   *)
MemoryInv == TablesKept /\ ContentsHeld /\ CleanSaved /\ MappedSaved

(* What stays when a claim is the step.                                    *)
LEMMA ClaimKeeps ==
  ASSUME MemoryInv, state = "run", NEW va, NEW p, Claims(va, p),
         ~SwapFull(Claimable), Claim(va, p, Claimable), UNCHANGED <<state, history>>,
         stackBottom' \in VA, \A w \in stackBottom'..Top : w = va \/ Found(w)
  PROVE  MemoryInv'
<1>1. TablesTyped' /\ FrameOfOnePage' /\ SlotOfOnePage' /\ FramesHeld' /\ PagesTyped'
  BY ClaimTypes, ClaimTables DEF MemoryInv
<1>2. TypeOK'
  BY <1>1 DEF TablesTyped, TypeOK, MemoryInv, TablesKept, FramesInv, history
<1>3. ContentsHeld' /\ CleanSaved'
  BY ClaimMemory DEF MemoryInv
<1>4. MappedSaved'
  BY DEF MappedSaved
<1> QED BY <1>1, <1>2, <1>3, <1>4 DEF MemoryInv, TablesKept, FramesInv

(* A page fault in the table, or below the stack.                          *)
LEMMA FaultKeeps ==
  ASSUME MemoryInv, NEW va \in VA, Fault(va) \/ StackGrowth(va)
  PROVE  MemoryInv' \/ Damage
<1>1. /\ stackBottom \in VA /\ Top \in Nat /\ \A w \in stackBottom..Top : Found(w)
  BY FramesAssumption DEF MemoryInv, TablesKept, FramesInv, TypeOK, PagesTyped
<1>2. CASE Fault(va) /\ ~Damage
  <2>1. /\ state = "run" /\ Claims(va, page[va]) /\ ~SwapFull(Claimable)
        /\ Claim(va, page[va], Claimable) /\ UNCHANGED <<stackBottom, state, history>>
    BY <1>2 DEF Fault, Claims
  <2> QED BY <1>1, <2>1, ClaimKeeps
<1>3. CASE StackGrowth(va) /\ ~Damage
  <2> DEFINE new == stackBottom - 1
             p == NewPage("stack", FALSE)
  <2>1. /\ state = "run" /\ ~Found(va) /\ ~Found(new) /\ ~SwapFull(Claimable)
        /\ Claim(new, p, Claimable) /\ stackBottom' = new /\ UNCHANGED <<state, history>>
    BY <1>3 DEF StackGrowth
  <2>2. new \in VA
    BY <1>1, <2>1 DEF VA
  <2>3. ~Present(new)
    BY <2>1, <2>2 DEF MemoryInv, TablesKept, FramesInv, FrameOfOnePage
  <2>4. Claims(new, p)
    BY <2>1, <2>2, <2>3 DEF Claims
  <2>5. \A w \in new..Top : w = new \/ Found(w)
    BY <1>1, <2>2 DEF VA
  <2> HIDE DEF new, p
  <2> QED BY <2>1, <2>2, <2>4, <2>5, ClaimKeeps
<1> QED BY <1>2, <1>3

(* Damage changes nothing but state.                                       *)
LEMMA DamageKeeps ==
  ASSUME MemoryInv, Damage
  PROVE  MemoryInv'
<1> USE DEF Damage, tableVars, pteVars, frameVars, storeVars, history
<1>1. TypeOK' /\ FrameOfOnePage'
  BY DEF MemoryInv, TablesKept, FramesInv, TypeOK, FrameOfOnePage, Present, Found
<1>2. SlotsAgree'
  BY SlotBySlot DEF MemoryInv, TablesKept, FramesInv, SlotsAgree, Swapped, Present
<1>3. FramesHeld' /\ PagesTyped'
  BY DEF MemoryInv, TablesKept, FramesHeld, PagesTyped, Present, Found
<1>4. ContentsHeld' /\ CleanSaved' /\ MappedSaved'
  BY DEF ContentsHeld, CleanSaved, MappedSaved
<1> QED BY <1>1, <1>2, <1>3, <1>4, SlotBySlot DEF MemoryInv, TablesKept, FramesInv

(* Reading and writing a present page.                                     *)
LEMMA AccessKeeps ==
  ASSUME MemoryInv, NEW va \in VA, Read(va) \/ \E v \in Values : Write(va, v)
  PROVE  MemoryInv'
<1> USE DEF tableVars, frameVars, storeVars, history, Read, Write
<1>1. /\ TypeOK /\ FrameOfOnePage /\ SlotsAgree /\ FramesHeld /\ PagesTyped
      /\ ContentsHeld /\ CleanSaved /\ state = "run" /\ state' = state /\ Present(va)
      /\ UNCHANGED <<tableVars, frame, used, owner, start, storeVars>>
  BY SlotBySlot DEF MemoryInv, TablesKept, FramesInv
<1>2. SlotsAgree' /\ FrameOfOnePage' /\ FramesHeld'
  BY <1>1 DEF SlotsAgree, Swapped, FrameOfOnePage, FramesHeld, Present, Found
<1>3. frame[va] \in Frame /\ \A w \in VA : Present(w) /\ w # va => frame[w] # frame[va]
  BY <1>1 DEF FrameOfOnePage, TypeOK, Frame, Present
<1>4. TypeOK'
  BY <1>1, <1>3 DEF TypeOK
<1>5. PagesTyped'
  BY <1>1 DEF PagesTyped, Present, Found
<1>6. ContentsHeld' /\ CleanSaved'
  <2>1. CASE Read(va)
    BY <1>1, <2>1 DEF ContentsHeld, CleanSaved, Visible, Present, Found
  <2>2. ASSUME NEW v \in Values, Write(va, v) PROVE ContentsHeld' /\ CleanSaved'
    <3> DEFINE known == IF va \in unmapped THEN Unknown ELSE v
    <3>1. /\ mem' = [mem EXCEPT ![frame[va]] = v] /\ memory' = [memory EXCEPT ![va] = known]
          /\ mem \in [Frame -> Values] /\ memory \in [VA -> Values \cup {Unknown}]
          /\ dirty' = IF page[va].type = "file" THEN dirty \cup {va} ELSE dirty
      BY <1>1, <2>2 DEF TypeOK
    <3>2. mem'[frame[va]] = v /\ memory'[va] = known /\ Found(va)
      BY <1>1, <1>3, <3>1, FramesAssumption DEF Unknown, FrameOfOnePage
    <3>3. \A w \in VA : w # va => /\ memory'[w] = memory[w]
                                  /\ Present(w) => mem'[frame[w]] = mem[frame[w]]
      <4>1. \A w \in VA : Present(w) => frame[w] \in Frame
        BY <1>1 DEF TypeOK, Frame, Present
      <4> QED BY <1>3, <3>1, <4>1
    <3>4. \A w \in VA : w # va => (w \in dirty' <=> w \in dirty)
      BY <3>1
    <3>5. ContentsHeld'
      <4>1. ASSUME NEW w \in VA, w # va, Found(w)', memory'[w] # Unknown,
                   page'[w].type = "file" => page'[w].backed
            PROVE  Visible(w)' = memory'[w]
        <5>1. page' = page /\ frame' = frame /\ swap' = swap /\ disk' = disk
          BY <1>1
        <5>2. memory'[w] = memory[w] /\ (Present(w) => mem'[frame[w]] = mem[frame[w]])
          BY <3>3, <4>1 DEF Present
        <5>3. Found(w) /\ (page[w].type = "file" => page[w].backed)
          BY <4>1, <5>1 DEF Found
        <5>4. Visible(w) = memory[w]
          BY <1>1, <4>1, <5>2, <5>3 DEF ContentsHeld
        <5> QED BY <5>1, <5>2, <5>4 DEF Visible, Present
      <4>2. memory'[va] # Unknown => Visible(va)' = memory'[va]
        BY <1>1, <3>2 DEF Visible, Present
      <4> QED BY <4>1, <4>2 DEF ContentsHeld
    <3>6. CleanSaved'
      BY <1>1, <3>1, <3>2, <3>3, <3>4 DEF CleanSaved, Present, Found
    <3> QED BY <3>5, <3>6
  <2> QED BY <2>1, <2>2
<1>7. MappedSaved'
  BY <1>1 DEF MappedSaved
<1> QED BY <1>2, <1>4, <1>5, <1>6, <1>7, SlotBySlot DEF MemoryInv, TablesKept, FramesInv

(* Mapping a file where no page is.                                        *)
LEMMA MmapKeeps ==
  ASSUME MemoryInv, NEW addr \in Files, Mmap(addr)
  PROVE  MemoryInv' \/ Damage
<1> SUFFICES ASSUME ~Damage PROVE MemoryInv'
  OBVIOUS
<1> USE DEF pteVars, frameVars, storeVars
<1> DEFINE M == Mapping(addr)
           new(va) == NewPage("file", va < addr + FullPages[addr] \/ HasRest[addr])
<1>1. /\ TypeOK /\ FrameOfOnePage /\ SlotsAgree /\ FramesHeld /\ PagesTyped
      /\ ContentsHeld /\ CleanSaved
  BY SlotBySlot DEF MemoryInv, TablesKept, FramesInv
<1>2. /\ state = "run" /\ \A va \in M : ~Found(va)
      /\ page' = [va \in VA |-> IF va \notin M THEN page[va] ELSE new(va)]
      /\ memory' = [va \in VA |-> IF va \in M THEN disk[va] ELSE memory[va]]
      /\ UNCHANGED <<pteVars, frameVars, storeVars, stackBottom, state, unmapped>>
  BY DEF Mmap
<1>3. \A va \in VA : /\ new(va) \in PageType /\ new(va).ops = "uninit" /\ new(va).type = "file"
  <2>1. NumSlots \in Nat /\ HasRest[addr] \in BOOLEAN
    BY FramesAssumption
  <2>2. \A va \in VA : (va < addr + FullPages[addr] \/ HasRest[addr]) \in BOOLEAN
    OBVIOUS
  <2> QED BY <2>1, <2>2 DEF NewPage, PageType
<1>4. \A va \in VA : page'[va] = IF va \notin M THEN page[va] ELSE new(va)
  BY <1>2
<1>5. \A va \in VA \cap M : ~Present(va) /\ page[va].ops = "none"
  BY <1>1, <1>2 DEF FrameOfOnePage, Found
<1> HIDE DEF M, new
<1>6. TypeOK'
  <2>1. page' \in [VA -> PageType]
    BY <1>1, <1>2, <1>3 DEF TypeOK
  <2>2. memory' \in [VA -> Values \cup {Unknown}]
    BY <1>1, <1>2 DEF TypeOK
  <2> QED BY <1>1, <1>2, <2>1, <2>2 DEF TypeOK
<1>7. FrameOfOnePage'
  BY <1>1, <1>2, <1>4, <1>5 DEF FrameOfOnePage, Present, Found
<1>8. SlotsAgree'
  <2>1. \A va \in VA : Swapped(va)' <=> Swapped(va) /\ va \notin M
    BY <1>2, <1>3, <1>4, <1>5 DEF Swapped, Present
  <2>2. \A va \in VA : Swapped(va) => va \notin M /\ page'[va] = page[va]
    BY <1>4, <1>5 DEF Swapped
  <2> QED BY <1>1, <1>2, <2>1, <2>2 DEF SlotsAgree
<1>9. FramesHeld'
  <2>1. \A va \in VA : page[va].ops \in {"anon", "file"} => page'[va] = page[va]
    BY <1>4, <1>5
  <2> QED BY <1>1, <1>2, <2>1 DEF FramesHeld
<1>10. PagesTyped'
  <2>1. \A va \in stackBottom..Top : va \in VA /\ va \notin M
    BY <1>1, <1>2, FramesAssumption DEF PagesTyped, TypeOK, VA
  <2>2. \A va \in dirty : va \in VA /\ va \notin M
    BY <1>1, <1>5 DEF PagesTyped, TypeOK
  <2>3. \A va \in VA :
          /\ page'[va].ops = "none" <=> page'[va].type = "none"
          /\ page'[va].ops = "file" => page'[va].type = "file"
          /\ page'[va].ops = "anon" => page'[va].type \in {"segment", "stack"}
          /\ page'[va].ops = "uninit" => page'[va].type \in {"segment", "file"}
    BY <1>1, <1>3, <1>4 DEF PagesTyped
  <2> QED BY <1>1, <1>2, <1>4, <2>1, <2>2, <2>3 DEF PagesTyped, Present, Found
<1>11. \A va \in VA \cap M : disk[va] # Unknown /\ memory'[va] = disk[va] /\ Visible(va)' = disk[va]
  <2>1. \A va \in VA : disk[va] # Unknown
    BY <1>1, FramesAssumption DEF TypeOK, Unknown
  <2> QED BY <1>2, <1>3, <1>4, <1>5, <2>1 DEF Visible, Present
<1>12. \A va \in VA \ M : memory'[va] = memory[va] /\ Visible(va)' = Visible(va) /\ Found(va)' = Found(va)
  BY <1>2, <1>4 DEF Visible, Present, Found
<1>13. ContentsHeld'
  BY <1>1, <1>2, <1>4, <1>11, <1>12 DEF ContentsHeld
<1>14. CleanSaved'
  <2>1. \A va \in VA \cap M : Found(va)' /\ ~Present(va)'
    BY <1>2, <1>3, <1>4, <1>5 DEF Found, Present
  <2> QED BY <1>1, <1>2, <1>4, <1>11, <1>12, <2>1 DEF CleanSaved, Present
<1>15. MappedSaved'
  BY <1>2 DEF MappedSaved
<1> QED BY <1>6, <1>7, <1>8, <1>9, <1>10, <1>13, <1>14, <1>15, SlotBySlot
        DEF MemoryInv, TablesKept, FramesInv

(* Unmapping pages of files leaves the tables in agreement, and what they  *)
(* held is in the files.                                                   *)
LEMMA UnmapKeeps ==
  ASSUME MemoryInv, state = "run", NEW P \in SUBSET VA, OnlyFiles(P), Unmap(P),
         state' \in {"run", "done"}, unmapped' \in {unmapped, unmapped \cup P}
  PROVE  /\ TablesKept'
         /\ \A va \in VA : /\ page[va].type = "file" /\ page[va].backed /\ memory[va] # Unknown
                           /\ va \in P \/ ~Present(va)
              => disk'[va] = memory[va]
         /\ state' = "run" => ContentsHeld' /\ CleanSaved'
<1> USE DEF tableVars, frameVars, Unmap
<1>1. /\ TypeOK /\ FrameOfOnePage /\ SlotsAgree /\ FramesHeld /\ PagesTyped
      /\ ContentsHeld /\ CleanSaved
  BY SlotBySlot DEF MemoryInv, TablesKept, FramesInv
<1>2. \A va \in P : page[va].type = "file" /\ page[va].ops # "anon"
  BY <1>1 DEF OnlyFiles, PagesTyped
<1>3. \A va \in VA : /\ frame'[va] = IF va \in P THEN 0 ELSE frame[va]
                     /\ disk'[va] = IF va \in P /\ WrittenBack(va) THEN mem[frame[va]] ELSE disk[va]
  BY DEF Saved
<1>4. \A va \in VA : WrittenBack(va) => frame[va] \in Frame /\ Present(va)
  BY <1>1 DEF WrittenBack, PagesTyped, TypeOK, Frame, Present
<1>5. TypeOK'
  <2>1. disk' \in [VA -> Values]
    BY <1>1, <1>4 DEF Saved, TypeOK
  <2>2. frame' \in [VA -> 0..NumFrames]
    BY <1>1, FramesAssumption DEF TypeOK
  <2> QED BY <1>1, <2>1, <2>2 DEF TypeOK
<1>6. FrameOfOnePage'
  BY <1>1, <1>3 DEF FrameOfOnePage, Present, Found
<1>7. SlotsAgree'
  <2>1. \A va \in VA : Swapped(va)' <=> Swapped(va)
    BY <1>2, <1>3 DEF Swapped, Present
  <2> QED BY <1>1, <2>1 DEF SlotsAgree
<1>8. FramesHeld'
  BY <1>1, <1>2, <1>3 DEF FramesHeld
<1>9. PagesTyped'
  <2>1. \A va \in dirty' : va \in VA /\ va \notin P /\ Present(va)' /\ page[va].type = "file"
    BY <1>1, <1>3 DEF PagesTyped, TypeOK, Present
  <2> QED BY <1>1, <2>1 DEF PagesTyped, Found
<1>10. ASSUME NEW va \in VA, page[va].type = "file", page[va].backed, memory[va] # Unknown,
              va \in P \/ ~Present(va)
       PROVE  disk'[va] = memory[va]
  <2>1. Found(va) /\ memory[va] # Unknown /\ page[va].ops # "anon"
    BY <1>1, <1>10 DEF Found, PagesTyped
  <2>2. Visible(va) = memory[va]
    BY <1>1, <1>10, <2>1 DEF ContentsHeld
  <2>3. CASE Present(va)
    <3>1. va \in P /\ page[va].ops = "file" /\ Visible(va) = mem[frame[va]]
      <4>1. page[va].ops \notin {"none", "uninit"} /\ page[va] \in PageType
        BY <1>1, <2>3 DEF FrameOfOnePage, Found, TypeOK
      <4> QED BY <1>10, <2>1, <2>3, <4>1 DEF Visible, PageType
    <3>2. CASE va \in dirty
      BY <1>3, <1>10, <2>2, <3>1, <3>2 DEF WrittenBack
    <3>3. CASE va \notin dirty
      BY <1>1, <1>3, <1>10, <2>2, <2>3, <3>1, <3>3 DEF WrittenBack, CleanSaved
    <3> QED BY <3>2, <3>3
  <2>4. CASE ~Present(va)
    BY <1>3, <1>4, <1>10, <2>1, <2>2, <2>4 DEF Visible
  <2> QED BY <2>3, <2>4
<1>11. ASSUME state' = "run" PROVE ContentsHeld' /\ CleanSaved'
  <2>1. ASSUME NEW va \in VA, va \notin P PROVE Visible(va)' = Visible(va)
    BY <1>3, <2>1 DEF Visible, Present
  <2>2. ASSUME NEW va \in P PROVE Visible(va)' = disk'[va]
    BY <1>2, <1>3 DEF Visible, Present
  <2>3. ContentsHeld'
    BY <1>1, <1>2, <1>10, <2>1, <2>2 DEF ContentsHeld, Found
  <2>4. CleanSaved'
    BY <1>1, <1>3 DEF CleanSaved, Present, Found
  <2> QED BY <2>3, <2>4
<1> QED BY <1>5, <1>6, <1>7, <1>8, <1>9, <1>10, <1>11, SlotBySlot DEF TablesKept, FramesInv

(* munmap of one mapping.                                                  *)
LEMMA MunmapKeeps ==
  ASSUME MemoryInv, NEW addr \in Files, Munmap(addr)
  PROVE  MemoryInv' \/ Damage
<1>1. CASE OnlyFiles(Onward(addr))
  <2>1. /\ state = "run" /\ state' = "run" /\ Unmap(Onward(addr))
        /\ Onward(addr) \in SUBSET VA /\ unmapped' = unmapped \cup Onward(addr)
    BY <1>1 DEF Munmap, Onward
  <2>2. TablesKept' /\ ContentsHeld' /\ CleanSaved'
    BY <1>1, <2>1, UnmapKeeps
  <2> QED BY <2>1, <2>2 DEF MemoryInv, MappedSaved
<1>2. CASE ~OnlyFiles(Onward(addr))
  BY <1>2 DEF Munmap
<1> QED BY <1>1, <1>2

(* exit, which unmaps them all.                                            *)
LEMMA ExitKeeps ==
  ASSUME MemoryInv, Exit
  PROVE  MemoryInv' \/ Damage
<1> DEFINE P == UNION {Onward(va) : va \in FilePages}
<1>1. CASE OnlyFiles(P)
  <2>1. state = "run" /\ state' = "done" /\ Unmap(P) /\ P \in SUBSET VA /\ page' = page
        /\ memory' = memory /\ unmapped' = unmapped
    BY <1>1 DEF Exit, Onward, Unmap, tableVars
  <2>2. ASSUME NEW va \in VA, page[va].type = "file", page[va].backed, memory[va] # Unknown
        PROVE  disk'[va] = memory[va]
    <3>1. va \in P \/ ~Present(va)
      <4>1. CASE Present(va)
        <5>1. Found(va) /\ page[va].ops # "uninit" /\ page[va].ops # "anon" /\ page[va] \in PageType
          BY <2>2, <4>1 DEF MemoryInv, TablesKept, FramesInv, TypeOK, FrameOfOnePage, PagesTyped
        <5>2. va \in FilePages
          BY <5>1 DEF FilePages, Found, PageType
        <5>3. va \in Onward(va)
          BY <5>1 DEF Onward, VA
        <5> QED BY <5>2, <5>3
      <4> QED BY <4>1
    <3> HIDE DEF P
    <3> QED BY <1>1, <2>1, <2>2, <3>1, UnmapKeeps
  <2>3. TablesKept'
    <3> HIDE DEF P
    <3> QED BY <1>1, <2>1, UnmapKeeps
  <2>4. MappedSaved' /\ ContentsHeld' /\ CleanSaved'
    BY <2>1, <2>2 DEF MappedSaved, ContentsHeld, CleanSaved
  <2> QED BY <2>3, <2>4 DEF MemoryInv
<1>2. CASE ~OnlyFiles(P)
  BY <1>2 DEF Exit
<1> QED BY <1>1, <1>2

(* The program as load leaves it.                                          *)
LEMMA InitKept ==
  ASSUME Init
  PROVE  MemoryInv
<1> DEFINE stack == [NewPage("stack", FALSE) EXCEPT !.ops = "anon"]
           segment == NewPage("segment", TRUE)
<1>1. /\ Top \in Nat /\ Top \in VA /\ NumFrames \in Nat /\ NumFrames > 0 /\ NumSlots \in Nat
      /\ 0 \in Values /\ Segment \subseteq VA /\ Top \notin Segment /\ 1 \in Frame
      /\ Unused # 0 /\ Unknown # 0 /\ Top # 0
  BY FramesAssumption DEF VA, Frame, Unused, Unknown
<1>2. stack \in PageType /\ segment \in PageType /\ NoPage \in PageType
  <2>1. 0 \in 0..NumSlots
    BY <1>1
  <2>2. /\ NewPage("stack", FALSE) \in PageType /\ NewPage("none", FALSE) \in PageType
        /\ NewPage("segment", TRUE) \in PageType
    BY <2>1 DEF PageType, NewPage
  <2>3. ASSUME NEW q \in PageType, NEW ops \in {"anon", "none"}
        PROVE  [q EXCEPT !.ops = ops] \in PageType
    BY DEF PageType
  <2> QED BY <2>2, <2>3 DEF NoPage
<1>3. /\ stack.ops = "anon" /\ stack.type = "stack"
      /\ segment.ops = "uninit" /\ segment.type = "segment"
      /\ NoPage.ops = "none" /\ NoPage.type = "none"
  BY DEF NewPage, NoPage
<1>4. /\ page = [va \in VA |-> IF va = Top THEN stack ELSE IF va \in Segment THEN segment ELSE NoPage]
      /\ \A va \in VA : page[va] = IF va = Top THEN stack ELSE IF va \in Segment THEN segment ELSE NoPage
  BY DEF Init
<1>5. /\ stackBottom = Top /\ accessed = {} /\ dirty = {} /\ used = 1 /\ start = 0 /\ state = "run"
      /\ frame = [va \in VA |-> IF va = Top THEN 1 ELSE 0]
      /\ owner = [f \in Frame |-> IF f = 1 THEN Top ELSE 0]
      /\ mem = [f \in Frame |-> 0] /\ swap = [s \in Slot |-> Unused] /\ disk = [va \in VA |-> 0]
      /\ memory = [va \in VA |-> IF va \in Segment THEN 0 ELSE Unknown] /\ unmapped = {}
  BY DEF Init
<1>6. TypeOK
  <2>1. page \in [VA -> PageType]
    BY <1>2, <1>4
  <2>2. /\ frame \in [VA -> 0..NumFrames] /\ owner \in [Frame -> 0..Top] /\ used \in 0..NumFrames
        /\ mem \in [Frame -> Values] /\ disk \in [VA -> Values]
        /\ swap \in [Slot -> Values \cup {Unused}] /\ memory \in [VA -> Values \cup {Unknown}]
    BY <1>1, <1>5
  <2> QED BY <1>1, <1>5, <2>1, <2>2 DEF TypeOK
<1> HIDE DEF stack, segment
<1>7. \A va \in VA :
        /\ Present(va) <=> va = Top
        /\ frame[va] = IF va = Top THEN 1 ELSE 0
        /\ page[va].ops = IF va = Top THEN "anon" ELSE IF va \in Segment THEN "uninit" ELSE "none"
        /\ page[va].type = IF va = Top THEN "stack" ELSE IF va \in Segment THEN "segment" ELSE "none"
        /\ Found(va) <=> va = Top \/ va \in Segment
  BY <1>1, <1>3, <1>4, <1>5 DEF Present, Found
<1>8. FrameOfOnePage
  BY <1>1, <1>5, <1>7 DEF FrameOfOnePage
<1>9. SlotsAgree
  BY <1>1, <1>5, <1>7 DEF SlotsAgree, Swapped
<1>10. FramesHeld
  BY <1>1, <1>5, <1>7 DEF FramesHeld, Frame
<1>11. PagesTyped
  <2>1. \A va \in stackBottom..Top : va = Top
    BY <1>1, <1>5
  <2> QED BY <1>1, <1>5, <1>7, <2>1 DEF PagesTyped
<1>12. ContentsHeld
  BY <1>1, <1>5, <1>7 DEF ContentsHeld, Visible
<1>13. CleanSaved /\ MappedSaved
  BY <1>1, <1>5, <1>7 DEF CleanSaved, MappedSaved
<1> QED BY <1>6, <1>8, <1>9, <1>10, <1>11, <1>12, <1>13, SlotBySlot DEF MemoryInv, TablesKept, FramesInv

(* Every step keeps what the program relies on.                            *)
LEMMA StepKept ==
  ASSUME MemoryInv, [Next]_vars
  PROVE  MemoryInv'
<1>1. CASE UNCHANGED vars
  <2> USE <1>1 DEF vars, tableVars, pteVars, frameVars, storeVars, history
  <2>1. TypeOK' /\ FrameOfOnePage'
    BY DEF MemoryInv, TablesKept, FramesInv, TypeOK, FrameOfOnePage, Present, Found
  <2>2. SlotsAgree'
    BY SlotBySlot DEF MemoryInv, TablesKept, FramesInv, SlotsAgree, Swapped, Present
  <2>3. FramesHeld' /\ PagesTyped'
    BY DEF MemoryInv, TablesKept, FramesHeld, PagesTyped, Present, Found
  <2>4. ContentsHeld' /\ CleanSaved' /\ MappedSaved'
    BY DEF MemoryInv, ContentsHeld, CleanSaved, MappedSaved, Visible, Present, Found
  <2> QED BY <2>1, <2>2, <2>3, <2>4, SlotBySlot DEF MemoryInv, TablesKept, FramesInv
<1>2. ASSUME NEW va \in VA, Read(va) \/ \E v \in Values : Write(va, v) PROVE MemoryInv'
  BY <1>2, AccessKeeps
<1>3. ASSUME NEW va \in VA, Fault(va) \/ StackGrowth(va) PROVE MemoryInv'
  BY <1>3, FaultKeeps, DamageKeeps
<1>4. ASSUME NEW addr \in Files, Mmap(addr) \/ Munmap(addr) PROVE MemoryInv'
  BY <1>4, MmapKeeps, MunmapKeeps, DamageKeeps
<1>5. CASE Exit
  BY <1>5, ExitKeeps, DamageKeeps
<1> QED BY <1>1, <1>2, <1>3, <1>4, <1>5 DEF Next, Stopped

(* The page table, frame_table, the pages and the swap slots agree at      *)
(* every step, whatever is evicted, unmapped or loaded again.              *)
THEOREM FramesInvariant == Spec => []FramesInv
<1>1. Init => MemoryInv
  BY InitKept
<1>2. MemoryInv /\ [Next]_vars => MemoryInv'
  BY StepKept
<1>3. MemoryInv => FramesInv
  BY DEF MemoryInv, TablesKept
<1> QED BY <1>1, <1>2, <1>3, PTL DEF Spec

(* A page reads as what was last written to it, through any number of      *)
(* evictions, until it is unmapped, and the file of a mapped page holds it *)
(* when the program has ended.                                             *)
THEOREM NothingForgotten == Spec => []MemoryKept
<1>1. Init => MemoryInv
  BY InitKept
<1>2. MemoryInv /\ [Next]_vars => MemoryInv'
  BY StepKept
<1>3. MemoryInv => MemoryKept
  BY DEF MemoryInv, MemoryKept, ContentsKept, ContentsHeld
<1> QED BY <1>1, <1>2, <1>3, PTL DEF Spec

(* Only a claim gives a frame away, and only the one that it takes.        *)
LEMMA OnlyClaimable ==
  ASSUME MemoryInv, [Next]_vars, NEW f \in Frame, owner'[f] # owner[f]
  PROVE  f = Claimable
<1>1. ASSUME NEW va, NEW p, Claim(va, p, Claimable) PROVE f = Claimable
  BY <1>1 DEF Claim, MemoryInv, TablesKept, FramesInv, TypeOK
<1>2. ASSUME NEW va \in VA, Fault(va) \/ StackGrowth(va) PROVE f = Claimable
  <2>1. CASE Damage
    BY <2>1 DEF Damage, frameVars
  <2>2. CASE ~Damage
    BY <1>1, <1>2, <2>2 DEF Fault, StackGrowth
  <2> QED BY <2>1, <2>2
<1>3. CASE owner' = owner
  BY <1>3
<1> USE DEF frameVars, Unmap, Damage
<1>4. ASSUME NEW va \in VA, Read(va) \/ \E v \in Values : Write(va, v) PROVE owner' = owner
  BY <1>4 DEF Read, Write
<1>5. ASSUME NEW addr \in Files, Mmap(addr) \/ Munmap(addr) PROVE owner' = owner
  BY <1>5 DEF Mmap, Munmap
<1>6. Exit => owner' = owner
  BY DEF Exit
<1>7. UNCHANGED vars => owner' = owner
  BY DEF vars
<1> QED BY <1>2, <1>3, <1>4, <1>5, <1>6, <1>7 DEF Next, Stopped

(* A page that was accessed since the hand went by is evicted only if all  *)
(* pages were.                                                             *)
THEOREM AccessedStay == Spec => SecondChance
<1> DEFINE Alone(f) == /\ owner[f] # 0 /\ owner'[f] # owner[f] /\ owner[f] \in accessed
                       /\ \A g \in 1..used : owner[g] = owner[f] => g = f
<1>1. Init => MemoryInv
  BY InitKept
<1>2. MemoryInv /\ [Next]_vars => MemoryInv'
  BY StepKept
<1>3. ASSUME MemoryInv, [Next]_vars, NEW f \in Frame, Alone(f), NEW g \in 1..used
      PROVE  owner[g] \in accessed
  <2>1. /\ TypeOK /\ used # 0 /\ used \in Nat /\ start \in Nat
        /\ f = Claimable
    BY <1>3, OnlyClaimable, FramesAssumption DEF MemoryInv, TablesKept, FramesInv, FramesHeld, TypeOK
  <2>2. f = Victim /\ f \in 1..used
    <3>1. ~PoolFree
      BY <1>3, <2>1, Claimed DEF MemoryInv
    <3> QED BY <2>1, <3>1, VictimIsIn DEF Claimable
  <2>3. Passed(f)
    <3>1. Turn(f) >= Turn(f)
      BY <2>1, <2>2 DEF Turn
    <3> QED BY <1>3, <3>1 DEF Passed
  <2>4. NotPassed = {}
    BY <2>1, <2>2, <2>3, VictimIsIn DEF NotPassed
  <2> QED BY <1>3, <2>4 DEF NotPassed, Passed
<1>4. MemoryInv /\ [Next]_vars
      => [\A f \in Frame : Alone(f) => \A g \in 1..used : owner[g] \in accessed]_vars
  BY <1>3
<1> QED BY <1>1, <1>2, <1>4, PTL DEF Spec, SecondChance

=============================================================================
