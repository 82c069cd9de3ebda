----------------------------- MODULE PageTables -----------------------------
(***************************************************************************)
(* The page tables of user processes (threads/mmu.c): trees of four levels *)
(* whose nodes are pages of the kernel pool and whose leaves are pages of  *)
(* the user pool.  Only entry 0 of the root is for user addresses.         *)
(*                                                                         *)
(* A process changes its own tree only, so a walk is one step unless it    *)
(* must allocate a node; the pool is shared with every other thread, so    *)
(* each call of the page allocator has steps of its own.  The processor's  *)
(* register cr3 and its cache of translations, the TLB, are modelled with  *)
(* the bits that the hardware sets in the entries.                         *)
(***************************************************************************)
EXTENDS PagePool, Sequences, SequencesExt

CONSTANTS Procs,
          Index,     \* indices in a node
          Vas,       \* user addresses: indices at the last three levels
          NumFrames  \* pages of the user pool

ASSUME TablesAssumption ==
  /\ Procs \subseteq Actors
  /\ Index \subseteq Nat /\ 0 \in Index
  /\ Vas \subseteq Index \X Index \X Index
  /\ NumFrames \in Nat

VARIABLES root,     \* thread.pml4
          node,     \* entries of pml4, page directory pointer and page directory
          pte,      \* entries of a page table
          frames,   \* pages of the user pool that are taken
          walk,     \* the call each process is in
          gone,     \* what a call has freed and not unlinked
          running,  \* the process on the processor
          cr3,      \* the active root
          tlb       \* cached translations

tableVars == <<root, node, pte, frames, walk, gone, running, cr3, tlb>>

NoPage == -1
BasePml4 == -2      \* the kernel's own tables, never freed

(* The user pool's pages, numbered after the kernel pool's.                *)
Frames == NumPages..(NumPages + NumFrames - 1)

NoPte == [frame |-> NoPage, present |-> FALSE, accessed |-> FALSE, dirty |-> FALSE]
Ptes == [frame : Frames \cup {NoPage}, present : BOOLEAN, accessed : BOOLEAN, dirty : BOOLEAN]

EmptyNode == [i \in Index |-> NoPage]
EmptyTable == [i \in Index |-> NoPte]

NoWalk == [op |-> "none", va |-> <<>>, frame |-> NoPage, made |-> <<>>, root |-> NoPage]
Walks == [op : {"none", "create", "set", "destroy"}, va : Vas \cup {<<>>}, frame : Frames \cup {NoPage},
          made : BoundedSeq(Pages, 3), root : Pages \cup {NoPage}]

TablesInit ==
  /\ root = [p \in Procs |-> NoPage]
  /\ node = [q \in Pages |-> EmptyNode]
  /\ pte = [q \in Pages |-> EmptyTable]
  /\ frames = {}
  /\ walk = [p \in Procs |-> NoWalk]
  /\ gone = [p \in Procs |-> {}]
  /\ running \in Procs
  /\ cr3 = BasePml4
  /\ tlb = {}

(* The nodes on the way to va, as far as they exist.                       *)
Down(q, i) == IF q = NoPage THEN NoPage ELSE node[q][i]
Pdp(r) == Down(r, 0)
Pd(r, va) == Down(Pdp(r), va[1])
Pt(r, va) == Down(Pd(r, va), va[2])

(* pml4e_walk without create, and what its entry says.                     *)
Entry(r, va) == IF Pt(r, va) = NoPage THEN NoPte ELSE pte[Pt(r, va)][va[3]]

Mapped(r, va) == Entry(r, va).present

(* pml4_get_page                                                           *)
GetPage(r, va) == IF Mapped(r, va) THEN Entry(r, va).frame ELSE NoPage

(* The entry through which the next missing node will hang, and the level. *)
Missing(r, va) ==
  IF Pdp(r) = NoPage THEN <<r, 0>>
  ELSE IF Pd(r, va) = NoPage THEN <<Pdp(r), va[1]>>
  ELSE <<Pd(r, va), va[2]>>

Run(p) == running = p

Start(p, w, place) ==
  /\ Run(p) /\ at[p] = "idle"
  /\ walk' = [walk EXCEPT ![p] = w]
  /\ Goto(p, place)

(* The scheduler takes the processor: pml4_activate of the next process.   *)
Switch(p) ==
  /\ running # p
  /\ running' = p
  /\ cr3' = IF root[p] = NoPage THEN BasePml4 ELSE root[p]
  /\ tlb' = {}
  /\ UNCHANGED <<poolVars, root, node, pte, frames, walk, gone>>

(* pml4_create: the page comes with the kernel's entries only.             *)
Create(p) ==
  /\ root[p] = NoPage
  /\ Start(p, [NoWalk EXCEPT !.op = "create"], "get")
  /\ UNCHANGED <<used, poolLock, hand, root, node, pte, frames, gone, running, cr3, tlb>>

(* pml4_set_page of a fresh frame at an address that is not mapped, as     *)
(* install_page calls it.                                                  *)
SetPage(p, va, f) ==
  /\ root[p] # NoPage
  /\ ~Mapped(root[p], va)
  /\ f = Min(Frames \ frames)
  /\ frames' = frames \cup {f}
  /\ Start(p, [NoWalk EXCEPT !.op = "set", !.va = va, !.frame = f], "walk")
  /\ UNCHANGED <<used, poolLock, hand, root, node, pte, gone, running, cr3, tlb>>

Done(p) == walk' = [walk EXCEPT ![p] = NoWalk] /\ Goto(p, "idle")

(* pml4e_walk with create finds the page table, and pml4_set_page writes   *)
(* the entry; or a node is missing and a page is asked for.                *)
Walk(p) ==
  LET w == walk[p]
      t == Pt(root[p], w.va) IN
  /\ Run(p) /\ at[p] = "walk"
  /\ IF t = NoPage
     THEN Goto(p, "get") /\ UNCHANGED <<pte, walk>>
     ELSE /\ pte' = [pte EXCEPT ![t][w.va[3]] =
                       [frame |-> w.frame, present |-> TRUE, accessed |-> FALSE, dirty |-> FALSE]]
          /\ Done(p)
  /\ UNCHANGED <<used, poolLock, hand, root, node, frames, gone, running, cr3, tlb>>

(* The call of palloc_get_page is over.                                    *)
Created(p) ==
  /\ walk[p].op = "create"
  /\ IF hand[p] = {} THEN UNCHANGED <<root, cr3>>
     ELSE root' = [root EXCEPT ![p] = Min(hand[p])] /\ cr3' = Min(hand[p])
  /\ Done(p)
  /\ UNCHANGED <<node, frames>>

Grown(p) ==
  LET where == Missing(root[p], walk[p].va) IN
  /\ walk[p].op = "set" /\ hand[p] # {}
  /\ node' = [node EXCEPT ![where[1]][where[2]] = Min(hand[p])]
  /\ walk' = [walk EXCEPT ![p].made = Append(@, Min(hand[p]))]
  /\ Goto(p, "walk")
  /\ UNCHANGED <<root, frames, cr3>>

(* Without a page the walk fails: each level frees the node it has made,   *)
(* and pml4_set_page returns false to a caller that frees the frame.       *)
Failed(p) ==
  /\ walk[p].op = "set" /\ hand[p] = {}
  /\ IF walk[p].made = <<>>
     THEN frames' = frames \ {walk[p].frame} /\ Done(p)
     ELSE Goto(p, "unwind") /\ UNCHANGED <<frames, walk>>
  /\ UNCHANGED <<root, node, cr3>>

GotPage(p) ==
  /\ Run(p) /\ at[p] = "got"
  /\ Created(p) \/ Grown(p) \/ Failed(p)
  /\ hand' = [hand EXCEPT ![p] = {}]
  /\ UNCHANGED <<used, poolLock, pte, gone, running, tlb>>

Unwind(p) ==
  /\ Run(p) /\ at[p] = "unwind"
  /\ hand' = [hand EXCEPT ![p] = {Last(walk[p].made)}]
  /\ Goto(p, "fill")
  /\ UNCHANGED <<used, poolLock, tableVars>>

(* 0xcc has the bit PTE_P reset, so that a freed node has no entries.      *)
FillNode(p) ==
  /\ Run(p) /\ FreeFill(p)
  /\ node' = [q \in Pages |-> IF q \in hand[p] THEN EmptyNode ELSE node[q]]
  /\ pte' = [q \in Pages |-> IF q \in hand[p] THEN EmptyTable ELSE pte[q]]
  /\ UNCHANGED <<root, frames, walk, gone, running, cr3, tlb>>

ClearNode(p) ==
  /\ Run(p) /\ FreeBit(p, IF walk[p].op = "set" THEN "unlink" ELSE "destroy")
  /\ gone' = [gone EXCEPT ![p] = @ \cup hand[p]]
  /\ UNCHANGED <<root, node, pte, frames, walk, running, cr3, tlb>>

(* The entry of the freed node is zeroed, and the level above is next.     *)
EntryOf(p, q) == IF Pdp(root[p]) = q THEN <<root[p], 0>> ELSE <<Pdp(root[p]), walk[p].va[1]>>

(* Variant: the entry keeps pointing to the freed node.                    *)
UnlinkedNot(p) == node

Unlinked(p) ==
  LET where == EntryOf(p, Last(walk[p].made))
  IN [node EXCEPT ![where[1]][where[2]] = NoPage]

Unlink(p) ==
  /\ Run(p) /\ at[p] = "unlink"
  /\ node' = Unlinked(p)
  /\ gone' = [gone EXCEPT ![p] = {}]
  /\ IF Len(walk[p].made) = 1
     THEN frames' = frames \ {walk[p].frame} /\ Done(p)
     ELSE /\ walk' = [walk EXCEPT ![p].made = Front(@)]
          /\ Goto(p, "unwind")
          /\ UNCHANGED frames
  /\ UNCHANGED <<used, poolLock, hand, root, pte, running, cr3, tlb>>

-----------------------------------------------------------------------------
(* process_cleanup: the process gives up its root, then activates the      *)
(* kernel's tables, then destroys the tree, in this order.                 *)
Cleanup(p) ==
  /\ root[p] # NoPage
  /\ Start(p, [NoWalk EXCEPT !.op = "destroy", !.root = root[p]], "activate")
  /\ root' = [root EXCEPT ![p] = NoPage]
  /\ UNCHANGED <<used, poolLock, hand, node, pte, frames, gone, running, cr3, tlb>>

(* Variant: the kernel's tables are not activated.                         *)
ActivateNot(p) ==
  /\ Run(p) /\ at[p] = "activate"
  /\ Goto(p, "destroy")
  /\ UNCHANGED <<used, poolLock, hand, tableVars>>

ActivateBase(p) ==
  /\ Run(p) /\ at[p] = "activate"
  /\ cr3' = BasePml4
  /\ tlb' = {}
  /\ Goto(p, "destroy")
  /\ UNCHANGED <<used, poolLock, hand, root, node, pte, frames, walk, gone, running>>

(* The first entry, in the order of the indices, that pdpe_destroy and     *)
(* pgdir_destroy, or pt_destroy, have not come to yet.                     *)
FirstNode(p, q) ==
  LET left == {i \in Index : Down(q, i) \notin gone[p] \cup {NoPage}}
  IN IF left = {} THEN NoPage ELSE node[q][Min(left)]

FirstFrame(p, t) ==
  LET left == {i \in Index : pte[t][i].present /\ pte[t][i].frame \notin gone[p]}
  IN IF t = NoPage \/ left = {} THEN NoPage ELSE pte[t][Min(left)].frame

(* Variant: a node goes before what hangs below it.                        *)
NextFreedDown(p) ==
  LET r == walk[p].root
      pdp == IF Pdp(r) \in gone[p] THEN NoPage ELSE Pdp(r)
      pd == FirstNode(p, pdp)
      pt == FirstNode(p, pd)
      path == <<pdp, pd, pt, FirstFrame(p, pt), r>>
  IN path[Min({i \in 1..5 : path[i] # NoPage})]

(* What is freed next: what hangs below a node goes before the node.       *)
NextFreed(p) ==
  LET r == walk[p].root
      pdp == IF Pdp(r) \in gone[p] THEN NoPage ELSE Pdp(r)
      pd == FirstNode(p, pdp)
      pt == FirstNode(p, pd)
      path == <<FirstFrame(p, pt), pt, pd, pdp, r>>
  IN path[Min({i \in 1..5 : path[i] # NoPage})]

DestroyNext(p) ==
  LET q == NextFreed(p) IN
  /\ Run(p) /\ at[p] = "destroy" /\ walk[p].root \notin gone[p]
  /\ IF q \in Frames
     THEN /\ frames' = frames \ {q}
          /\ gone' = [gone EXCEPT ![p] = @ \cup {q}]
          /\ UNCHANGED <<hand, at>>
     ELSE /\ hand' = [hand EXCEPT ![p] = {q}]
          /\ Goto(p, "fill")
          /\ UNCHANGED <<frames, gone>>
  /\ UNCHANGED <<used, poolLock, root, node, pte, walk, running, cr3, tlb>>

Destroyed(p) ==
  /\ Run(p) /\ at[p] = "destroy" /\ walk[p].root \in gone[p]
  /\ Done(p)
  /\ gone' = [gone EXCEPT ![p] = {}]
  /\ UNCHANGED <<used, poolLock, hand, root, node, pte, frames, running, cr3, tlb>>

-----------------------------------------------------------------------------
(* Variant: the TLB keeps its entry.                                       *)
FlushedNot(p, va) == tlb

(* invlpg, where the tree is the active one.                               *)
Flushed(p, va) == IF cr3 = root[p] THEN {e \in tlb : e.va # va} ELSE tlb

AtEntry(p, va) == Run(p) /\ at[p] = "idle" /\ root[p] # NoPage /\ Pt(root[p], va) # NoPage

SetEntry(p, va, e) == pte' = [pte EXCEPT ![Pt(root[p], va)][va[3]] = e]

(* pml4_clear_page; its caller gives the frame away.  (The address that    *)
(* stays in the entry is never read.)                                      *)
ClearPage(p, va) ==
  /\ AtEntry(p, va) /\ Mapped(root[p], va)
  /\ SetEntry(p, va, [Entry(root[p], va) EXCEPT !.present = FALSE, !.frame = NoPage])
  /\ tlb' = Flushed(p, va)
  /\ frames' = frames \ {Entry(root[p], va).frame}
  /\ UNCHANGED <<poolVars, root, node, walk, gone, running, cr3>>

(* The bit alone: the 32-bit mask of pml4_set_dirty and pml4_set_accessed  *)
(* clears the upper half of the entry as well, which is 0 for frames below *)
(* 4 GiB; a machine with more memory is not modelled.                      *)
SetDirty(p, va, dirty) ==
  /\ AtEntry(p, va)
  /\ SetEntry(p, va, [Entry(root[p], va) EXCEPT !.dirty = dirty])
  /\ tlb' = Flushed(p, va)
  /\ UNCHANGED <<poolVars, root, node, frames, walk, gone, running, cr3>>

SetAccessed(p, va, accessed) ==
  /\ AtEntry(p, va)
  /\ SetEntry(p, va, [Entry(root[p], va) EXCEPT !.accessed = accessed])
  /\ tlb' = Flushed(p, va)
  /\ UNCHANGED <<poolVars, root, node, frames, walk, gone, running, cr3>>

(* The processor in user mode: an access that the TLB cannot answer sets   *)
(* the entry's bits and caches it.                                         *)
Access(p, va, write) ==
  /\ AtEntry(p, va) /\ Mapped(root[p], va)
  /\ \A e \in tlb : e.va = va => write /\ ~e.dirty
  /\ SetEntry(p, va, [Entry(root[p], va) EXCEPT !.accessed = TRUE, !.dirty = @ \/ write])
  /\ tlb' = {e \in tlb : e.va # va}
            \cup {[va |-> va, frame |-> GetPage(root[p], va),
                   dirty |-> Entry(root[p], va).dirty \/ write]}
  /\ UNCHANGED <<poolVars, root, node, frames, walk, gone, running, cr3>>

(* User code runs, and the kernel resets the bits that it has set.         *)
UseStep(p, va) ==
  \/ SetDirty(p, va, FALSE) \/ SetAccessed(p, va, FALSE)
  \/ \E write \in BOOLEAN : Access(p, va, write)

TableStep(p) ==
  \/ Switch(p) \/ Create(p) \/ Cleanup(p) \/ ActivateBase(p)
  \/ \E va \in Vas :
       \/ \E f \in Frames \ frames : SetPage(p, va, f)
       \/ ClearPage(p, va)
  \/ Walk(p) \/ GotPage(p) \/ Unwind(p) \/ FillNode(p) \/ ClearNode(p) \/ Unlink(p)
  \/ Run(p) /\ GetScan(p, 1) /\ UNCHANGED tableVars
  \/ Run(p) /\ GetFlip(p) /\ UNCHANGED tableVars
  \/ DestroyNext(p) \/ Destroyed(p)

=============================================================================
