------------------------------ MODULE PagePool ------------------------------
(***************************************************************************)
(* The kernel pool of the page allocator (threads/palloc.c): a bitmap with *)
(* one bit for each page.  Pages are taken under the pool's lock, in two   *)
(* steps, and given back without it, one bit at a time; each bit is set or *)
(* reset atomically.                                                       *)
(*                                                                         *)
(* An actor is a thread inside a call; at[a] is the place in the code it   *)
(* has reached.  The actions here are the parts that the modules of the    *)
(* pool's clients (Malloc, PageTables) build their steps from.             *)
(***************************************************************************)
EXTENDS Integers, FiniteSets, FiniteSetsExt

CONSTANTS NumPages, \* pages of the pool
          Actors,   \* threads that use it
          Nobody    \* holder of a free lock

ASSUME PoolAssumption == NumPages \in Nat \ {0} /\ Nobody \notin Actors

VARIABLES used,     \* the bits of used_map that are set
          poolLock, \* holder of pool.lock
          hand,     \* pages that an actor's palloc call works on
          at        \* where each actor is

poolVars == <<used, poolLock, hand, at>>

Pages == 0..(NumPages - 1)

PoolPlaces == {"get", "flip", "got", "fill", "clear"}

(* Nobody is inside the allocator; which pages are taken is for the client *)
(* to say.                                                                 *)
PoolInit ==
  /\ poolLock = Nobody
  /\ hand = [a \in Actors |-> {}]
  /\ at = [a \in Actors |-> "idle"]

Goto(a, place) == at' = [at EXCEPT ![a] = place]

(* bitmap_scan: the first group of n pages that are free.                  *)
FreeRun(n) ==
  LET starts == {s \in Pages : s + n <= NumPages /\ s..(s + n - 1) \cap used = {}}
  IN IF starts = {} THEN {} ELSE Min(starts)..(Min(starts) + n - 1)

(* Variant: the scan runs before the lock is taken.                        *)
GetScanUnlocked(a, n) ==
  /\ at[a] = "get"
  /\ hand' = [hand EXCEPT ![a] = FreeRun(n)]
  /\ Goto(a, "flip")
  /\ UNCHANGED <<used, poolLock>>

(* palloc_get_multiple takes the lock and looks for a group ...            *)
GetScan(a, n) ==
  /\ at[a] = "get" /\ poolLock = Nobody
  /\ poolLock' = a
  /\ hand' = [hand EXCEPT ![a] = FreeRun(n)]
  /\ Goto(a, "flip")
  /\ UNCHANGED used

(* ... and sets the bits of the group it found, if any.                    *)
GetFlip(a) ==
  /\ at[a] = "flip"
  /\ used' = used \cup hand[a]
  /\ poolLock' = Nobody
  /\ Goto(a, "got")
  /\ UNCHANGED hand

(* palloc_free_multiple of the pages in hand: first it fills them, which   *)
(* the client's module completes with what they held ...                   *)
FreeFill(a) ==
  /\ at[a] = "fill"
  /\ Goto(a, "clear")
  /\ UNCHANGED <<used, poolLock, hand>>

(* ... then it resets their bits, the first page's first.                  *)
FreeBit(a, next) ==
  /\ at[a] = "clear"
  /\ used' = used \ {Min(hand[a])}
  /\ hand' = [hand EXCEPT ![a] = @ \ {Min(@)}]
  /\ Goto(a, IF Cardinality(hand[a]) = 1 THEN next ELSE "clear")
  /\ UNCHANGED poolLock

=============================================================================
