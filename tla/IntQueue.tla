------------------------------ MODULE IntQueue ------------------------------
(***************************************************************************)
(* devices/intq.c: a circular queue between interrupt handlers and one     *)
(* kernel thread, as operators on a queue                                  *)
(*   q = [buf, head, tail, notFull, notEmpty],                             *)
(* where notFull and notEmpty name the thread that waits.  All of it runs  *)
(* with interrupts off, so each call is atomic except where it sleeps:     *)
(* wait registers the thread and blocks it, and the thread then starts its *)
(* loop again.  intq.lock is free whenever a thread comes to wait, because *)
(* the queues of this kernel have one reader and one writer thread.        *)
(***************************************************************************)
EXTENDS Integers, Sequences

CONSTANTS BufSize,   \* INTQ_BUFSIZE
          None       \* NULL

ASSUME IntQueueAssumption == BufSize \in Nat \ {0, 1}

Positions == 0..(BufSize - 1)

(* next; a variant does not come round.                                    *)
NextStraight(pos) == pos + 1
Next(pos) == (pos + 1) % BufSize

Empty == [buf |-> [i \in Positions |-> 0], head |-> 0, tail |-> 0,
          notFull |-> None, notEmpty |-> None]

IsEmpty(q) == q.head = q.tail

IsFull(q) == Next(q.head) = q.tail

(* intq_getc of a queue that is not empty: the byte, the queue after it,   *)
(* and the thread that signal unblocks; in variants signal leaves the      *)
(* thread registered, or does not unblock it.                              *)
First(q) == q.buf[q.tail]
GetcNoReset(q) == [q EXCEPT !.tail = Next(@)]
Getc(q) == [q EXCEPT !.tail = Next(@), !.notFull = None]
GetcWakesNobody(q) == {}
GetcWakes(q) == {q.notFull}

(* intq_putc to a queue that is not full.                                  *)
Putc(q, byte) ==
  [q EXCEPT !.buf[q.head] = byte, !.head = Next(@), !.notEmpty = None]
PutcWakes(q) == {q.notEmpty}

(* wait of intq_putc and of intq_getc.                                     *)
WaitNotFull(q, t) == [q EXCEPT !.notFull = t]
WaitNotEmpty(q, t) == [q EXCEPT !.notEmpty = t]

QueueType(bytes, threads) ==
  [buf : [Positions -> bytes], head : Positions, tail : Positions,
   notFull : threads \cup {None}, notEmpty : threads \cup {None}]
=============================================================================
