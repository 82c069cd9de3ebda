------------------------------- MODULE Serial -------------------------------
(***************************************************************************)
(* The serial port (devices/serial.c) and the input buffer                 *)
(* (devices/input.c), with the interrupt handlers that fill and drain      *)
(* them: two interrupt queues, the UART's registers, the thread that holds *)
(* the console lock and writes, a thread that reads keys, the keyboard and *)
(* a kernel panic.  The bytes of each direction are numbered, and 0 stands *)
(* for no byte, so that a byte lost, doubled or overtaken is seen.         *)
(***************************************************************************)
EXTENDS IntQueue

CONSTANTS Writer,     \* the thread that holds the console lock
          Reader,     \* the thread in input_getc
          MaxOut,     \* bound: bytes the writer prints
          PanicOut,   \* bytes debug_panic prints
          MaxIn       \* bound: bytes that arrive on the line

ASSUME SerialAssumption ==
  /\ None \notin {Writer, Reader} /\ Writer # Reader
  /\ MaxOut \in Nat /\ PanicOut \in Nat /\ MaxIn \in Nat

VARIABLES
  mode,      \* "poll" before serial_init_queue, "queue" after it; "starting"
             \* is QUEUE in it, before the enable register is written
  txq,       \* data to be transmitted
  buffer,    \* the input buffer
  ier,       \* interrupt enable register
  thr,       \* transmitter holding register, 0 if empty
  rbr,       \* receiver buffer register, 0 if empty
  calling,   \* threads inside intq_putc or intq_getc, in the loop that waits
  asleep,    \* those of them that are blocked
  panic,     \* "no", "print", "flush" or "stop": how far debug_panic is
  left,      \* bytes debug_panic has yet to print
  written,   \* bytes given to serial_putc
  wire,      \* the last byte that left the transmitter
  arrived,   \* bytes that arrived in the receiver
  got        \* the last of them that input_getc returned

outVars == <<txq, thr, written>>
inVars  == <<buffer, rbr, arrived, got>>
vars == <<mode, outVars, inVars, ier, calling, asleep, panic, left, wire>>

Key == -1   \* a key of the keyboard

Init ==
  /\ mode = "poll" /\ panic = "no" /\ left = PanicOut
  /\ txq = Empty /\ buffer = Empty
  /\ ier = [xmit |-> FALSE, recv |-> FALSE]
  /\ thr = 0 /\ rbr = 0
  /\ calling = {} /\ asleep = {}
  /\ written = 0 /\ wire = 0 /\ arrived = 0 /\ got = 0

(* write_ier; the handshake with the queues after a step.                  *)
WriteIer(tx, in) == ier' = [xmit |-> ~IsEmpty(tx), recv |-> ~IsFull(in)]

(* serial_notify; a variant leaves the register alone.                     *)
NotifyNot == UNCHANGED ier
Notify == IF mode # "poll" THEN WriteIer(txq, buffer') ELSE UNCHANGED ier

Wake(threads) == asleep' = asleep \ threads

-----------------------------------------------------------------------------
(* serial_init_queue: the mode, with interrupts on, and the register.      *)
InitQueue ==
  /\ mode = "poll" /\ panic = "no"
  /\ mode' = "starting"
  /\ UNCHANGED <<outVars, inVars, ier, calling, asleep, panic, left, wire>>

EnableQueue ==
  /\ mode = "starting" /\ panic = "no"
  /\ mode' = "queue"
  /\ WriteIer(txq, buffer)
  /\ UNCHANGED <<outVars, inVars, calling, asleep, panic, left, wire>>

(* putc_poll spins until the holding register is empty.                    *)
PollPutc(byte) == thr = 0 /\ thr' = byte

CanWrite == panic = "no" /\ Writer \notin asleep
            /\ (Writer \in calling \/ written < MaxOut)

(* serial_putc with interrupts on, before serial_init_queue.               *)
PutcPolled ==
  /\ CanWrite /\ mode = "poll"
  /\ PollPutc(written + 1) /\ written' = written + 1
  /\ UNCHANGED <<mode, txq, inVars, ier, calling, asleep, panic, left, wire>>

(* After it: a full queue puts the writer to sleep.                        *)
PutcWait ==
  /\ CanWrite /\ mode = "queue" /\ IsFull(txq)
  /\ txq' = WaitNotFull(txq, Writer)
  /\ calling' = calling \cup {Writer} /\ asleep' = asleep \cup {Writer}
  /\ UNCHANGED <<mode, thr, written, inVars, ier, panic, left, wire>>

(* Variant: the transmit interrupt is not enabled.                         *)
PutcQueuedNoIer ==
  /\ CanWrite /\ mode = "queue" /\ ~IsFull(txq)
  /\ txq' = Putc(txq, written + 1) /\ written' = written + 1
  /\ Wake(PutcWakes(txq)) /\ calling' = calling \ {Writer}
  /\ UNCHANGED <<mode, thr, inVars, ier, panic, left, wire>>

PutcQueued ==
  /\ CanWrite /\ mode = "queue" /\ ~IsFull(txq)
  /\ txq' = Putc(txq, written + 1) /\ written' = written + 1
  /\ Wake(PutcWakes(txq)) /\ calling' = calling \ {Writer}
  /\ WriteIer(txq', buffer)
  /\ UNCHANGED <<mode, thr, inVars, panic, left, wire>>

(* debug_panic turns interrupts off for good.                              *)
Panic ==
  /\ panic = "no" /\ panic' = "print"
  /\ UNCHANGED <<mode, outVars, inVars, ier, calling, asleep, left, wire>>

(* serial_putc with interrupts off: room is made by polling; a variant     *)
(* polls the new byte instead of the oldest.                               *)
PanicPutcNewest ==
  /\ panic = "print" /\ left > 0
  /\ left' = left - 1 /\ written' = written + 1
  /\ IF mode = "poll" \/ IsFull(txq)
     THEN PollPutc(written + 1) /\ UNCHANGED <<txq, ier, asleep>>
     ELSE /\ txq' = Putc(txq, written + 1)
          /\ WriteIer(txq', buffer)
          /\ UNCHANGED <<thr, asleep>>
  /\ UNCHANGED <<mode, inVars, calling, panic, wire>>

PanicPutc ==
  /\ panic = "print" /\ left > 0
  /\ left' = left - 1 /\ written' = written + 1
  /\ IF mode = "poll"
     THEN PollPutc(written + 1) /\ UNCHANGED <<txq, ier, asleep>>
     ELSE /\ IF IsFull(txq)
             THEN /\ PollPutc(First(txq)) /\ Wake(GetcWakes(txq))
                  /\ txq' = Putc(Getc(txq), written + 1)
             ELSE /\ txq' = Putc(txq, written + 1)
                  /\ UNCHANGED <<thr, asleep>>
          /\ WriteIer(txq', buffer)
  /\ UNCHANGED <<mode, inVars, calling, panic, wire>>

(* serial_flush, a byte at a time.                                         *)
Flush ==
  /\ panic \in {"print", "flush"} /\ left = 0
  /\ IF IsEmpty(txq)
     THEN panic' = "stop" /\ UNCHANGED <<txq, thr, asleep>>
     ELSE /\ panic' = "flush"
          /\ PollPutc(First(txq))
          /\ txq' = Getc(txq) /\ Wake(GetcWakes(txq))
  /\ UNCHANGED <<mode, written, inVars, ier, calling, left, wire>>

-----------------------------------------------------------------------------
CanRead == panic = "no" /\ Reader \notin asleep

(* input_getc of an empty buffer.                                          *)
GetcWait ==
  /\ CanRead /\ IsEmpty(buffer)
  /\ buffer' = WaitNotEmpty(buffer, Reader)
  /\ calling' = calling \cup {Reader} /\ asleep' = asleep \cup {Reader}
  /\ UNCHANGED <<mode, outVars, rbr, arrived, got, ier, panic, left, wire>>

InputGetc ==
  /\ CanRead /\ ~IsEmpty(buffer)
  /\ buffer' = Getc(buffer) /\ Wake(GetcWakes(buffer))
  /\ got' = IF First(buffer) = Key THEN got ELSE First(buffer)
  /\ calling' = calling \ {Reader}
  /\ Notify
  /\ UNCHANGED <<mode, outVars, rbr, arrived, panic, left, wire>>

(* keyboard_interrupt with a character; a full buffer drops it.  A variant *)
(* does not look.                                                          *)
KeyPressBlind ==
  /\ panic = "no"
  /\ buffer' = Putc(buffer, Key) /\ Wake(PutcWakes(buffer))
  /\ Notify
  /\ UNCHANGED <<mode, outVars, rbr, arrived, got, calling, panic, left, wire>>

KeyPress ==
  /\ panic = "no" /\ ~IsFull(buffer)
  /\ buffer' = Putc(buffer, Key) /\ Wake(PutcWakes(buffer))
  /\ Notify
  /\ UNCHANGED <<mode, outVars, rbr, arrived, got, calling, panic, left, wire>>

(* serial_interrupt.  Its loops go on while the hardware keeps up: another *)
(* round is another interrupt here.                                        *)
Receiving == rbr # 0 /\ ~IsFull(buffer)
Transmitting == thr = 0 /\ ~IsEmpty(txq)

SerialInterrupt ==
  /\ mode # "poll" /\ panic = "no"
  /\ (ier.xmit /\ thr = 0) \/ (ier.recv /\ rbr # 0)
  /\ IF Receiving THEN buffer' = Putc(buffer, rbr) /\ rbr' = 0
                  ELSE UNCHANGED <<buffer, rbr>>
  /\ IF Transmitting THEN txq' = Getc(txq) /\ thr' = First(txq)
                     ELSE UNCHANGED <<txq, thr>>
  /\ Wake((IF Receiving THEN PutcWakes(buffer) ELSE {})
          \cup (IF Transmitting THEN GetcWakes(txq) ELSE {}))
  /\ WriteIer(txq', buffer')
  /\ UNCHANGED <<mode, written, arrived, got, calling, panic, left, wire>>

(* The UART sends a byte, and receives one when the last has been read.    *)
Transmit ==
  /\ thr # 0 /\ thr' = 0 /\ wire' = thr
  /\ UNCHANGED <<mode, txq, written, inVars, ier, calling, asleep, panic, left>>

Receive ==
  /\ rbr = 0 /\ arrived < MaxIn
  /\ arrived' = arrived + 1 /\ rbr' = arrived'
  /\ UNCHANGED <<mode, outVars, buffer, got, ier, calling, asleep, panic, left, wire>>

Stopped == panic = "stop" /\ UNCHANGED vars

SerialNext ==
  \/ InitQueue \/ EnableQueue \/ PutcPolled \/ PutcWait \/ PutcQueued
  \/ Panic \/ PanicPutc \/ Flush \/ Stopped
  \/ GetcWait \/ InputGetc \/ KeyPress
  \/ SerialInterrupt \/ Transmit \/ Receive

Spec == Init /\ [][SerialNext]_vars

-----------------------------------------------------------------------------
(* The hardware works, its interrupts are taken, and the thread that was   *)
(* woken in intq_putc or intq_getc runs.  A thread that is not in a call   *)
(* need not make one; debug_panic runs to its end.                         *)
Fairness ==
  /\ WF_vars(Transmit) /\ WF_vars(SerialInterrupt)
  /\ WF_vars(PanicPutc \/ Flush)
  /\ WF_vars(Writer \in calling /\ (PutcWait \/ PutcQueued))
  /\ WF_vars(Reader \in calling /\ (GetcWait \/ InputGetc))

FairSpec == Spec /\ Fairness

-----------------------------------------------------------------------------
Bytes == 0..(MaxOut + PanicOut + MaxIn) \cup {Key}

TypeOK ==
  /\ mode \in {"poll", "starting", "queue"} /\ panic \in {"no", "print", "flush", "stop"}
  /\ txq \in QueueType(Bytes, {Writer}) /\ buffer \in QueueType(Bytes, {Reader})
  /\ ier \in [xmit : BOOLEAN, recv : BOOLEAN]
  /\ thr \in Bytes /\ rbr \in Bytes
  /\ calling \subseteq {Writer, Reader} /\ asleep \subseteq calling
  /\ left \in 0..PanicOut
  /\ written \in Nat /\ wire \in Nat /\ arrived \in Nat /\ got \in Nat

(* No lost wake-up: a thread that sleeps is the one its queue will wake,   *)
(* and the queue is still full, or still empty; a thread that was woken is *)
(* not registered any more, so no later signal unblocks a running thread.  *)
SleeperRegistered ==
  /\ Writer \in asleep <=> txq.notFull = Writer
  /\ Writer \in asleep => IsFull(txq)
  /\ Reader \in asleep <=> buffer.notEmpty = Reader
  /\ Reader \in asleep => IsEmpty(buffer)

(* Whoever changed a queue last, thread or handler, the port raises an     *)
(* interrupt exactly when there is something to send or room to receive.   *)
IerCurrent ==
  mode = "queue" /\ panic = "no" =>
    /\ ier.xmit = ~IsEmpty(txq)
    /\ ier.recv = ~IsFull(buffer)

(* A sleeping writer has its room coming: the transmitter is sending, or   *)
(* interrupts and the handler will take a byte out of the queue.  A byte   *)
(* in the receiver interrupts on behalf of a sleeping reader.              *)
SleeperServed ==
  panic = "no" =>
    /\ Writer \in asleep => mode = "queue" /\ (thr = 0 => ier.xmit /\ Transmitting)
    /\ Reader \in asleep /\ mode = "queue" /\ rbr # 0 => ier.recv /\ Receiving

(* Threads, queues and the port agree whenever a handler may run.          *)
SerialInv == TypeOK /\ SleeperRegistered /\ IerCurrent /\ SleeperServed

Out == INSTANCE Stream WITH Capacity <- BufSize, sent <- written, delivered <- wire
In == INSTANCE Stream WITH Capacity <- BufSize, sent <- arrived, delivered <- got

(* Everything printed leaves the port, in order and once, across the       *)
(* change from polling to interrupts, a full queue, and a panic.           *)
OutputDelivered == Out!FairSpec

(* input_getc returns the bytes of the line in the order they came, none   *)
(* lost to a full buffer, whatever keys come in between.                   *)
InputInOrder == In!Spec

(* A full queue does not hold the printing thread for ever.                *)
WriterServed == Writer \in calling ~> (Writer \notin calling \/ panic # "no")

(* A byte in the receiver reaches the thread that waits for input: the     *)
(* receive interrupt that a full buffer turned off is on again.            *)
ReaderServed ==
  Reader \in calling /\ rbr # 0 /\ mode = "queue" ~> (Reader \notin calling \/ panic # "no")

(* Neither handshake between a thread and the interrupts gets stuck: the   *)
(* printing thread gets its room and the reading thread its byte.          *)
CallsServed == WriterServed /\ ReaderServed
=============================================================================
