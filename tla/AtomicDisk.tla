----------------------------- MODULE AtomicDisk -----------------------------
(***************************************************************************)
(* What disk_read and disk_write promise: between its start and its return *)
(* each of them reads or replaces one sector in a single step.             *)
(***************************************************************************)
CONSTANTS Thread, Place, Value, NoValue

VARIABLES
  store,  \* contents of the sectors
  call    \* the request of each thread, or Idle

Idle == [kind |-> "idle"]
Calls == [kind : {"read", "write"}, place : Place, value : Value \cup {NoValue}, done : BOOLEAN]

Init == store \in [Place -> Value] /\ call = [t \in Thread |-> Idle]

Ask(t, kind, p, v) ==
  /\ call[t] = Idle
  /\ call' = [call EXCEPT ![t] = [kind |-> kind, place |-> p, value |-> v, done |-> FALSE]]
  /\ UNCHANGED store

Read(t) ==
  /\ call[t] \in Calls /\ call[t].kind = "read" /\ ~call[t].done
  /\ call' = [call EXCEPT ![t].value = store[call[t].place], ![t].done = TRUE]
  /\ UNCHANGED store

Write(t) ==
  /\ call[t] \in Calls /\ call[t].kind = "write" /\ ~call[t].done
  /\ store' = [store EXCEPT ![call[t].place] = call[t].value]
  /\ call' = [call EXCEPT ![t].done = TRUE]

Return(t) ==
  /\ call[t] \in Calls /\ call[t].done
  /\ call' = [call EXCEPT ![t] = Idle]
  /\ UNCHANGED store

Next ==
  \E t \in Thread :
    \/ Read(t) \/ Write(t) \/ Return(t)
    \/ \E p \in Place : Ask(t, "read", p, NoValue) \/ \E v \in Value : Ask(t, "write", p, v)

Spec == Init /\ [][Next]_<<store, call>>
=============================================================================
