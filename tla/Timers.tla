------------------------------- MODULE Timers -------------------------------
(***************************************************************************)
(* What an alarm clock promises: a thread that goes to sleep is awake in   *)
(* the tick it asked for and in no earlier one, whoever else sleeps.       *)
(***************************************************************************)
EXTENDS Integers

CONSTANT Threads

VARIABLE due   \* ticks until each sleeping thread is awake, 0 if it is awake

Init == due = [t \in Threads |-> 0]

Sleep(t) ==
  /\ due[t] = 0 /\ due'[t] \in Nat \ {0}
  /\ due' = [due EXCEPT ![t] = due'[t]]

Tick == due' = [t \in Threads |-> IF due[t] > 0 THEN due[t] - 1 ELSE 0]

Next == Tick \/ \E t \in Threads : Sleep(t)

Spec == Init /\ [][Next]_due
=============================================================================
