------------------------------ MODULE MCAlarm ------------------------------
(* Small instances of Alarm for TLC. *)
EXTENDS Alarm, TLC

CONSTANTS t1, t2, t3

Threads3 == {t1, t2, t3}
Mixed3 == t1 :> 1 @@ t2 :> 2 @@ t3 :> 2
Sleeps3 == -1..2
=============================================================================
