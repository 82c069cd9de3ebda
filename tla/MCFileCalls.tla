---------------------------- MODULE MCFileCalls ----------------------------
(* A small disk and two processes for TLC. *)
EXTENDS FileCalls

LengthsAndNegative == {-1, 0, 1}
FewerWhenForked == <<2, 1>>
=============================================================================
