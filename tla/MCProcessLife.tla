--------------------------- MODULE MCProcessLife ---------------------------
(* Small instances of ProcessLife for TLC. *)
EXTENDS ProcessLife
=============================================================================
