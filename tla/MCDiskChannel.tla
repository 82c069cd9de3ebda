--------------------------- MODULE MCDiskChannel ---------------------------
(* Two threads and two drives for TLC. *)
EXTENDS DiskChannel, TLC

ThreeRequests == "t1" :> 2 @@ "t2" :> 1
=============================================================================
