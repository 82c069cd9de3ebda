------------------------------ MODULE MCFrames ------------------------------
(* Small instances of Frames for TLC. *)
EXTENDS Frames, TLC

(* 1 is a segment, a file that fills one page and a part of another is    *)
(* mapped to 2, and the stack is 5 and may grow to 4 and 3, where it meets *)
(* the mapping.                                                            *)
FullPages1 == 2 :> 1
HasRest1 == 2 :> TRUE

(* A bound: of the two values the program writes both to a file while it   *)
(* is mapped, 0 to what munmap has left, and 1 to anything else.           *)
Written(va) ==
  IF va \in unmapped THEN {0} ELSE IF page[va].type = "file" THEN Values ELSE {1}

BoundedNext ==
  \/ \E va \in VA : \/ Read(va) \/ Fault(va) \/ StackGrowth(va)
                    \/ \E v \in Written(va) : Write(va, v)
  \/ \E addr \in Files : Mmap(addr) \/ Munmap(addr)
  \/ Exit \/ Stopped

BoundedSpec == Init /\ [][BoundedNext]_vars
=============================================================================
