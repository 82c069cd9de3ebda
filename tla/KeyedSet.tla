------------------------------ MODULE KeyedSet ------------------------------
(***************************************************************************)
(* What a hash table promises: a set of elements, no two with equal keys.  *)
(***************************************************************************)
CONSTANTS Element, KeyOf, None

VARIABLES members, answer

(* The member equal to e, if there is one.                                 *)
Equal(e) ==
  IF \E m \in members : KeyOf[m] = KeyOf[e]
  THEN CHOOSE m \in members : KeyOf[m] = KeyOf[e] ELSE None

Init == members = {} /\ answer = None

Insert(e) ==
  /\ answer' = Equal(e)
  /\ members' = IF Equal(e) = None THEN members \cup {e} ELSE members

Replace(e) == answer' = Equal(e) /\ members' = (members \ {Equal(e)}) \cup {e}

Find(e) == answer' = Equal(e) /\ UNCHANGED members

Delete(e) == answer' = Equal(e) /\ members' = members \ {Equal(e)}

Clear == members' = {} /\ answer' = None

Next == Clear \/ \E e \in Element : Insert(e) \/ Replace(e) \/ Find(e) \/ Delete(e)

Spec == Init /\ [][Next]_<<members, answer>>

=============================================================================
