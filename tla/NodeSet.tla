------------------------------ MODULE NodeSet -------------------------------
(* What a container of nodes promises: a set that grows and shrinks by the   *)
(* node of the call.                                                         *)
CONSTANT Element
VARIABLE set

Init == set = {}

Insert(x) == x \notin set /\ set' = set \cup {x}

Delete(x) == x \in set /\ set' = set \ {x}

Next == \E x \in Element : Insert(x) \/ Delete(x)

Spec == Init /\ [][Next]_set
=============================================================================
