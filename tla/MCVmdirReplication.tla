------------------------- MODULE MCVmdirReplication -------------------------
(* Instances of VmdirReplication for TLC. *)
EXTENDS VmdirReplication

CONSTANTS e1, e2, a, b

Pair == {<<1, 2>>, <<2, 1>>}
Chain == {<<2, 1>>, <<3, 2>>}

Flat == [e \in Entry |-> None]
Child == [e \in Entry |-> IF e = e2 THEN e1 ELSE None]
=============================================================================
