--------------------------- MODULE MCParkedColumns ---------------------------
(* One workspace with two tabs.  The pane p2 is in no repository.           *)
EXTENDS ParkedColumns

CONSTANTS p2, h1, s1, t1, t2, r1
MCHostOf == [p \in Pane |-> h1]
MCSpaceOf == [p \in Pane |-> s1]
MCTabOf == [p \in Pane |-> IF p = p2 THEN t2 ELSE t1]
MCRepo == [p \in Pane |-> IF p = p2 THEN NoProject ELSE r1]
MCCheckout == [p \in Pane |-> IF p = p2 THEN NoProject ELSE r1]
=============================================================================
