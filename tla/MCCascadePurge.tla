--------------------------- MODULE MCCascadePurge ---------------------------
(* Two workspaces; the first has two tabs.                                 *)
EXTENDS CascadePurge, TLC

CONSTANTS w1, w2, t1, t2, t3
\* No liveness is checked, and panes are interchangeable.
Symmetry == Permutations(Pane)
MCHome == [t \in Tab |-> IF t = t3 THEN w2 ELSE w1]
=============================================================================
