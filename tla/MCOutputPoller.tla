--------------------------- MODULE MCOutputPoller ---------------------------
(***************************************************************************)
(* An instance of OutputPoller for TLC.  Version 1 changes the text under  *)
(* an unmoved revision (herdr 0.8.2), version 2 moves the revision alone.  *)
(***************************************************************************)
EXTENDS OutputPoller, TLC

MCContentOf == [v \in Version |-> IF v \in {1, 2} THEN "b" ELSE "a"]
MCRevisionOf == [v \in Version |-> IF v \in {0, 1} THEN 0 ELSE 1]
MCDeltable == {<<"a", "b">>, <<"b", "b">>}
=============================================================================
