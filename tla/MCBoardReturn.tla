--------------------------- MODULE MCBoardReturn ---------------------------
(* The bare board, and two workspaces' boards, which share a route. *)
EXTENDS BoardReturn
MCShape == [u \in Board |-> IF u = Home THEN "home" ELSE "workspace"]
=============================================================================
