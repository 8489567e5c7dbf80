---------------------------- MODULE MCBoardStrip ----------------------------
(* Two status columns are enough for the nearest one to the left.          *)
EXTENDS BoardStrip

CONSTANTS working, idle
MCStatusOrder == <<working, idle>>
=============================================================================
