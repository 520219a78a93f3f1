--------------------------- MODULE MCLinearWriter ---------------------------
(* Small instances of LinearWriter for TLC.                                *)
EXTENDS LinearWriter

CONSTANTS x, y

MCItems == {x, y}
=============================================================================
