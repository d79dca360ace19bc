------------------------------ MODULE MCPlayer ------------------------------
(* Player for TLC: monitor counts, one of which the grid refuses. *)
EXTENDS Player

TwoAndTooMany == {2, 17}
=============================================================================
