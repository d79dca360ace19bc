---------------------------- MODULE MonGridWall ----------------------------
(* MonGrid implements Wall: monitor i of the wall is cell i of the array.  *)
EXTENDS MonGrid

Cell(f) == [i \in 0 .. n_cells - 1 |-> f[cells + i]]

\* A cell that is not started and was never asked for anything has no timer,
\* and owes nothing.
Owing ==
    {i \in 0 .. n_cells - 1 : req[cells + i] # None /\ ~started[cells + i]}

W == INSTANCE Wall WITH
       Size <- {0} \cup {NumCells(num) : num \in {n \in Nums : n <= GridLimit}},
       want <- Cell(req), show <- Cell(pipe), owing <- Owing

\* Whatever timers, messages and allocations do, the monitors of the wall
\* only start to show what they are asked for, when a start is owed, and
\* nothing of an old wall gets onto a new one (mongrid_reset, do_restart).
WallKept == W!Spec
=============================================================================
