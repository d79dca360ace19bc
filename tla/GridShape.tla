----------------------------- MODULE GridShape -----------------------------
(***************************************************************************)
(* The arithmetic that shapes the monitor grid: get_rows and get_cols of   *)
(* mongrid.c grow a one-cell grid, a column and then a row at a time,      *)
(* until it holds the configured number of monitors.                       *)
(***************************************************************************)
EXTENDS Integers

\* mongrid_init refuses to lay out more monitors than this.
GridLimit == 16

\* The loop both functions run, from r rows and c columns.
grow[num \in Nat, r \in 1..GridLimit, c \in 1..GridLimit] ==
    IF r * c >= num THEN [rows |-> r, cols |-> c]
    ELSE IF r * (c + 1) < num THEN grow[num, r + 1, c + 1]
    ELSE grow[num, r, c + 1]

Rows(num) == grow[num, 1, 1].rows
Cols(num) == grow[num, 1, 1].cols

\* The number of cells mongrid_init allocates for num monitors.
NumCells(num) == Rows(num) * Cols(num)
=============================================================================
