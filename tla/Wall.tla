-------------------------------- MODULE Wall --------------------------------
(***************************************************************************)
(* What the grid promises of a wall of monitors, without memory, timers    *)
(* and messages: every monitor is asked for a stream, and shows that one,  *)
(* or none.  One that is dark for a failure, or for a new request, owes a  *)
(* start.  MonGrid implements this (MonGridWall).                          *)
(***************************************************************************)
EXTENDS Integers

CONSTANTS
    Request,    \* streams a monitor may be asked for
    Playable,   \* those that can be shown
    Size,       \* how many monitors a wall may have
    None

VARIABLES
    want,       \* per monitor: what it was asked for last
    show,       \* per monitor: what it shows
    owing       \* the monitors that still have to be started

vars == <<want, show, owing>>

Monitors == DOMAIN want

Blank(n) == [i \in 0 .. n - 1 |-> None]

Init == want = Blank(0) /\ show = Blank(0) /\ owing = {}

\* A new wall has nothing of the old one.
Rebuild(n) == want' = Blank(n) /\ show' = Blank(n) /\ owing' = {}

Ask(i, r) ==
    /\ want' = [want EXCEPT ![i] = r]
    /\ owing' = owing \cup {i}
    /\ UNCHANGED show

Fail(i) ==
    /\ show[i] # None
    /\ owing' = owing \cup {i}
    /\ UNCHANGED <<want, show>>

Darken(i) ==
    /\ show' = [show EXCEPT ![i] = None]
    /\ UNCHANGED <<want, owing>>

\* Only what is wanted now is ever shown, and only by a start that is owed.
Start(i) ==
    /\ i \in owing
    /\ show' = [show EXCEPT ![i] = IF want[i] \in Playable THEN want[i]
                                   ELSE None]
    /\ owing' = owing \ {i}
    /\ UNCHANGED want

Next ==
    \/ \E n \in Size : Rebuild(n)
    \/ \E i \in Monitors :
         \/ \E r \in Request : Ask(i, r)
         \/ Fail(i) \/ Darken(i) \/ Start(i)

Spec == Init /\ [][Next]_vars
=============================================================================
