---------------------------- MODULE CommandQueue ----------------------------
(***************************************************************************)
(* What the reading of commands promises, without text: the commands of a  *)
(* packet are carried out one after the other, each as it was sent, and    *)
(* what was stored of them is carried out again after a restart.  The      *)
(* promise ends with a command that writes outside an array, and holds     *)
(* again from the next start, with whatever is stored by then.             *)
(***************************************************************************)
EXTENDS Integers, Sequences

CONSTANTS Index, Cam, None

\* keep: the command is to be stored.  over: handling it writes outside an
\* array.
Command == [kind : {"play", "other"}, index : Index, cam : Cam,
            keep : BOOLEAN, over : BOOLEAN]

VARIABLES
    cells,     \* the number of cells of the grid
    queue,     \* commands of the last packet that are still to be done
    shown,     \* per monitor: the camera it was last told to show
    stored,    \* per monitor: the stored command
    fault      \* has the process written outside an array?

vars == <<cells, queue, shown, stored, fault>>

Init ==
    /\ cells \in Nat \ {0} /\ queue = <<>> /\ fault = FALSE
    /\ shown = [i \in Index |-> <<>>] /\ stored = [i \in Index |-> None]

Deliver ==
    /\ ~fault /\ queue = <<>> /\ queue' \in Seq(Command)
    /\ \A k \in DOMAIN queue' : queue'[k].keep
    /\ UNCHANGED <<cells, shown, stored, fault>>

Handle ==
    /\ ~fault /\ queue # <<>> /\ ~Head(queue).over /\ queue' = Tail(queue)
    /\ LET c == Head(queue) IN
         IF c.kind = "play"
         THEN /\ shown' = IF c.index < cells
                          THEN [shown EXCEPT ![c.index] = c.cam] ELSE shown
              /\ stored' = IF c.keep THEN [stored EXCEPT ![c.index] = c]
                           ELSE stored
         ELSE UNCHANGED <<shown, stored>>
    /\ UNCHANGED <<cells, fault>>

\* A stored command comes back as it was, or, when handling it will write
\* outside an array, at least as one for the same monitor.
Recall(i) ==
    /\ ~fault /\ queue = <<>> /\ stored[i] # None
    /\ queue' \in Seq(Command) /\ Len(queue') = 1
    /\ LET c == queue'[1] IN
         /\ c.kind = "play" /\ c.index = i /\ ~c.keep
         /\ c.over = stored[i].over /\ (~c.over => c.cam = stored[i].cam)
    /\ UNCHANGED <<cells, shown, stored, fault>>

\* The process writes outside an array, or has done so.
Lost ==
    /\ fault \/ (queue # <<>> /\ Head(queue).over)
    /\ fault' = TRUE /\ queue' \in Seq(Command)
    /\ shown' \in [Index -> Cam] /\ stored' \in [Index -> Command \cup {None}]
    /\ UNCHANGED cells

Restart ==
    /\ queue' = <<>> /\ shown' = [i \in Index |-> <<>>] /\ fault' = FALSE
    /\ UNCHANGED <<cells, stored>>

Next == Deliver \/ Handle \/ (\E i \in Index : Recall(i)) \/ Lost \/ Restart

Spec == Init /\ [][Next]_vars
=============================================================================
