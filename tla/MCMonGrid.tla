----------------------------- MODULE MCMonGrid -----------------------------
(* MonGrid for TLC: constants the configurations cannot write down. *)
EXTENDS MonGridWall

OneSlot == {1}
TwoSlots == 1 .. 2
ThreeSlots == 1 .. 3
OneMonitor == {1}
UpToTwo == {1, 2}
OneOrTooMany == {1, 17}
=============================================================================
