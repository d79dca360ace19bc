\* Two cells that may move in memory from one configuration to the next,
\* without a window.
SPECIFICATION Spec
CONSTANTS
    Addr <- ThreeSlots
    Nums <- UpToTwo
    Monitor = {}
    Request = {good}
    Playable = {good}
    Gui = FALSE
    None = None
    MaxTimers = 10
    MaxBus = 1
INVARIANTS
    FreedUntouched
    RestartArmed
    StopArmed
PROPERTY WallKept
