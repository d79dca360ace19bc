\* See README: what the code does not keep.
SPECIFICATION Spec
CONSTANTS
    Addr <- TwoSlots
    Nums <- OneOrTooMany
    Monitor = {m1}
    Request = {good, bad}
    Playable = {good}
    Gui = TRUE
    None = None
    MaxTimers = 10
    MaxBus = 2
INVARIANT SettledPlays
