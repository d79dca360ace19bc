\* One cell, freed and allocated again, two streams of which one is refused,
\* under the fairness of the main loop.
SPECIFICATION FairSpec
CONSTANTS
    Addr <- TwoSlots
    Nums <- OneOrTooMany
    Monitor = {m1}
    Request = {good, bad}
    Playable = {good}
    Gui = TRUE
    None = None
    MaxTimers = 9
    MaxBus = 2
INVARIANTS
    TypeOK
    FreedUntouched
    RestartArmed
    StopArmed
    TitleCurrent
    AckedMeansOk
PROPERTIES
    StoppedRestarts
    StuckSinkStops
