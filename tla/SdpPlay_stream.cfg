\* A stream alone, with every kind of pipeline; and play commands, with
\* descriptions and files, stores that fail and config mode.
SPECIFICATION MCSpec
SYMMETRY MCSymmetry
CONSTANTS
    d1 = d1
    d2 = d2
    Desc <- MCDesc
    Params <- MCParams
    Plays <- MCPlays
    Crops <- MCCrops
    Failing = {"play", "cache"}
    Hosts <- MCHosts
    Width <- MCWidth
    MaxCount = 1
    None = None
    Garbled = Garbled
    Empty = Empty
INVARIANTS
    TypeOK
    PictureFlows
    PointersLive
    BoxFits
    BoxCovers
    CountsAddUp
    DescriptionWhole
    FetchedPlays
    RestartPlaysSame
PROPERTY
    ConfigModeRefuses
