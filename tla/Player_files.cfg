\* Two monitors, one of them restored from its file after every restart.
SPECIFICATION FairSpec
CONSTANTS
    Setting = {s1, s2}
    Count <- TwoAndTooMany
    MaxIndex = 1
    None = None
    Empty = Empty
INVARIANTS
    TypeOK
    RebuildUndisturbed
    GridMatchesFiles
PROPERTY
    RebuildReturns
