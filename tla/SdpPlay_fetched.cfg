\* What sdp.c says of a .sdp file, when its name ends the location.
SPECIFICATION Spec
CONSTANTS
    d1 = d1
    d2 = d2
    Desc <- MCDesc
    Params <- MCPlayParams
    Plays <- MCSdpPlays
    Crops <- MCNoCrops
    Failing = {}
    Hosts <- MCOneHost
    Width = {0}
    MaxCount = 0
    None = None
    Garbled = Garbled
    Empty = Empty
PROPERTY
    SdpFetched
