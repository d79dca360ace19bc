\* Two servers, either of which may fall silent or close its port.
SPECIFICATION FairSpec
CONSTANTS
    Host = {h1, h2}
    None = None
    MaxQueue = 1
INVARIANTS
    TypeOK
    AddrIsPeer
PROPERTY
    RefusedPeerDropped
