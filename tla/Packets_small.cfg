SPECIFICATION Spec
CONSTANTS
    Packet <- MCPacket
    Grids = {1, 2}
    RecvSize = 10
    LoadSize = 8
    LogSize = 8
    StatusSize = 23
    CamSize = 3
    NumberSize = 2
    Requests = {"none", "switch", "next", "wiper", "enter", "sequence", "preset", "ptz"}
    None = None
INVARIANTS
    TypeOK
    StatusTells
    RequestSent
PROPERTY
    CommandsDone
