\* Two monitors, a joystick with one axis, under the fairness of the threads.
SPECIFICATION FairSpec
CONSTANTS
    Digit = {0, 1}
    EntrySize = 2
    Axis = {pan}
    None = None
INVARIANTS
    TypeOK
    MovingFollowed
    CamOfMon
PROPERTIES
    SwitchSent
    Drained
