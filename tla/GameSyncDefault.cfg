SPECIFICATION Spec
CONSTANTS
    Player = {p1, p2}
    OidLength = 21
    OutCapacity = 1
    InCapacity = 2
    MaxFrame = 2
INVARIANT EveryStateSent
CHECK_DEADLOCK FALSE
