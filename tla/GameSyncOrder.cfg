SPECIFICATION Spec
CONSTANTS
    Player = {p1, p2}
    OidLength = 24
    OutCapacity = 1
    InCapacity = 2
    MaxFrame = 2
PROPERTY UpdatesOrdered
CHECK_DEADLOCK FALSE
