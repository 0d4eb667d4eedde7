SPECIFICATION Spec
CONSTANTS
    Player = {p1, p2}
    OidLength = 24
    OutCapacity = 1
    InCapacity = 1
    MaxFrame = 2
INVARIANTS
    GameTypeOK
    EveryStateSent
    PartnersOnly
    ShownInTime
PROPERTY ChannelsMove
CHECK_DEADLOCK FALSE
