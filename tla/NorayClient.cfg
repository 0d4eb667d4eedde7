SPECIFICATION SetupSpec
CONSTANTS
    Host = {h}
    Joiner = {j1, j2}
    NumPlayers = 3
    RegisterTries = 2
    ConnectTries = 2
    NoPlayer = NoPlayer
    Stranger = Stranger
INVARIANTS
    JoinersKnown
PROPERTIES
    HostLearns
    JoinEnds
CHECK_DEADLOCK FALSE
