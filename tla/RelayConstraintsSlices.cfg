SPECIFICATION LimitedSpec
CONSTANTS
    Address = {a1, a2}
    Port = {p1, p2, p3}
    RelayTimeout = 2
    CleanupInterval = 1
    NoPort = NoPort
    Size = {1, 2, 4}
    TrafficInterval = 1
    IndividualLimit = 2
    GlobalLimit = 3
    MaxLifetimeDuration = 3
    MaxLifetimeTraffic = 6
SYMMETRY Symmetry
INVARIANT SliceAllotted
CHECK_DEADLOCK FALSE
