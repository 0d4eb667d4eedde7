SPECIFICATION Spec
CONSTANTS
    Address = {a1, a2, a3}
    Port = {p1, p2, p3}
    RelayTimeout = 2
    CleanupInterval = 1
    NoPort = NoPort
INVARIANTS
    TypeOK
    AddressUnique
    PortExclusive
    SocketBacked
    RetentionBound
PROPERTIES
    ActiveRelayKept
    QuietRelayFreed
    ImplementsLeases
CHECK_DEADLOCK FALSE
