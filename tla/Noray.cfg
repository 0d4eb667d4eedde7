SPECIFICATION NoraySpec
CONSTANTS
    Address = {a1, a2}
    Port = {p1, p2, p3}
    RelayTimeout = 1
    CleanupInterval = 1
    NoPort = NoPort
    Conn = {c1, c2}
    Oid = {o1, o2}
    NoAddress = NoAddress
SYMMETRY Symmetry
INVARIANTS
    NorayTypeOK
    HostsConnected
    SessionsServed
    RelaysExclusive
    AddressesTold
PROPERTIES
    HostsStay
    ImplementsRepository
CHECK_DEADLOCK FALSE
