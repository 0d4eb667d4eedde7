SPECIFICATION LifeSpec
CONSTANTS
    Port = {1, 2, 3}
    PortLists <- MCPortLists
    Conn = {c1, c2}
    Kilo = 2
    Capital <- MCCapital
    Words <- MCWords
    Undefined = Undefined
    Throws = Throws
    Dash = Dash
    Plus = Plus
    Dot = Dot
    Comma = Comma
    Letter = Letter
    NaN = NaN
INVARIANTS
    LifeTypeOK
    ReadyBeforeServing
    PoolReady
    ShutdownReleases
PROPERTIES
    StartEnds
    ShutdownEnds
CHECK_DEADLOCK FALSE
