SPECIFICATION LibrarySpec
CONSTANTS
    Id = {1, 2, 3}
    Fields <- MCFields
    Updates <- MCUpdates
    Kilo = 2
    Capital <- MCCapital
    Words <- MCWords
    Undefined = Undefined
    Throws = Throws
    Dash = Dash
    Plus = Plus
    Dot = Dot
    Comma = Comma
    Letter = Letter
    NaN = NaN
    Colon = Colon
    At = At
    Arrow = Arrow
    Calls <- MCCalls
    NoCall = NoCall
INVARIANTS
    PortsMeant
    SizesRoundTrip
    DurationsAgree
    NothingLost
    NamesDistinct
    SettingsApart
PROPERTIES
    OrderStable
CHECK_DEADLOCK FALSE
