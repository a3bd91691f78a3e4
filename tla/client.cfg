CONSTANTS
    h1 = h1
    h2 = h2
    Publisher = Publisher
    Handles = {h1, h2}
    MaxReconnect = 2
    MaxEvents = 4
    MaxWire = 1
SPECIFICATION FairSpec
INVARIANTS
    ClientTypeOK
    NoHungRequest
    MappedIsLive
    ClosedEnds
PROPERTIES
    RoutedOnceActive
    Recovers
CHECK_DEADLOCK FALSE
