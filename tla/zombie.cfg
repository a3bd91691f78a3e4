CONSTANTS
    h1 = h1
    h2 = h2
    Publisher = Publisher
    Handles = {h1}
    MaxReconnect = 2
    MaxEvents = 2
    MaxWire = 1
SPECIFICATION Spec
INVARIANTS
    OnlyEstablishedResume
CHECK_DEADLOCK FALSE
