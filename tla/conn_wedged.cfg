CONSTANTS
    a = a
    b = b
    Subs = {a, b}
    Limit = 1
    Timeout = 1
    MaxFrames = 3
    MaxDeliveries = 2
SPECIFICATION FairSpec
PROPERTIES
    DroppedTornDown
CHECK_DEADLOCK FALSE
