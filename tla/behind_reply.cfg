CONSTANTS
    h1 = h1
    h2 = h2
    Publisher = Publisher
    Handles = {h1}
    MaxReconnect = 2
    MaxEvents = 1
    MaxWire = 2
SPECIFICATION Spec
PROPERTIES
    RoutedFromReply
CHECK_DEADLOCK FALSE
