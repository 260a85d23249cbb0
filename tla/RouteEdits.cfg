SPECIFICATION FreshLiveSpec
CONSTANTS
    h1 = h1
    h2 = h2
    NoHost = NoHost
    Hosts = {h1, h2}
    MaxTries = 2
    MaxOrders = 2
    MaxLag = 1
    MaxEdits = 2
    MaxFaults = 0
INVARIANTS
    TypeOK
    OrderNeverLost
PROPERTIES
    Converges
    ExposersRemoved
CHECK_DEADLOCK FALSE
