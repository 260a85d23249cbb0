SPECIFICATION FairSpec
CONSTANTS
    h1 = h1
    h2 = h2
    NoHost = NoHost
    Hosts = {h1}
    MaxTries = 2
    MaxOrders = 2
    MaxLag = 1
    MaxEdits = 0
    MaxFaults = 1
INVARIANTS
    FailuresChargedOnce
    RenewalScheduled
    ProgressScheduled
PROPERTIES
    NoSecondOrder
    Converges
CHECK_DEADLOCK FALSE
