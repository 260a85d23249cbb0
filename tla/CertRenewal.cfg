SPECIFICATION Spec
CONSTANTS
    Lifetimes = {9, 10, 12, 13, 17}
    Hashes = {0, 1, 2, 3}
    Backdate = 2
    Latency = 2
    MaxTime = 30
INVARIANTS
    NeverLapses
    WakesInTime
PROPERTIES
    RenewedLate
CHECK_DEADLOCK FALSE
