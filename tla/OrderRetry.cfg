SPECIFICATION Spec
CONSTANTS
    BackoffInitial = 2
    BackoffMax = 4
    MaxSkew = 3
    MaxAge = 6
    MaxFailures = 3
    MaxElections = 2
INVARIANTS
    TypeOK
PROPERTIES
    RetryHappens
CHECK_DEADLOCK FALSE
