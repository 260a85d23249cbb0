SPECIFICATION FairSpec
CONSTANTS
    NoName = NoName
    r1 = r1
    r2 = r2
    s1 = s1
    RouteNames = {r1}
    SecretNames = {r1}
    Annotations <- OwnNameOrNone
    MaxEdits = 4
    MaxLag = 2
    MaxFaults = 1
INVARIANTS
    TypeOK
PROPERTIES
    ForeignSecretsUntouched
    SecretFollowsRoute
CHECK_DEADLOCK FALSE
