SPECIFICATION FairSpec
CONSTANTS
    NoName = NoName
    r1 = r1
    r2 = r2
    s1 = s1
    RouteNames = {r1}
    SecretNames = {r1, s1}
    Annotations <- OtherName
    MaxEdits = 1
    MaxLag = 2
    MaxFaults = 0
PROPERTIES
    SecretFollowsRoute
CHECK_DEADLOCK FALSE
