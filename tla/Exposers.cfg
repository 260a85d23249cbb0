SPECIFICATION FairSpec
CONSTANTS
    Pods = {p1, p2}
    NoMax = NoMax
    Asked <- MCAsked
    RangeItems <- MCRangeItems
    MaxItems = 2
    RangeLists <- MCRangeLists
    MaxOrders = 2
    MaxStale = 2
    MaxMishaps = 1
INVARIANTS TypeOK RangesRespected
PROPERTIES ChallengeAccepted NothingLeft ImplementsContract
CHECK_DEADLOCK FALSE
