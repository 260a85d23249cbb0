SPECIFICATION FairSpec
CONSTANTS
    Replicas = {r1, r2}
    Nobody = Nobody
    LeaseDuration = 5
    RenewDeadline = 2
    RetryPeriod = 1
    Slack = 1
    Workers = 1
    MaxItems = 1
    MaxSignals = 2
    MaxFaults = 1
INVARIANTS TypeOK OneActive
PROPERTIES ProcessEnds ImplementsLeadership
