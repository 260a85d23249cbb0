SPECIFICATION FairSpec
CONSTANTS
    Issuers = {i1}
    NoName = NoName
    NoPrio = NoPrio
    Prios = {1}
    a = a
    i1 = i1
    Contacts = {a, b}
    Manifests <- MCManifests
    MaxAccounts = 3
    MaxLag = 2
    MaxEdits = 1
    MaxFaults = 0
PROPERTY ContactsFollowUser
CHECK_DEADLOCK FALSE
