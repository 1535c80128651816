SPECIFICATION FairSpec
CONSTANTS
    a = a
    b = b
    c = c
    NoTree = NoTree
    Domains = {a, b, c}
    Content <- MCAllContent
    MaxRevision = 3
    Valid = {1, 3}
    ExcludeSets = {{}, {b}}
    HostSets = {{}, {c}}
    MaxRequests = 2
    MaxFaults = 2
    MaxCrashes = 2
INVARIANTS HoleFollowsFile RevisionNeverAhead OnlyValidActive
PROPERTY EventuallyCurrent
