SPECIFICATION Spec
CONSTANTS
    a = a
    b = b
    c = c
    NoTree = NoTree
    Domains = {a, b, c}
    Content <- MCAllContent
    MaxRevision = 3
    Valid = {1, 3}
    ExcludeSets = {{}, {b}}
    HostSets = {{}, {c}}
    MaxRequests = 1
    MaxFaults = 0
    MaxCrashes = 1
INVARIANT EveryNameBlocked
