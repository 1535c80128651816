SPECIFICATION ViewsSpec
CONSTANTS
    Keys = {k1, k2}
    Plain = Plain
    NoKey = NoKey
    Modes <- TwoModes
    MaxEvents = 2
    MaxFaults = 1
    MaxCrashes = 1
    HistoryHours = 2
    MaxHours = 4
    Requested = {0, 1}
    LastHour = 4
    MaxQueries = 1
    MaxTrouble = 1
    a1 = a1
    a2 = a2
    Addresses = {a1, a2}
    Domains = {d1}
    Names = {n1}
    Prefixes <- MCPrefixes
    NoTerm = NoTerm
    Second = 2
    MaxDNSLogEntries = 1
    Tops <- MCTops
    Limits = {0, 1, 5}
    DefaultLimit = 1
    MaxLimit = 2
    Ages = {2}
    MaxDelay = 1
    MaxLogged = 2
    LastTick = 5
INVARIANTS Accounted StopBarrier ClearBarrier ChoiceSurvives EventsCompatible PrivacySurvives HistoryExact QueriesRight
CONSTRAINT OneKindOfAlias
SYMMETRY Symmetry
