SPECIFICATION FairSpec
CONSTANTS
    Queries = {q1, q2}
    NoQuery = NoQuery
    k1 = k1
    k2 = k2
    Questions = {k1}
    Rules <- NoRules
    StubZones <- OneZone
    ExcludeSets <- NoExcludes
    MaxSlots = 2
    NumUpstreams = 1
    MaxAdmin = 1
PROPERTY EveryQueryReturns
