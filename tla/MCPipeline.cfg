SPECIFICATION Spec
CONSTANTS
    Queries = {q1, q2}
    NoQuery = NoQuery
    k1 = k1
    k2 = k2
    Questions = {k1, k2}
    Rules <- MCRules
    StubZones <- MCStubZones
    ExcludeSets <- MCExcludeSets
    MaxSlots = 1
    NumUpstreams = 2
    MaxAdmin = 2
INVARIANTS PolicyFirst CacheIsCurrent SlotAccounting
PROPERTY SaturationJustified
SYMMETRY Symmetry
