SPECIFICATION TablesSpec
CONSTANTS
    Readers = {r1, r2}
    NoEntry = NoEntry
    Responses <- MCResponses
    Ttl = 2
    Fraction = 2
    MaxSec = 3
    MaxBack = 1
    c1 = c1
    c2 = c2
    c3 = c3
    u1 = u1
    Requests <- MCRequests
    NoKey = NoKey
    Clients = {c1, c2, c3}
    Users = {u1}
    AllRequests = AllRequests
    Goroutines = {g1, g2}
    Watched = {c1, u1, AllRequests}
    Rate = 1
    Burst = 2
    AllBurst = 3
    MaxEntries = 2
    Idle = 2
    MaxSkew = 1
    MaxTime = 3
    kids = kids
    lan = lan
    d1 = d1
    d2 = d2
    d3 = d3
    Texts <- MCTexts
    Lists <- MCLists
    Addresses = {c1, c2}
    Networks = {lan}
    Contains <- MCContains
    Hosts = {d1, d2, d3}
    Ends <- MCEnds
    Askers <- MCAskers
INVARIANTS SelectorsRight HitsWholeAndFresh RateBound
PROPERTY StateBoundedAndExpiring
CONSTRAINT Bound
SYMMETRY Symmetry
CHECK_DEADLOCK FALSE
