SPECIFICATION FairSpec
CONSTANTS
    h1 = h1
    h2 = h2
    n1 = n1
    l1 = l1
    l2 = l2
    Hosts = {h1, h2}
    Networks = {n1}
    Within <- MCWithin
    Labels = {l1, l2}
    Blank = Blank
    Stored <- MCStored
    Callers = {c1, c2}
    NoCaller = NoCaller
    MaxConns = 1
    MaxFaults = 2
    Requests <- MCRequests
    MaxRequests = 2
INVARIANTS LabelsWereStored
PROPERTIES ImplementsTagStore AnsweredIsInUse RequestsAnswered
CHECK_DEADLOCK FALSE
