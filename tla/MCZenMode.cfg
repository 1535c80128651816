SPECIFICATION FairSpec
CONSTANTS
    Callers = {c1, c2, c3}
    Duration = 2
    MaxTime = 5
PROPERTIES NoEarlyEnd PeriodIsFixed PeriodEnds
CHECK_DEADLOCK FALSE
