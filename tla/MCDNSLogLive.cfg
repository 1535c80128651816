SPECIFICATION FairSpec
CONSTANTS
    Keys = {k1, k2}
    Plain = Plain
    NoKey = NoKey
    Modes <- DomainModes
    MaxEvents = 1
    MaxFaults = 1
    MaxCrashes = 1
PROPERTY FlushesAndStops
