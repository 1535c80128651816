SPECIFICATION ProcessSpec
CONSTANTS
    a = a
    A = A
    b = b
    c = c
    m1 = m1
    m2 = m2
    m3 = m3
    On = On
    Off = Off
    NoAck = NoAck
    Values = {a, A, b, c, On, Off}
    Norm <- MCNorm
    Configured <- MCConfigured
    Submitted <- MCSubmitted
    Kinds = {"static-host", "zen-domain", "blacklist-host", "cache-exclude", "cache-enabled"}
    Requests = {r1, r2}
    MaxRequests = 3
    MaxFaults = 1
    MaxCrashes = 2
    Serve = Serve
    Admin = Admin
    NoProcess = NoProcess
    Unset = Unset
    Migrations <- MCMigrations
    TargetStarts = {1, 3}
    Repeatable = {m1}
    Settings <- MCSettings
    Tasks = {"rotate", "purge"}
    MaxQueries = 1
INVARIANTS AcknowledgedIsStored MemoryMatchesTable SchemaBeforeUse OrderlyShutdown
CONSTRAINT Bound
SYMMETRY Symmetry
\* Handlers wait for requests, and their number is bounded.
CHECK_DEADLOCK FALSE
