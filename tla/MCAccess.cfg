SPECIFICATION TopicSpec
CONSTANTS
    key1 = key1
    key2 = key2
    SigningKeys <- TwoKeys
    LegacyKey = key0
    NoSigningKey = NoSigningKey
    MaximumDays = 2
    Days = {0, 1, 3}
    Overlaps = {1, 2}
    ClockSkew = 1
    MaxIssued = 1
    EndOfTime = 3
    Nothing = Nothing
    Torn = Torn
    EnvironmentKey = EnvironmentKey
    ApiAddrs = {"127.0.0.1:8443", "127.0.0.1:9443"}
    LocalAddrs = {"127.0.0.1:8443"}
    HostLists = {{"127.0.0.1", "localhost"}, {"tdns.example.com"}}
    MaxRuns = 2
    MaxCommands = 1
INVARIANTS FreshDeploymentWorks ReportsTrue
PROPERTY DecisionsRight
CHECK_DEADLOCK FALSE
