SPECIFICATION FairSpec
CONSTANTS
    Handlers = {h1, h2}
    Codes = {c1}
    None = None
    CodeTTL = 1
    Lifetimes = {1, 2}
    MaxCSRFTokens = 2
    PurgeLimit = 1
    MaxTime = 1
    MaxSessions = 2
    MaxTokens = 3
    MaxRotations = 2
INVARIANTS SingleUse NoStalePasswordSession RecentTokensKept
PROPERTY EventuallyPurged
