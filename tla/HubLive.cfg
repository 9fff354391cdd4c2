SPECIFICATION FairSpec
CONSTANTS
    Accounts = {a1}
    Paths = {cw}
    MergedPaths = {}
    Global = Global
    Requests = {r1}
    Tasks = {t1}
    Warmer = Warmer
    WarmTokens = {a1}
    FirstToken = a1
    StaleTTL = 1
    MinInterval = 1
    FetchTimeout = 2
    NoPayload = NoPayload
    NoJob = NoJob
    ProxyEvents = TRUE
    Webhooks = FALSE
    MaxChanges = 1
    MaxMarks = 1
    MaxFailures = 1
    MaxEvictions = 1
INVARIANTS TypeOK BoundedStaleness
PROPERTIES ClaimsEnd WarmKeysHeal
