SPECIFICATION Spec
CONSTANTS
    Accounts = {a1}
    Paths = {cw}
    MergedPaths = {}
    Global = Global
    Requests = {r1}
    Tasks = {t1}
    Warmer = Warmer
    WarmTokens = {a1}
    FirstToken = a1
    StaleTTL = 5
    MinInterval = 1
    FetchTimeout = 2
    NoPayload = NoPayload
    NoJob = NoJob
    ProxyEvents = TRUE
    Webhooks = FALSE
    MaxChanges = 1
    MaxMarks = 1
    MaxFailures = 0
    MaxEvictions = 0
SYMMETRY SlotSymmetry
INVARIANTS MarkedPayloadsStayStale
