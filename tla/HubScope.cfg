SPECIFICATION Spec
CONSTANTS
    Accounts = {a1, a2}
    Paths = {home, cw}
    MergedPaths = {home}
    Global = Global
    Requests = {r1}
    Tasks = {t1}
    Warmer = Warmer
    WarmTokens = {a1}
    FirstToken = a1
    StaleTTL = 1
    MinInterval = 0
    FetchTimeout = 0
    NoPayload = NoPayload
    NoJob = NoJob
    ProxyEvents = FALSE
    Webhooks = FALSE
    MaxChanges = 0
    MaxMarks = 0
    MaxFailures = 1
    MaxEvictions = 0
SYMMETRY SlotSymmetry
INVARIANTS ScopedResponsesOwnContent
