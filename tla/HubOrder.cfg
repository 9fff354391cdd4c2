SPECIFICATION Spec
CONSTANTS
    Accounts = {a1}
    Paths = {cw}
    MergedPaths = {}
    Global = Global
    Requests = {r1}
    Tasks = {t1, t2}
    Warmer = Warmer
    WarmTokens = {a1}
    FirstToken = a1
    StaleTTL = 1
    MinInterval = 1
    FetchTimeout = 1
    NoPayload = NoPayload
    NoJob = NoJob
    ProxyEvents = FALSE
    Webhooks = TRUE
    MaxChanges = 1
    MaxMarks = 1
    MaxFailures = 1
    MaxEvictions = 1
SYMMETRY SlotSymmetry
INVARIANTS SingleFlight
PROPERTIES RefreshIsSerial BackgroundWritesInOrder PayloadsSurvive
