SPECIFICATION Spec
CONSTANTS
    Requests = {r1}
    Accounts = {"a1", "a2"}
    Collections = {"c1", "c2"}
    BuiltIn = BuiltIn
    Items = {"seen", "show", "season", "film", "clip", "box"}
    Facts <- MCFacts
    Contents <- MCContents
    HomeRows <- MCHomeRows
    Pages <- MCPages
    Clients <- MCClients
    Worlds <- MCWorlds
    Starts = {0, 1}
    PageSize = 5
    Configs <- MCConfigs
    Policies <- MCPolicies
    Unlimited = 5
    Titles = {"t1", "t2"}
    MaxPage = 5
    MaxChanges = 1
    List = List
    NoKey = NoKey
    NoTitle = NoTitle
    NoName = NoName
    NotYet = NotYet
    Failed = Failed
    Nothing = Nothing
    Unidentified = Unidentified
INVARIANTS
    TypeOK
    HiddenStayHidden
    RowsAreShared
    RowsComplete
    RefreshAgrees
    PagesFiltered
