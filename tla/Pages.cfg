SPECIFICATION Spec
CONSTANTS
    Requests = {r1, r2}
    Inputs <- MCInputs
    Accounts = {"a1", "anon"}
    Anonymous = "anon"
    Public = "public"
    Items = {"i1"}
    Servers = {"home", "away"}
    Home = "home"
    WarmAccounts = {"a1"}
    WarmItems = {"i1"}
    MaxFiles = 1
    MaxImages = 1
    HeroItems = {"i1"}
    Policies = {p1, p2}
    Raw = Raw
    Failed = Failed
    Pending = Pending
    Nothing = Nothing
SYMMETRY Symmetry
INVARIANTS
    TypeOK
    OneSource
PROPERTIES
    AnswersDirectly
