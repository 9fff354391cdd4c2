SPECIFICATION Spec
CONSTANTS
    Requests <- MCRequests
    Items <- MCItems
    Configs <- MCConfigs
    Snapshots <- MCSnapshots
    NoList = NoList
INVARIANTS
    TypeOK
    PlaysWithinPolicy
    BitrateCapped
    ChoiceKept
