SPECIFICATION FairSpec
CONSTANTS
    Keys = {k1}
    Sizes = {3}
    Unusable = {3}
    Writers = {w1, w2}
    Readers = {}
    Purger = Purger
    Cancellable = {w1, Purger}
    Purging = TRUE
    MaxSize = 3
    NoFile = NoFile
    Nobody = Nobody
    MaxPuts = 2
    MaxFailures = 1
    MaxCrashes = 0
INVARIANTS
    NoTornRecords
    AccountingExact
PROPERTIES
    PutsEnd
