SPECIFICATION Spec
CONSTANTS
    Keys = {k1, k2}
    Sizes = {1, 3}
    Unusable = {3}
    Writers = {w1, w2}
    Readers = {r1}
    Purger = Purger
    Cancellable = {}
    Purging = FALSE
    MaxSize = 3
    NoFile = NoFile
    Nobody = Nobody
    MaxPuts = 2
    MaxFailures = 2
    MaxCrashes = 1
SYMMETRY WriterSymmetry
INVARIANTS
    TypeOK
    NoTornRecords
    TempsOwned
    AccountingExact
PROPERTIES
    PutsLeaveRoom
