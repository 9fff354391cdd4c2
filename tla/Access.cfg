SPECIFICATION Spec
CONSTANTS
    Requests = {r1, r2}
    Inputs <- MCInputs
    Servers <- MCServers
    Tokens <- MCTokens
    NoToken = NoToken
    Clients = {"phone", "tv"}
    Names <- MCNames
    Uuids = {"u1", "shared", "configured"}
    NoName = NoName
    Parts = {"film"}
    NoPart = NoPart
    FactOf <- MCFactOf
    PlexUser <- MCPlexUser
    SharedUser <- MCSharedUser
    ServerUser <- MCServerUser
    Nobody = Nobody
    Bindings <- MCBindings
    NoBinding = NoBinding
    ClientMap <- MCClientMap
    AllowUsername = TRUE
    AdminToken = TRUE
    Redirects = TRUE
    Snapshots <- MCSnapshots
    NoFact = NoFact
SYMMETRY RequestSymmetry
INVARIANTS
    TypeOK
    IdentityIsPlexs
    StreamsWithinPolicy
    FailsClosed
