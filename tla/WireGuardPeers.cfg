\* Two requests that may overlap; a network of two hosts.
CONSTANTS
    k1 = k1
    k2 = k2
    NoIP = NoIP
    NoKey = NoKey
    AnyFree = AnyFree
    Down = Down
    NoRequest = NoRequest
    Keys = {k1, k2}
    Broadcast = 3
    Handlers = {h1, h2}
    MaxRequests = 2
    Requests <- MCRequests
    InitialConfigs <- MCInitialConfigs
SYMMETRY SymmetricHandlers
SPECIFICATION Spec
INVARIANTS
    TypeOK
    PeersAreDistinct
    AloneMeansDone
