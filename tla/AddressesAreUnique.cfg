\* A peer is deleted, another created, the first restored.
CONSTANTS
    k1 = k1
    k2 = k2
    NoIP = NoIP
    NoKey = NoKey
    AnyFree = AnyFree
    Down = Down
    NoRequest = NoRequest
    Keys = {k1, k2}
    Broadcast = 3
    Handlers = {h1}
    MaxRequests = 3
    Requests <- ReturningPeer
    InitialConfigs <- MCInitialConfigs
SYMMETRY SymmetricHandlers
SPECIFICATION HealthySpec
INVARIANT AddressesAreUnique
CHECK_DEADLOCK FALSE
