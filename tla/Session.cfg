SPECIFICATION Spec
CONSTANTS
    Tabs = {a, b}
    Tokens = {k1, k2}
    None = none
    MaxCalls = 1
    MaxReloads = 1
INVARIANTS
    TypeOK
    StoredIsHeld
    BareCallsFollowRemoval
PROPERTIES
    DeadSessionEnds
