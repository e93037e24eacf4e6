\* Two requests at a time, one port: two inbounds collide; liveness, so no
\* symmetry.
CONSTANTS
    t1 = t1
    t2 = t2
    NoHandler = NoHandler
    NoRequest = NoRequest
    Empty = Empty
    Torn = Torn
    Missing = Missing
    Down = Down
    Starting = Starting
    Tags = {t1, t2}
    Ports = {p1}
    Handlers = {h1, h2}
    Requests <- MCRequests
SPECIFICATION FairSpec
INVARIANTS
    TypeOK
    PendingCoversDrift
    TornOnlyUnderLock
    NoLostEdit
PROPERTIES
    RequestsAreAnswered
