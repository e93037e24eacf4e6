\* Two requests at a time; two names to rename between.
CONSTANTS
    a = a
    b = b
    u1 = u1
    u2 = u2
    i1 = i1
    i2 = i2
    i3 = i3
    NoTag = NoTag
    NoRequest = NoRequest
    Names = {a, b}
    Uuids = {u1, u2}
    Tags = {i1, i2, i3}
    Managed = {i1, i2}
    Handlers = {h1, h2}
    TypeOf <- MCTypeOf
    ByHand <- MCByHand
    Requests <- MCRequests
SYMMETRY SymmetricHandlers
SPECIFICATION Spec
INVARIANTS
    TypeOK
    OneEntryPerInbound
    ConnectedAreCounted
    AloneMeansDone
