\* One request after the other, no edits by hand.
CONSTANTS
    a = a
    b = b
    u1 = u1
    u2 = u2
    i1 = i1
    i2 = i2
    i3 = i3
    NoTag = NoTag
    NoRequest = NoRequest
    Names = {a, b}
    Uuids = {u1, u2}
    Tags = {i1, i2, i3}
    Managed = {i1, i2}
    Handlers = {h1}
    TypeOf <- MCTypeOf
    ByHand <- MCByHand
    Requests <- MCRequests
SPECIFICATION HandlersOnly
INVARIANT DisabledIsSynced
