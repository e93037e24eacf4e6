SPECIFICATION Spec
CONSTANTS
    u1 = u1
    u2 = u2
    in1 = in1
    in2 = in2
    Names = {u1, u2}
    NoName = none
    Tags = {in1, in2}
    Initial <- MCInitial
    Disabled = {u2}
    BulkNames = {u2}
    Slots = {h1, h2}
    MaxTrouble = 1
    MaxLists = 2
    MaxClicks = 4
SYMMETRY MCSymmetry
INVARIANTS
    TypeOK
    JobIsExact
    SaveKeepsEntries
    ListIsRight
    SelectionTakesOneEntry
CHECK_DEADLOCK FALSE
