SPECIFICATION PanelSpec
CONSTANTS
    Ranges = {"24h", "1h", "custom"}
    DefaultRange = "24h"
    Refreshes = {10, 1}
    DefaultRefresh = 10
    NoPrefs = noprefs
    DashSlots = {1, 2}
    Terms = {q}
    Blank = blank
    MaxPage = 2
    LogSlots = {1, 2}
    p1 = p1
    p2 = p2
    in1 = in1
    in2 = in2
    People = {p1, p2}
    Inbounds = {in1, in2}
    TagsOf <- MCTagsOf
    Nobody = nobody
    Empty = empty
    LinkSlots = {1, 2}
    MaxFails = 1
INVARIANTS
    PanelTypeOK
    SpinnersEnd
    LinkSettles
    OpensAsSaved
PROPERTIES
    DashboardCatchesUp
    TailCatchesUp
