\* The rows of the rules tab are saved as they were loaded.
CONSTANTS
    t1 = t1
    t2 = t2
    u1 = u1
    w1 = w1
    w2 = w2
    Blank = Blank
    Nothing = Nothing
    Tags = {t1, t2}
    People = {u1}
    WgTexts = {w1, w2, Blank}
    InitialFiles <- MCInitialFiles
    MaxClicks = 2
SPECIFICATION Spec
PROPERTIES
    OtherRulesUnchanged
CHECK_DEADLOCK FALSE
