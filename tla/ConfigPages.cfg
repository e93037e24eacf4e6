\* Four clicks of two administrators together, or calls that fail.
CONSTANTS
    t1 = t1
    t2 = t2
    u1 = u1
    w1 = w1
    w2 = w2
    Blank = Blank
    Nothing = Nothing
    Tags = {t1, t2}
    People = {u1}
    WgTexts = {w1, w2, Blank}
    InitialFiles <- MCInitialFiles
    MaxClicks = 4
SPECIFICATION Spec
INVARIANTS
    TypeOK
    ShownIsServed
PROPERTIES
    SavesAreExact
\* Nothing is left to do when the clicks are used up.
CHECK_DEADLOCK FALSE
