\* Days and buckets of two units: at an odd clock a cutoff falls inside a bucket.
\* One day and a half fit a duration: two days wrap to a cutoff in the future.
CONSTANTS
    Users = {u1, u2}
    Readers = {q1}
    Windows <- MCWindows
    NoWindow = NoWindow
    BucketSize = 2
    DaySize = 2
    Limit = 3
    MaxClock = 4
    MaxRows = 2
    MaxDays = 2
SPECIFICATION Spec
SYMMETRY UserSymmetry
INVARIANTS
    TypeOK
    EveryRowHasOnePlace
    ReportCountsOnce
    ReportStaysInWindow
PROPERTY
    LedgerSpec
