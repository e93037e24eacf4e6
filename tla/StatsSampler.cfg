\* One user is enough to order its rows; two runners contend for the mutex.
CONSTANTS
    NoRunner = NoRunner
    Users = {u1}
    Tags = {t1, t2}
    Runners = {loop, trigger}
    MaxClock = 1
    MaxBytes = 3
    MaxEpoch = 1
    MaxEdits = 1
SPECIFICATION Spec
SYMMETRY RunnerSymmetry
INVARIANTS
    TypeOK
    NoByteCountedTwice
    CountedBytesWereMoved
    CacheFollowsFile
PROPERTY
    PauseIsPrompt
