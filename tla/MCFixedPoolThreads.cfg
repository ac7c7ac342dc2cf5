\* One thread that does everything, or one that allocates what the other returns.
CONSTANTS
    t1 = t1
    t2 = t2
    Threads = {t1, t2}
    PoolSize = 8
    W = 1
    SizeMod = 16
    Data = Data
    Pattern = Pattern
    Unset = Unset
    Requests = {0, 1, 3}
    Duties <- Safe
SPECIFICATION Spec
INVARIANTS
    DataUntouched
    WalkSeesHeaders
    QuietPool
    FirstFitFound
PROPERTIES
    CallsReturn
