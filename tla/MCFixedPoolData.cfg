CONSTANTS
    PoolSize = 20
    W = 2
    SizeMod = 64
    Requests = {0, 1, 3, 4, 7}
    MaxLeak = 8
SPECIFICATION PoolSpec
INVARIANTS
    DataSurvives
