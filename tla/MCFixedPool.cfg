\* A pool of nine words: up to four blocks, sizes that need one to four words,
\* sizes that are and are not multiples of the word.
CONSTANTS
    PoolSize = 18
    W = 2
    SizeMod = 64
    Requests = {0, 1, 3, 4, 7}
    MaxLeak = 8
SPECIFICATION PoolSpec
INVARIANTS
    BlocksTile
    HeadersFit
    RequestsHonoured
    Accounting
PROPERTIES
    RefusalIsFinal
    ImplementsHeap
