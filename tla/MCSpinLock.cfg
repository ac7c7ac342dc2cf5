\* Each of the three mutexes, shared by three threads.
CONSTANTS
    Threads = {t1, t2, t3}
    Kinds = {"SpinLock", "Mutex", "MutexDummy"}
SPECIFICATION LockSpec
INVARIANTS
    HeldHasOwner
    StdMutexExcludes
PROPERTIES
    OnlyOwnerReleases
    SomeoneGetsIn
