\* Three subscriptions to one event, calls up to three deep.
\* A bus with a Mutex whose callbacks use it really stops (BusDies).
CHECK_DEADLOCK FALSE
CONSTANTS
    e = e
    s1 = s1
    s2 = s2
    s3 = s3
    t1 = t1
    t2 = t2
    Nobody = Nobody
    Subs = {s1, s2, s3}
    Threads = {t1, t2}
    Events = {e}
    mEventId <- OneEvent
    Uses <- MCUses
    MaxDepth = 3
SPECIFICATION Spec
INVARIANTS
    ListsAreLive
    HeardAtMostOnce
    NobodyMissed
    DispatchAlone
PROPERTIES
    DispatchEnds
    BusDies
