\* Two concurrent attempts at a time, a retry limit of two, one thread that dies.
CONSTANTS
    Threads = {t1, t2}
    MaxRetry = 2
    MaxFaults = 1
SPECIFICATION FairSpec
INVARIANTS
    TypeOK
    EveryCheckCounted
    AttemptsBounded
PROPERTIES
    LockEnds
