CONSTANTS
    Threads = {t1, t2}
    Lifetimes = {2, 6}
    Buffer = 2
    MaxTime = 6
    MaxRotations = 2
SPECIFICATION FairSpec
INVARIANTS KeepsUpWithRotation
PROPERTIES LiveWhenReturned NoNeedlessExchange LockIsReleased
