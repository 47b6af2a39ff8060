CONSTANTS
    Sizes = {0, 1, 3, 4}
    PageSize = 2
    MaxPages = 3
    MaxRetries = 1
    Lag = 0
    MaxChanges = 3
SPECIFICATION FairSpec
INVARIANTS TypeOK
PROPERTIES AtomicRead EventuallyDone
CHECK_DEADLOCK FALSE
