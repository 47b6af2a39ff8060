CONSTANTS
    Containers = {c1, c2}
    PlaylistCount = 3
    MaxAttempts = 3
    MaxToken = 2
    MaxDate = 2
SPECIFICATION Spec
INVARIANTS SuccessIsComplete PartialRunIsAPrefix RetriesDoNotMix LogIsTrue RecoversFromUpdate
PROPERTIES BronzeIsWriteOnce
CHECK_DEADLOCK FALSE
