CONSTANTS
    Records = {r1}
    Datasets = {observations, slots}
    observations = observations
    slots = slots
    Rows <- MCRows
    Contents = {good, malformed}
    Malformed = {malformed}
    NoContent = NoContent
    PrepareRetries = 0
    UploadRetries = 0
    TransformRetries = 1
    MaxClears = 1
    MaxEdits = 1
    MaxReloads = 1
SPECIFICATION FairSpec
INVARIANTS TypeOK AtMostOneExecution EvidenceIsTrue
PROPERTIES EventuallyFinished BronzeImmutable GateBeforeDbt LadderSpec
CHECK_DEADLOCK FALSE
