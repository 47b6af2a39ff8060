CONSTANTS
    Records = {r1}
    Datasets = {observations, slots}
    observations = observations
    slots = slots
    Rows <- MCRows
    Contents = {good}
    Malformed = {}
    NoContent = NoContent
    PrepareRetries = 0
    UploadRetries = 0
    TransformRetries = 0
    MaxClears = 1
    MaxEdits = 0
    MaxReloads = 0
SPECIFICATION Spec
INVARIANTS GreenMeansTransformed
CHECK_DEADLOCK FALSE
