CONSTANTS
    Records = {r1, r2}
    Datasets = {observations}
    observations = observations
    slots = slots
    Rows <- OneRow
    Contents = {good}
    Malformed = {}
    NoContent = NoContent
    PrepareRetries = 1
    UploadRetries = 1
    TransformRetries = 0
    MaxClears = 0
    MaxEdits = 0
    MaxReloads = 0
SYMMETRY RecordSymmetry
SPECIFICATION Spec
INVARIANTS GreenMeansTransformed
PROPERTIES GateBeforeDbt
CHECK_DEADLOCK FALSE
