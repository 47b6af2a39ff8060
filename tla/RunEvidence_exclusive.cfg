CONSTANTS
    Reporters = {r1}
    MaxExecutions = 2
    MaxJobs = 6
    Exclusive = TRUE
SPECIFICATION Spec
INVARIANTS AlwaysWhole SuccessIsSupported
CHECK_DEADLOCK FALSE
