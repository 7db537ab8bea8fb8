SPECIFICATION Spec
CONSTANTS
    Backends = {b1, b2}
    Period = 2
    Silence = 4
    Lag = 2
    Slack = 1
    MaxTime = 14
    MaxMishaps = 2
SYMMETRY Alike
INVARIANTS FailureNoticed FailedIsSilent
PROPERTIES LiveNotFailed FailedRowsApart
CHECK_DEADLOCK FALSE
