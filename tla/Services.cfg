CONSTANTS
    Backends = {b1, b2}
    Services = {"s1", "s2"}
    Reports <- MCReports
    HostOf <- MCHostOf
    Parts = {"p1"}
    ServiceOf <- MCServiceOf
    Levels = {"critical"}
    MaxEntries = 1
    MaxChanges = 1
    MaxRounds = 3
    MaxMishaps = 1
SPECIFICATION Spec
SYMMETRY MCSymmetry
INVARIANTS LogAlertedOnce LogNotSilent FailureTold ReportedNotMissing RoundRecorded
CHECK_DEADLOCK FALSE
