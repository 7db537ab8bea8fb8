CONSTANTS
    Backends = {b1}
    Services = {"s1"}
    Reports <- MCReports
    HostOf <- MCHostOf
    Parts = {}
    ServiceOf <- MCServiceOf
    Levels = {"critical", "information", "debug"}
    MaxEntries = 2
    MaxChanges = 0
    MaxRounds = 2
    MaxMishaps = 0
SPECIFICATION Spec
INVARIANT SevereMailed
CHECK_DEADLOCK FALSE
