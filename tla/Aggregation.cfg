SPECIFICATION Spec
CONSTANTS
    Backends = {b1, b2}
    Samples = {"s1", "s2", "s3"}
    Stamp <- MCStamp
    Late = 1
    Hour = 2
    Day = 4
    Begin = 6
    ThreadFreq = 3
    Delay <- MCDelay
    Retention <- MCRetention
    Slack = 1
    MaxTime = 13
    MaxMishaps = 1
SYMMETRY MCSymmetry
INVARIANTS MinuteExact HourExact NeverLost Timely
CHECK_DEADLOCK FALSE
