SPECIFICATION Spec
CONSTANTS
    Rules <- FourRules
    Samples <- JumpLines
    NoValue = NoValue
    Backends = {b1}
    Grain = 1
    MaxLines = 2
    MaxCrashes = 0
    MaxFaults = 1
    MaxEdits = 0
INVARIANTS TypeOK AlertPerEvent
