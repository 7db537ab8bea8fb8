SPECIFICATION FairSpec
CONSTANTS
    Rules <- OneRule
    Samples <- TwoLines
    NoValue = NoValue
    Backends = {b1, b2}
    Grain = 2
    MaxLines = 3
    MaxCrashes = 1
    MaxFaults = 0
    MaxEdits = 1
PROPERTIES ImplementsBook EventsEnd
INVARIANTS RestMatchesLine SamplesStored
