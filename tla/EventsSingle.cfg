SPECIFICATION Spec
CONSTANTS
    Rules <- ThreeRules
    Samples <- MoreLines
    NoValue = NoValue
    Backends = {b1}
    Grain = 1
    MaxLines = 3
    MaxCrashes = 2
    MaxFaults = 0
    MaxEdits = 1
INVARIANTS OneOpenPerWriter OpenMatchesLine EventsAreEpisodes
PROPERTIES HistoryIsFinal
