SPECIFICATION FairSpec
CONSTANTS
    Framings = {"length", "chunked", "eof", "none"}
    MaxCalls = 2
INVARIANTS OneMishapIsSurvived ParseNeedsGarbled OneConnection CountsKept
PROPERTY Returns
CHECK_DEADLOCK FALSE
