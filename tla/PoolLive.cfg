SPECIFICATION FairSpec
CONSTANTS
    Agents = {a1}
    Conns <- FewConns
    None = None
    PoolSize = 2
    Wrap = 8
    MaxMishaps = 1
INVARIANTS CountExplained
PROPERTIES ImplementsLeases LoopsTurn
CHECK_DEADLOCK FALSE
