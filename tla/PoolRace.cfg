SPECIFICATION Spec
CONSTANTS
    Agents = {a1, a2}
    Conns <- ManyConns
    None = None
    PoolSize = 2
    Wrap = 8
    MaxMishaps = 0
SYMMETRY AgentsAlike
INVARIANTS Exclusive LostOnlyInRace
CHECK_DEADLOCK FALSE
