SPECIFICATION FairSpec
CONSTANTS
    Backends = {b1, b2}
    Names <- MCNames
    Swaggers <- MCSwaggers
    None = None
    MaxChanges = 1
    MaxMishaps = 1
INVARIANTS DefsAlive SameIds Linked
PROPERTY Settles
