SPECIFICATION FairSpec
CONSTANTS
    Edits <- MCEdits
    MaxEdits = 2
    MaxMishaps = 2
INVARIANTS WishKept NothingToInsert
PROPERTY ComesUp
