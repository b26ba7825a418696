SPECIFICATION FairSpec
CONSTANTS
    Depth = 3
    MaxRequests = 3
INVARIANTS
    CidsPartitioned
    AnsweredByItsOwn
    QueuesFit
PROPERTY CommandsComplete
CHECK_DEADLOCK FALSE
