SPECIFICATION Spec
CONSTANTS
    Ctx = Ctx
    Cmid = Cmid
    PDs = {pd}
    MRs = {}
    AHs = {}
    SRQs = {}
    Channels = {ch}
    CQs = {c1}
    QPs = {}
    MaxEvents = 1
    MaxAsync = 0
    MaxObjects = 3
    Half = 2
    None = None
INVARIANT OrderAlwaysSafe
CHECK_DEADLOCK FALSE
