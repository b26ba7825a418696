SPECIFICATION DeviceSpec
CONSTANTS
    Ctx = Ctx
    Cmid = Cmid
    PDs = {pd}
    MRs = {}
    AHs = {}
    SRQs = {srq}
    Channels = {ch}
    CQs = {c1, c2}
    QPs = {q1, q2}
    MaxEvents = 1
    MaxAsync = 1
    MaxObjects = 5
    Half = 2
    None = None
    Pages = {"doorbells", "rings"}
    MaxWithEvents = 4
    PagesOf <- SharedDoorbells
SYMMETRY Symmetry
INVARIANTS
    ChildrenExact
    NoOrphans
    LeaksExplained
    EventsAccounted
    EventNamesLiveCQ
    BlockedOnlyByEvents
    PagesCounted
    HandlePinned
CHECK_DEADLOCK FALSE
