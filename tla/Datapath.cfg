SPECIFICATION DataSpec
SYMMETRY Symmetry
CONSTANTS
    Ctx = Ctx
    Cmid = Cmid
    PDs = {pd}
    MRs = {mr}
    AHs = {ah}
    SRQs = {}
    Channels = {ch}
    CQs = {c1}
    QPs = {q1}
    MaxEvents = 1
    MaxAsync = 1
    MaxObjects = 3
    Half = 2
    Threads = {t1, t2}
    Scenes <- OneAndTwo
    Depth = 2
    MaxBatch = 2
    MaxWrs = 2
    None = None
INVARIANTS BatchWhole CompletionsOnce CallsOnLiveObjects CallsCanGoOn
CHECK_DEADLOCK FALSE
