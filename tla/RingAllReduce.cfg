SPECIFICATION Spec
CONSTANTS
    CellBytes = 8
    ChannelBytes = 12
    ChunkBytes = 8
    AlignBytes = 4
    IntSpan = 160
    ItemSize = 1
    World = 3
    Count = 30
    NumSms = 1
    MaxColl = 2
    Faults = {TRUE}
    MaxCount = 40
    ItemSizes = {1, 2, 4, 8}
    MaxSms = 4
    MaxWorld = 4
INVARIANTS EveryElementOnce ResultStable
PROPERTY ImplementsAllReduce
