SPECIFICATION FairSpec
CONSTANTS
    CellBytes = 1
    ChannelBytes = 1
    ChunkBytes = 1
    AlignBytes = 1
    IntSpan = 65536
    ItemSize = 1
    World = 2
    Count = 2
    NumSms = 2
    MaxColl = 1
    Faults = {TRUE, FALSE}
PROPERTIES ImplementsAllReduce AllSucceed CallsReturn
