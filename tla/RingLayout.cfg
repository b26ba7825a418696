SPECIFICATION Spec
CONSTANTS
    CellBytes = 8
    ChannelBytes = 12
    ChunkBytes = 8
    AlignBytes = 4
    IntSpan = 64
    MaxCount = 31
    ItemSizes = {1, 2, 4, 8}
    MaxSms = 2
    MaxWorld = 2
INVARIANT ElementsAddressed
CHECK_DEADLOCK FALSE
