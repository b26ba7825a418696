SPECIFICATION FairSpec
CONSTANTS
    NQP = 2
    QueueDepth = 2
    PollBatch = 2
    ChunkSize = 2
    MaxWrId = 4
    RequestLists <- Lists
    MaxBatches = 2
    Owned = FALSE
INVARIANTS
    TypeOK
    DepthBound
    CompletionRouting
    PipelineFull
    OnCompleteExactlyOnce
PROPERTIES
    NoPostAfterFailure
    ImplementsTransfer
    EveryBatchEnds
CHECK_DEADLOCK FALSE
