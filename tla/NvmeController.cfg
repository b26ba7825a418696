SPECIFICATION Spec
CONSTANTS
    Targets <- MCTargets
    RequestedDepths = {1, 2, 3}
    MaxQueueDepth = 4
    AdminDepth = 3
    MaxSgl = 7
    MaxNlb = 3
    PageSize = 2
    NsBlocks = 4
    BufLen = 10
    Offsets <- MCOffsets
    MaxRefusals = 1
INVARIANTS
    NothingLeftBehind
    DepthGranted
    TransferExact
CHECK_DEADLOCK FALSE
