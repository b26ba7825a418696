SPECIFICATION FairSpec
CONSTANTS
    Members = {"a", "b", "c"}
    Uuids = {1, 2, 3}
    Ring <- ShrinkingRings
    Backlog = 1
    MaxAttempts = 2
    Faults = {TRUE, FALSE}
INVARIANT CommittedPairs
PROPERTIES ReconfigureReturns AllCommit
CHECK_DEADLOCK FALSE
