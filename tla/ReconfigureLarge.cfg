SPECIFICATION FairSpec
CONSTANTS
    Members = {"a", "b", "c", "d"}
    Uuids = {1, 2}
    Ring <- LargeRings
    Backlog = 3
    MaxAttempts = 2
    Faults = {FALSE}
PROPERTY AllCommit
CHECK_DEADLOCK FALSE
