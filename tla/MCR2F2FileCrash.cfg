CONSTANTS
    NumBlocks = 8
    PagesPerBlock = 2
    SeqEntries = 2
    IndirEntries = 2
    MaxWrites = 4
    Faults = {"crash"}
SPECIFICATION Spec
INVARIANT OpenedEmptyOnlyIfNeverSynced
CHECK_DEADLOCK FALSE
