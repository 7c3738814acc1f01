CONSTANTS
    NumBlocks = 8
    PagesPerBlock = 2
    SeqEntries = 2
    IndirEntries = 2
    MaxWrites = 6
    Faults = {}
SPECIFICATION Spec
INVARIANT AckedReadable
CHECK_DEADLOCK FALSE
