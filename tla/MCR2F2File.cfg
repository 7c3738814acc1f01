CONSTANTS
    NumBlocks = 10
    PagesPerBlock = 2
    SeqEntries = 2
    IndirEntries = 4
    MaxWrites = 8
    Faults = {}
SPECIFICATION FairSpec
INVARIANTS
    TypeOK
    DescriptorMatchesFlash
    NoBlockLost
    TidyInv
PROPERTIES
    ImplementsAppendLog
    FsyncStoresAll
CHECK_DEADLOCK FALSE
