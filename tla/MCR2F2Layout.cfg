CONSTANTS
    PageSize = 2
    DataPages = 3
    SeqEntries = 5
    MaxBytes = 13
SPECIFICATION Spec
INVARIANTS
    TypeOK
    NothingLostOrRepeated
    EntriesPlaceBlocks
    AssertionsHold
    BlockReadsRight
    WholePagesReadRight
CHECK_DEADLOCK FALSE
