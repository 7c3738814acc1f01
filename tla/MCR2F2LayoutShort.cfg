CONSTANTS
    PageSize = 2
    DataPages = 3
    SeqEntries = 4
    MaxBytes = 9
SPECIFICATION Spec
INVARIANT StoredReadsRight
CHECK_DEADLOCK FALSE
