CONSTANTS
    NumBlocks = 10
    PagesPerBlock = 3
    SeqEntries = 2
    IndirEntries = 1
    MaxWrites = 5
    Faults = {"crash", "nomem", "flash"}
SPECIFICATION Spec
INVARIANTS
    CommittedDataWritten
    FileInv
PROPERTIES
    CommittedEntriesKept
    CommittedPagesKept
VIEW FaultsView
CHECK_DEADLOCK FALSE
