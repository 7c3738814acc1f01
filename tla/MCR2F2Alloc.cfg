CONSTANTS
    NumBlocks = 8
    EntriesPerBlock = 8
    FlashFails = FALSE
SPECIFICATION Spec
INVARIANTS
    TypeOK
    PointersBracketFreeEntries
    NextBlockEmptyOnFree
    CollectionLeavesEntry
    NoBlockLost
    MountedInv
PROPERTIES
    SlotLifeCycle
    ImplementsFreeList
