CONSTANTS
    NumBlocks = 8
    EntriesPerBlock = 4
    FlashFails = TRUE
SPECIFICATION RestartSpec
INVARIANTS
    RestartInv
    UniqueOwnership
    FreeBlocksErased
PROPERTY SlotLifeCycle
