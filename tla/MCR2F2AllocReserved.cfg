CONSTANTS
    NumBlocks = 8
    EntriesPerBlock = 4
    FlashFails = FALSE
SPECIFICATION RestartSpec
INVARIANT OnlyAllocableHeld
