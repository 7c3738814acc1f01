CONSTANTS
    Blocks = {r, b1, b2, b3, b4, b5}
    FirstRoot = r
    DirEntries = 2
    SeqEntries = 1
    IndirEntries = 2
    Files <- MCFiles
    Dirs <- MCDirs
    Home <- MCHome
    ShortFsyncs = FALSE
    MaxCrashes = 1
SPECIFICATION Spec
INVARIANTS
    TypeOK
    FreeListSound
    LocalsStillValid
    ReaddirListsFound
    SoleReferences
PROPERTIES
    LeaksOnlyOwnBlocks
    ImplementsNames
    CollectionMovesOn
SYMMETRY BlockSymmetry
