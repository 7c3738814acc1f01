CONSTANTS
    Blocks = {r, b1, b2}
    FirstRoot = r
    DirEntries = 2
    SeqEntries = 2
    IndirEntries = 1
    Files <- MCFiles
    Dirs <- MCDirs
    Home <- MCHome
    ShortFsyncs = TRUE
    MaxCrashes = 0
SPECIFICATION Spec
INVARIANT FreeEntriesAreFree
SYMMETRY BlockSymmetry
