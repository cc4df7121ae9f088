CONSTANTS
    Names <- MCNames
    NameLen <- MCNameLen
    ShortNames <- MCShortNames
    GenShort <- MCGenShort
    Display <- MCDisplay
    NulLead = {}
    Checksum <- MCChecksum
    Checksums = {0, 1, 2}
    Clusters = {1, 2, 3, 4}
    DirIds = {0, 1}
    Root = 0
    RootFixed = TRUE
    ClusterSlots = 3
    MaxDirSlots = 6
    Paths <- IterPaths
    InitDirs <- MCInitDirs
    InitChain <- MCInitChain
    InitAlloc = {1, 2}
INIT Init
NEXT FNext
INVARIANTS
    TailFree
