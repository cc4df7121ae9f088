CONSTANTS
    Names <- MCNames
    NameLen <- MCNameLen
    ShortNames <- MCShortNames
    GenShort <- MCGenShort
    Display <- MCDisplay
    NulLead = {}
    Checksum <- MCChecksum
    Checksums = {0, 1, 2}
    Clusters = {1, 2, 3, 4, 5}
    DirIds = {0, 1}
    Root = 0
    RootFixed = FALSE
    ClusterSlots = 3
    MaxDirSlots = 9
    Paths <- Paths32
    InitDirs <- MCInitDirs
    InitChain <- MCInitChain32
    InitAlloc = {1, 2, 3, 4}
INIT Init
NEXT Next
INVARIANTS
    TailFree
    AllocMatchesTree
    NoCrossLink
    EndsAgree
    CreateThenFind
PROPERTIES
    LiveSlotsKept
