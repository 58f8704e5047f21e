SPECIFICATION BootFairSpec
CONSTANTS
    MaxArgs = 2
    Roms <- MCRoms
    Bytes = 4
    LineBytes = 2
    WindowLow = 2
    WindowHigh = 4
    SetsField = 1
    WaysField = 0
    MinRegion = 2
    LogBuffers <- MCLogBuffers
INVARIANTS
    BootTypeOK
    LoadedCodeIsFetched
    CachesStartRight
    BootIsInOrder
    ArgvIsLent
CHECK_DEADLOCK FALSE
PROPERTIES
    BootEnds
