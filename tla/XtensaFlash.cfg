SPECIFICATION FairSpec
CONSTANTS
    ChipWords = 4
    SectorWords = 2
    PageWords = 2
    LineWords = 2
    Wrap = 6
    Lines = 3
    FlashLine = 1
    PortLines = {0}
    Blank = Blank
CHECK_DEADLOCK FALSE
INVARIANTS
    TypeOK
    NothingRunsInTheWork
    ReadsAreRight
    LinesAreKept
PROPERTIES
    OnlyTheRangeChanges
    CallsReturn
