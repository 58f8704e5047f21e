SPECIFICATION SpecWrites
CONSTANTS
    States = {"s0", "s1"}
    BlankState = "s0"
    Ids = {"a", "b"}
    Values = {"empty", "word", "big"}
    DataWords <- MCDataWords
    StateWords = 1
    StoreWords = 10
    SectorWords = 10
    FlashErrors = FALSE
    Blank = Blank
    Garbage = Garbage
    NoState = NoState
    NoValue = NoValue
    Nothing = Nothing
CONSTRAINT ScratchHolds
INVARIANTS
    AppendsToTheLog
    TypeOK
    OkMeansStored
    NoSpaceMeansFull
    CompactionFits
PROPERTY Implements
