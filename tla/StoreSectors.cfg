SPECIFICATION FairSpec
CONSTANTS
    States = {"s0", "s1"}
    BlankState = "s0"
    Ids = {"a", "b"}
    Values = {"empty", "word", "big"}
    DataWords <- MCDataWords
    StateWords = 1
    StoreWords = 12
    SectorWords = 4
    FlashErrors = FALSE
    Blank = Blank
    Garbage = Garbage
    NoState = NoState
    NoValue = NoValue
    Nothing = Nothing
PROPERTY LatestRecordWins
