SPECIFICATION FairSpecWrites
CONSTANTS
    States = {"s0", "s1"}
    BlankState = "s0"
    Ids = {"a"}
    Values = {"long", "big"}
    DataWords <- MCDataWords
    StateWords = 1
    StoreWords = 10
    SectorWords = 5
    FlashErrors = TRUE
    Blank = Blank
    Garbage = Garbage
    NoState = NoState
    NoValue = NoValue
    Nothing = Nothing
PROPERTIES
    KeepsContract
    CallsReturn
