SPECIFICATION Spec
CONSTANTS
    BankCount = 2
    MaxBanks = 4
    MaxTries = 2
    Versions = {1, 2}
    NoRecord = NoRecord
    NoRequest = NoRequest
    Reliable = TRUE
    Watchdog = TRUE
INVARIANTS
    TypeOK
    TrialStartsAreBounded
    PreviousRanProperly
    DroppedIsNotStarted
PROPERTIES
    ProvenBankIsKept
