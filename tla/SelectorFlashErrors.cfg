SPECIFICATION Spec
VIEW Kernel
CONSTRAINTS
    OneHidden
    HiddenAlone
    NoEmptyBank
CONSTANTS
    BankCount = 2
    MaxBanks = 4
    MaxTries = 1
    Versions = {1}
    NoRecord = NoRecord
    NoRequest = NoRequest
    Reliable = FALSE
    Watchdog = TRUE
INVARIANTS
    GivesUpLast
