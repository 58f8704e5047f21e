SPECIFICATION FairSpec
CONSTANTS
    BankCount = 2
    MaxBanks = 4
    MaxTries = 1
    Versions = {1}
    NoRecord = NoRecord
    NoRequest = NoRequest
    Reliable = TRUE
    Watchdog = TRUE
PROPERTIES
    GoodImageIsStarted
    HungTrialIsLeft
