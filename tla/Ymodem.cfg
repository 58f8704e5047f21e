SPECIFICATION Spec
CONSTANTS
    Sizes <- MCSizes
    Numbers = 4
    Retries = 3
    EndTries = 3
    MaxLost = 3
    MaxLine = 2
INVARIANTS
    TypeOK
    FilesArrive
    FailsForACause
PROPERTIES
    ScriptEnds
CHECK_DEADLOCK FALSE
