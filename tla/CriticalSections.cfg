SPECIFICATION Spec
SYMMETRY Symmetry
CONSTANTS
    Threads = {t1, t2}
    Levels = 3
    KernelLevel = 2
    MaxDepth = 2
CHECK_DEADLOCK FALSE
INVARIANTS
    TypeOK
    Exclusive
    LevelIsRestored
PROPERTY
    ExcessExitIsCaught
