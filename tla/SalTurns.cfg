SPECIFICATION Spec
SYMMETRY Symmetry
CONSTANTS
    Threads = {t1, t2}
    Buffers = {b1, b2}
    Dummy = Dummy
    None = None
    MaxFields = 2
INVARIANTS
    TypeOK
    ScratchIsLent
    TableMeansState
    StoreIsKept
