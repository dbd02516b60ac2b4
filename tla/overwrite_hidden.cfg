SPECIFICATION Spec
CONSTANTS
    p1 = p1  p2 = p2  p3 = p3  A = A  B = B  k1 = k1  k2 = k2
    None = None
    Procs <- Procs2
    Names <- Names1
    Keys <- Keys1
    MaxTables = 1
    MaxSnaps = 1
    CacheCapacity = 1
    ReadAt <- Current
    Renames <- NoRename
    AckLoss = FALSE
SYMMETRY SymAll
INVARIANTS AddedVisible
