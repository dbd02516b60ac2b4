SPECIFICATION Spec
CONSTANTS
    p1 = p1  p2 = p2  p3 = p3  A = A  B = B  k1 = k1  k2 = k2
    None = None
    Procs <- Procs2
    Names <- Names2
    Keys <- Keys1
    MaxTables = 2
    MaxSnaps = 2
    CacheCapacity = 1
    ReadAt <- Only1
    Renames <- RenameAB
    AckLoss = FALSE
SYMMETRY SymAll
INVARIANTS TypeOK LinearHistory StaleMeansInvalidating
PROPERTIES SnapshotImmutable ImplementsLog
