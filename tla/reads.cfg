SPECIFICATION ReadsSpec
CONSTANTS
    w1 = w1  r1 = r1  A = A  B = B
    None = None
    Procs <- MCProcs
    Readers <- MCReaders
    Names <- Names2
    AskedFor <- Names1
    Keys <- Keys1
    MaxTables = 2
    MaxSnaps = 2
    CacheCapacity = 1
    ReadAt <- CurrentOr1
    Renames <- NoRename
    AckLoss = FALSE
    Stride = 2
    PageSize = 1
    NoPageSize = 1
    Limit = 1
    NoLimit = 2
    RowCount <- MCRowCount
    SizeBytes <- MCSizeBytes
    FileStats <- MCFileStats
INVARIANTS
    ReadsTypeOK NothingTwice FilesListed TablesListed SummaryExact
    StatsExact ColumnsExact HistoryIsChain ManifestsExact
