SPECIFICATION FairSpec
CONSTANTS
    p1 = p1  p2 = p2
    Procs <- Procs2
    MaxTxns = 2
    MaxSnaps = 1
    Timeout = 1
INVARIANTS TypeOK PinsMatch ActiveMeansUndecided NoLateCommit
PROPERTIES Released
