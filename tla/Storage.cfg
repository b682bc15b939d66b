SPECIFICATION StorageSpec
CONSTANTS
    Tx = {t1, t2, t3}
    Key = {k}
    MaxWrites = 2
    MaxGc = 1
    MaxCalls = 2
    Txn = {w1, w2}
    Nobody = Nobody
    SegmentSize = 2
    MaxLsn = 5
    MaxData = 1
    MaxCkpt = 2
    MaxFaults = 1
CONSTRAINTS
    FewCalls
    FewLogCalls
VIEW StorageView
SYMMETRY StorageSymmetry
CHECK_DEADLOCK FALSE
INVARIANTS
    SnapshotReads
    WritersExclude
    NothingLeftBehind
    RedoExact
    UndoComplete
