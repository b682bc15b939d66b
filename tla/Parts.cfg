SPECIFICATION Spec
CONSTANTS
    MaxTerm = 4
    MaxLog = 4
    MaxEntries = 4
    Subscriber = {s1}
    Kind = {a, b}
    None = None
    Capacity = 2
    MaxSubscribers = 1
    MaxEvents = 4
    MaxEpoch = 2
    User = {u1, u2}
    Nobody = Nobody
    Closer = Closer
    MinConnections = 1
    MaxConnections = 1
    MaxCreated = 4
    DocId = {d1}
    Field = {f, g}
    Scalar = {null, one}
    Nested = {list}
    Null = null
    Absent = Absent
    Contents <- MCContents
    Caller = {c1, c2}
    MaxStores = 3
    MaxIndexes = 2
    Threshold = 2
    HotDays = 1
    ColdDays = 2
    NoLimit = NoLimit
    MaxTime = 5
    MaxPoints = 3
    MaxSaves = 1
    MaxKills = 1
CHECK_DEADLOCK FALSE
INVARIANTS
    NoSilentLoss
    AckAccounting
    PoolAccounting
    PoolBounded
    FindComplete
    PointsFound
PROPERTIES
    OneTermReconciled
    ReceiverCatchesUp
