SPECIFICATION Spec
CONSTANTS
    Key = {k}
    MaxWrites = 2
    TtlWrites = {1}
    MaxPoints = 1
    MaxGen = 3
CHECK_DEADLOCK FALSE
INVARIANTS
    TypeOK
    KvRecovered
    PowerLossBounded
    PointsRecovered
