SPECIFICATION QueryFairSpec
CONSTANTS
    Null = Null
    Absent = Absent
    Number <- MCNumber
    Predicates <- MCPredicates
    Ops = {"scan", "filter", "sort", "sort_desc", "cross", "left_all", "inner", "left", "less", "union_all", "union", "intersect", "except", "group", "total"}
    ScanBatch = 2
    ResultLimit = 3
    MaxResult = 7
    MaxRows = 3
    Limits = {Absent, 2}
    Offsets = {0, 1, 3}
INVARIANTS
    JoinExact
    ResultExact
PROPERTY
    QueryEnds
CHECK_DEADLOCK FALSE
