SPECIFICATION CrdtSpec
CONSTANTS
    N = 3
    Elem = {e1}
    MvValue = {v1, v2}
    Unset = Unset
    Kinds = {"counter", "twopset", "lww", "mv", "orset", "map", "clock"}
    MaxUpdates = 3
    MaxSends = 3
    MaxReading = 2
INVARIANTS
    Converges
    ValueExact
    CausalOrder
CHECK_DEADLOCK FALSE
