SPECIFICATION Spec
CONSTANTS
    Client = {c1, c2}
    Key = {k1, k2}
    None = None
    MaxOps = 3
    MaxCrash = 0
SYMMETRY SqlSymmetry
INVARIANT SnapshotIsolation
CHECK_DEADLOCK FALSE
