SPECIFICATION Spec
CONSTANTS
    Client = {c1, c2}
    Key = {k1, k2}
    None = None
    MaxOps = 4
    MaxCrash = 1
SYMMETRY SqlSymmetry
INVARIANTS
    PrimaryKeyUnique
    ScanSeesLiveRows
    AckedIsDurable
    AllOrNothing
CHECK_DEADLOCK FALSE
