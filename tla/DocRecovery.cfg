SPECIFICATION Spec
CONSTANTS
    Collection = {c}
    Doc = {d}
    Client = {r1, r2}
    Idle = Idle
    Requests = {"insert", "update", "delete", "create", "drop", "compress"}
    MaxWrites = 4
    MaxGen = 4
    Checkpoints = TRUE
    DropsAlone = TRUE
CHECK_DEADLOCK FALSE
INVARIANTS
    DocsRecovered
    DroppedStaysDropped
