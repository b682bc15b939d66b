SPECIFICATION Spec
CONSTANTS
    Node = {n1, n2, n3}
    Value = {v}
    Nil = Nil
    NoOp = NoOp
    MaxTerm = 2
    MaxLog = 2
    MaxEntries = 4
    MaxAppends = 2
SYMMETRY Symmetry
VIEW View
CONSTRAINT Constraint
CHECK_DEADLOCK FALSE
INVARIANTS
    TypeOK
    ElectionSafety
    LeaderHintsAgree
    LogMatching
    StateMachineSafety
    LeaderCompleteness
PROPERTIES
    VoteOncePerTerm
