SPECIFICATION Spec
CONSTANTS
    t1 = t1
    t2 = t2
    x = x
    y = y
    Txn = {t1, t2}
    Node = {n1, n2}
    Key = {x, y}
    Ops <- MCOps
    Careful = TRUE
    MaxAttempts <- MCAttempts
    MaxLoss = 1
    MaxCalls = 2
CONSTRAINTS
    FewCalls
    OneUpset
VIEW MCView
SYMMETRY NodeSymmetry
CHECK_DEADLOCK FALSE
INVARIANTS
    NoMixedOutcome
    SameOrder
    CommitCompletes
PROPERTY
    CommitIsAtomic
