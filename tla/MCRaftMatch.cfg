SPECIFICATION Spec
CONSTANTS
    a = a
    b = b
    c = c
    Node = {a, b, c}
    Value = {v}
    Nil = Nil
    NoOp = NoOp
    MaxTerm = 4
    MaxLog = 3
    MaxEntries = 1
CONSTRAINT History
ACTION_CONSTRAINT Steady
CHECK_DEADLOCK FALSE
INVARIANT LeaderCompleteness
