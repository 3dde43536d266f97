SPECIFICATION Spec
CONSTANTS
    Operators = {op1, op2}
    Namespaces = {nsA, nsB}
    CrNamespace = nsA
    None = none
    FreshCache = FALSE
    LatePods = FALSE
    EarlyEdits = TRUE
    MaxEdits = 0
    MaxRotations = 0
    MaxFaults = 0
INVARIANT NoOrphans
CHECK_DEADLOCK FALSE
