SPECIFICATION Spec
CONSTANTS
    Operators = {op1}
    Namespaces = {nsA, nsB}
    CrNamespace = nsA
    None = none
    FreshCache = TRUE
    LatePods = FALSE
    EarlyEdits = TRUE
    MaxEdits = 1
    MaxRotations = 0
    MaxFaults = 1
INVARIANT NoOrphans
CHECK_DEADLOCK FALSE
