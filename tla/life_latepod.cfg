SPECIFICATION Spec
CONSTANTS
    Operators = {op1}
    Namespaces = {nsA, nsB}
    CrNamespace = nsA
    None = none
    FreshCache = TRUE
    LatePods = TRUE
    EarlyEdits = TRUE
    MaxEdits = 0
    MaxRotations = 0
    MaxFaults = 0
INVARIANT NoOrphans
CHECK_DEADLOCK FALSE
