SPECIFICATION Spec
CONSTANTS
    Operators = {op1}
    Namespaces = {nsA, nsB}
    CrNamespace = nsA
    None = none
    FreshCache = FALSE
    LatePods = FALSE
    EarlyEdits = TRUE
    MaxEdits = 1
    MaxRotations = 0
    MaxFaults = 0
PROPERTY PinKept
CHECK_DEADLOCK FALSE
