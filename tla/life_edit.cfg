SPECIFICATION Spec
CONSTANTS
    Operators = {op1}
    Namespaces = {nsA, nsB}
    CrNamespace = nsA
    None = none
    FreshCache = TRUE
    LatePods = TRUE
    EarlyEdits = TRUE
    MaxEdits = 2
    MaxRotations = 1
    MaxFaults = 2
PROPERTY PinKept
PROPERTY PinConfines
PROPERTY TargetKept
CHECK_DEADLOCK FALSE
