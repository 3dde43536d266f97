SPECIFICATION FairSpec
CONSTANTS
    Operators = {op1}
    Namespaces = {nsA, nsB}
    CrNamespace = nsA
    None = none
    FreshCache = FALSE
    LatePods = FALSE
    EarlyEdits = FALSE
    MaxEdits = 1
    MaxRotations = 1
    MaxFaults = 2
INVARIANT TypeOK
INVARIANT NoOrphans
INVARIANT OneRunner
PROPERTY DeletionCompletes
PROPERTY StackBuilt
CHECK_DEADLOCK FALSE
