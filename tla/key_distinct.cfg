SPECIFICATION Spec
CONSTANTS
    c1 = c1
    c2 = c2
    n1 = n1
    n2 = n2
    CRs = {c1, c2}
    KindOf <- DistinctKinds
    NameOf <- DistinctNames
    BringsKey = {}
    Operators = {op1, op2}
    None = none
    MaxKeys = 3
    MaxFaults = 1
CHECK_DEADLOCK FALSE
INVARIANT TypeOK
INVARIANT OneKeyPerInstance
INVARIANT KeyOwned
PROPERTY KeepsPromise
