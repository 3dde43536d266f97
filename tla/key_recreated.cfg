SPECIFICATION Spec
CONSTANTS
    c1 = c1
    c2 = c2
    n1 = n1
    n2 = n2
    CRs = {c1, c2}
    KindOf <- SameKind
    NameOf <- SameName
    BringsKey = {}
    Operators = {op1}
    None = none
    MaxKeys = 3
    MaxFaults = 0
CHECK_DEADLOCK FALSE
INVARIANT KeyOwned
