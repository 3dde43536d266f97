SPECIFICATION FairSpec
CONSTANTS
    c1 = c1
    c2 = c2
    None = none
    CRs = {c1, c2}
    KindOf <- Mixed
    NameOf <- ShopTwice
    Present <- Alone
    SpecsOf <- HookSpecs
    Optional = {}
    ApiMayChange = FALSE
    NsMayEnd = TRUE
    MaxEdits = 0
    MaxFaults = 0
PROPERTY NamespaceEmpties
CHECK_DEADLOCK FALSE
