SPECIFICATION Spec
CONSTANTS
    c1 = c1
    c2 = c2
    None = none
    CRs = {c1, c2}
    KindOf <- Mixed
    NameOf <- ShopTwice
    Present <- Together
    SpecsOf <- BothSpecs
    Optional = {}
    ApiMayChange = FALSE
    NsMayEnd = TRUE
    MaxEdits = 1
    MaxFaults = 0
PROPERTY KeptWhileWanted
CHECK_DEADLOCK FALSE
