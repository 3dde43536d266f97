SPECIFICATION Spec
CONSTANTS
    c1 = c1
    c2 = c2
    None = none
    CRs = {c1, c2}
    KindOf <- Mixed
    NameOf <- HookAndShop
    Present <- Together
    SpecsOf <- HookSpecs
    Optional = {}
    ApiMayChange = FALSE
    NsMayEnd = FALSE
    MaxEdits = 0
    MaxFaults = 0
PROPERTY KeptWhileWanted
CHECK_DEADLOCK FALSE
