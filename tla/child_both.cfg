SPECIFICATION Spec
CONSTANTS
    c1 = c1
    c2 = c2
    None = none
    CRs = {c1, c2}
    KindOf <- Mixed
    NameOf <- ShopTwice
    Present <- Alone
    SpecsOf <- IngressOrBoth
    Optional = {}
    ApiMayChange = FALSE
    NsMayEnd = FALSE
    MaxEdits = 0
    MaxFaults = 0
INVARIANT RejectedTouchesNothing
CHECK_DEADLOCK FALSE
