SPECIFICATION FairSpec
CONSTANTS
    c1 = c1
    c2 = c2
    None = none
    CRs = {c1, c2}
    KindOf <- Mixed
    NameOf <- ShopTwice
    Present <- Alone
    SpecsOf <- OffloadSpecs
    Optional = {"HTTPRoute"}
    ApiMayChange = FALSE
    NsMayEnd = FALSE
    MaxEdits = 1
    MaxFaults = 0
PROPERTY WorkersFollow
CHECK_DEADLOCK FALSE
