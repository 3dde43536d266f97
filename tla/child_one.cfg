SPECIFICATION FairSpec
CONSTANTS
    c1 = c1
    c2 = c2
    None = none
    CRs = {c1, c2}
    KindOf <- Mixed
    NameOf <- ShopTwice
    Present <- Alone
    SpecsOf <- EitherSpecs
    Optional = {"DestinationRule"}
    ApiMayChange = TRUE
    NsMayEnd = FALSE
    MaxEdits = 1
    MaxFaults = 1
INVARIANT TypeOK
INVARIANT RejectedStopsShort
PROPERTY TakenBackFirst
PROPERTY StatusAfterChildren
PROPERTY WebhooksHandled
PROPERTY Converges
PROPERTY DeletionCompletes
CHECK_DEADLOCK FALSE
