SPECIFICATION FairSpec
CONSTANTS
    CRs <- AllCRs
    Scenes <- Alone
    SpecsOf <- Specs
    Width <- Widths
    MaxEdits = 2
    MaxFaults = 1
INVARIANTS
    OneAtATime
    AcceptedIsAdmitted
    SelectsOwn
PROPERTY RolloutsFinish
CHECK_DEADLOCK FALSE
