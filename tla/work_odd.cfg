SPECIFICATION FairSpec
CONSTANTS
    CRs <- OddCRs
    Scenes <- StrategyEdited
    SpecsOf <- Odd
    Width <- Widths
    MaxEdits = 1
    MaxFaults = 0
INVARIANTS
    OneAtATime
    AcceptedIsAdmitted
    SelectsOwn
PROPERTY RolloutsFinish
CHECK_DEADLOCK FALSE
