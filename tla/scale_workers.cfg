SPECIFICATION FairSpec
CONSTANTS
    Specs <- LegalSpecs
    Operators = {op1, op2}
    NoHpa = nohpa
    MaxReplicas = 4
    MaxEdits = 2
    MaxScales = 1
    MaxFaults = 1
INVARIANT TypeOK
PROPERTY LeavesTheirCount
PROPERTY ScaleSettles
