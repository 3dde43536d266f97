SPECIFICATION FairSpec
CONSTANTS
    Specs <- LegalSpecs
    Operators = {op1}
    NoHpa = nohpa
    MaxReplicas = 4
    MaxEdits = 2
    MaxScales = 1
    MaxFaults = 1
PROPERTY NoDipOnHandover
