SPECIFICATION FairSpec
CONSTANTS
    Operators = {op1}
    BackoffLimit = 4
    Faults = {"drift"}
    MaxGen = 4
    MaxFaults = 0
    MaxRotations = 0
PROPERTY DriftRepaired
