SPECIFICATION Spec
CONSTANTS
    Operators = {op1}
    BackoffLimit = 4
    Faults = {}
    MaxGen = 3
    MaxFaults = 0
    MaxRotations = 0
PROPERTY NoNewCAUnderPair
