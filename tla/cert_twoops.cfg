SPECIFICATION Spec
CONSTANTS
    Operators = {op1, op2}
    BackoffLimit = 4
    Faults = {}
    MaxGen = 4
    MaxFaults = 0
    MaxRotations = 0
PROPERTY RunningJobKept
