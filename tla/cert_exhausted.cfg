SPECIFICATION Spec
CONSTANTS
    Operators = {op1}
    BackoffLimit = 4
    Faults = {"attempt"}
    MaxGen = 7
    MaxFaults = 5
    MaxRotations = 1
INVARIANT NoStaleCAAtRest
