SPECIFICATION Spec
CONSTANTS
    Operators = {op1}
    BackoffLimit = 4
    Faults = {"evict"}
    MaxGen = 3
    MaxFaults = 1
    MaxRotations = 0
INVARIANT CompletedPairMatches
