SPECIFICATION FairSpec
CONSTANTS
    Operators = {op1}
    BackoffLimit = 2
    Faults = {"attempt", "late", "api", "drift"}
    MaxGen = 6
    MaxFaults = 2
    MaxRotations = 1
INVARIANT CompletedPairMatches
PROPERTY RunningJobKept
PROPERTY PairArrives
