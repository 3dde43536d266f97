SPECIFICATION FairSpec
CONSTANTS
    Operators = {op1}
    BackoffLimit = 0
    Faults = {"evict", "attempt"}
    MaxGen = 6
    MaxFaults = 2
    MaxRotations = 1
INVARIANT TypeOK
INVARIANT AttemptsCanPublish
PROPERTY CertsArrive
