SPECIFICATION FairSpec
CONSTANTS
    Assistants = {a1}
    Targets = {t1}
    Nobody = nobody
    Undeployed = undeployed
    Revisions = {1, 2, 3, 4, 5}
    Deletable = {a1}
    MaxEdits = 1
    MaxKeys = 2
    MaxFaults = 1
INVARIANT TypeOK
INVARIANT StampMeansContent
INVARIANT NeverWithoutKey
PROPERTY Converges
