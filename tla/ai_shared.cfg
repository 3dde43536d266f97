SPECIFICATION FairSpec
CONSTANTS
    Assistants = {a1, a2}
    Targets = {t1}
    Nobody = nobody
    Undeployed = undeployed
    Revisions = {1, 2, 3, 4, 5}
    Deletable = {}
    MaxEdits = 0
    MaxKeys = 1
    MaxFaults = 0
PROPERTY Converges
