SPECIFICATION FairSpec
CONSTANTS
    Assistants = {a1}
    Targets = {t1, t2}
    Nobody = nobody
    Undeployed = undeployed
    Revisions = {1, 2, 3, 4, 5}
    Deletable = {}
    MaxEdits = 1
    MaxKeys = 1
    MaxFaults = 0
PROPERTY OldTargetLetGo
