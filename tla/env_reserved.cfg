SPECIFICATION Spec
CONSTANTS
    None = none
    Inputs <- Tuning
INVARIANT NoDuplicateEnv
CHECK_DEADLOCK FALSE
