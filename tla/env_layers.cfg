SPECIFICATION Spec
CONSTANTS
    None = none
    Inputs <- Overrides
INVARIANT NoDuplicateEnv
INVARIANT LayersWin
INVARIANT WebhookUrlAgrees
CHECK_DEADLOCK FALSE
