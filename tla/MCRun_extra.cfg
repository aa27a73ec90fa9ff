CONSTANTS
    Configs <- FriendbotConfigs
    MaxPolls = 2
SPECIFICATION Spec
INVARIANT ReadyReflectsAllTrustlines
CHECK_DEADLOCK FALSE
