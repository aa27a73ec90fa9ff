CONSTANTS
    Configs <- RunConfigs
    MaxPolls = 2
SPECIFICATION FairSpec
INVARIANTS ReadyIsBacked UnassignedForCause JobMatchesReady
PROPERTIES RunEnds
CHECK_DEADLOCK FALSE
