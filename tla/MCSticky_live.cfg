SPECIFICATION FairSpec
CONSTANTS
    r1 = r1
    r2 = r2
    r3 = r3
    Runs <- TwoRuns
    Modes = {"sticky", "reply"}
    PageSize = 1
    MaxPages = 2
    Faults = {"graphql", "rest", "update", "create", "delete"}
    SnoozeOn = TRUE
    MaxInitial = 1
    MaxComments = 3
    MaxRemovals = 1

PROPERTIES RunsEnd
CHECK_DEADLOCK FALSE
