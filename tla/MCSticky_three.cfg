SPECIFICATION Spec
CONSTANTS
    r1 = r1
    r2 = r2
    r3 = r3
    Runs <- ThreeRuns
    Modes = {"sticky"}
    PageSize = 2
    MaxPages = 3
    Faults = {}
    SnoozeOn = FALSE
    MaxInitial = 0
    MaxComments = 0
    MaxRemovals = 0

INVARIANTS RunsConvergeOnOldest
CHECK_DEADLOCK FALSE
