SPECIFICATION Spec
CONSTANTS
    r1 = r1
    r2 = r2
    r3 = r3
    Runs <- ThreeRuns
    Modes = {"sticky", "new", "reply"}
    PageSize = 1
    MaxPages = 2
    Faults = {"graphql", "rest", "update", "create", "delete"}
    SnoozeOn = TRUE
    MaxInitial = 2
    MaxComments = 3
    MaxRemovals = 0
SYMMETRY RunSymmetry
INVARIANTS CommentsSurvive MergersAgree NoUnexplainedDuplicate
CHECK_DEADLOCK FALSE
