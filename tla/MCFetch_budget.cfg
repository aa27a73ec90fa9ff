SPECIFICATION MCSpec
CONSTANTS
    a1 = a1
    a2 = a2
    Accounts <- TwoAccounts
    c1 = c1
    c2 = c2
    c3 = c3
    Calls <- ThreeCalls
    FailureThreshold = 2
    SuccessThreshold = 2
    RecoveryTimeout = 2
    MaxFailures = 3
    MaxRetries = 2
    BaseDelay = 1
    MaxDelay = 3
    MaxTotalWait = 4
    RetryAfters <- Headers
    MaxRequests = 4
    Options <- TwoSidedOptions
    MaxLookups = 4

INVARIANTS BudgetIsExact WorstCase NetworkBound 
PROPERTIES LookupEnds OpenIsRespected Recovers
CHECK_DEADLOCK FALSE
