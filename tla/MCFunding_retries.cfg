SPECIFICATION FundingSpec
CONSTANTS
    WaitOptions <- MCWaitOptions
    DefaultRetries = 3
    LongestRequest = 2
    FundingTimes = {0, 3, 20}
INVARIANT RetriesAsConfigured
CHECK_DEADLOCK FALSE
