SPECIFICATION Spec
CONSTANTS
    r1 = r1
    r2 = r2
    Runs <- OneRun
    Observations = {"outage", "ok"}
    WalletLabels = TRUE
    PassLabel = ""
    FailLabel = ""
    OtherLabels = {"bug"}
    PageSize = 2
    Faults = {}
    MaxInitial = 1
INVARIANTS OutageIsShown
CHECK_DEADLOCK FALSE
