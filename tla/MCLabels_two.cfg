SPECIFICATION FairSpec
CONSTANTS
    r1 = r1
    r2 = r2
    Runs <- TwoRuns
    Observations = {"ok", "noTrustline"}
    WalletLabels = TRUE
    PassLabel = "ready"
    FailLabel = ""
    OtherLabels = {"bug"}
    PageSize = 1
    Faults = {"list", "remove", "add"}
    MaxInitial = 2
INVARIANTS AgreeingRunsConverge
PROPERTIES EachRunIsExact LabellingEnds
CHECK_DEADLOCK FALSE
