CONSTANTS
  CheckConfigs <- MCConfigs
  Wallets <- MCWallets
  Issuers = {"", "d1", "d2", "unread"}
  MaxRounds = 5
  ReportInputs <- MCInputs
  SafeLimit = 29
  HardLimit = 31
  MaxReports = 2
  Owners = {"o1", "o2"}
  CheckLists <- MCChecks
  ApiFaults = {"runs", "list", "download", "thrown"}
  MaxRuns = 2
  Publishers = {"p1", "p2"}
  Results <- MCResults
  Boards <- MCBoards
  MaxAnnotations = 2
  Addresses = {"a1", "a2"}
  RawLists <- MCLists
  BatchConfigs <- MCBatchConfigs
  MaxPerLookup = 4
  Threads = {"t1"}
  Window = 2
  Skew = 1
  Callers = {"library"}
  MaxEvents = 3
  MaxTime = 3
INIT Init
NEXT Next
INVARIANTS
  VerdictIsTrue ReasonIsShown RemediationSuffices
  ShorteningIsSafe
  ComparisonIsHonest
  
  RowsAddUp BudgetIsKept ValidRowWasReady
PROPERTIES
  PromiseKept RepeatIsSilent
CHECK_DEADLOCK FALSE
