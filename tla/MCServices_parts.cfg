CONSTANTS
  Workflows <- MCWorkflows
  FileTexts <- MCFileTexts
  Rosters <- MCRosters
  MaxEdits = 2
  Modules <- MCModules
  RunTimeout = 2
  Elapsed = {0, 3}
  MaxListed = 2
  MaxPluginCalls = 4
  WebhookRuns = {"w1", "w2"}
  Receivers = {"r1", "r2"}
  SigningKeys <- MCSigningKeys
  Contents = {"account", "contract", "muxed"}
  MaxDeliveries = 3
  Ttls = {0, 2}
  MemoryTtl = 1
  Persistent = TRUE
  MaxClock = 6
  Readers = {"r1", "r2"}
  Bodies = {"b1", "b2"}
  TomlFaults = {"html"}
  Pins = {"", "b1", "malformed"}
  ReaderTtls = {0, 1}
  MaxTtl = 1
  MaxDay = 2
  Scenarios = {"flaky_then_success", "live", "rate_limit"}
  MaxRetries = 3
  MaxDelay = 30
  MaxTotalWait = 57
  FlakyFailCount = 2
  Capacity = 3
  Rate = 1
  MaxSecond = 3
  WaitOptions <- MCWaitOptions
  DefaultRetries = 3
  LongestRequest = 2
  FundingTimes = {0, 3, 20}
INIT Init
NEXT Next
INVARIANTS
  LayersAgree OwnAddress
  ListingOrderIsIrrelevant
  RotationIsSeamless
  StalenessIsBounded
  PinnedBodyOnly
  CheckIsSound RateIsKept
  FundingIsNotMissed
CHECK_DEADLOCK FALSE
