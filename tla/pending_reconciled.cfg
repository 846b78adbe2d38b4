SPECIFICATION FairSpec
CONSTANTS
  NoRepo = NoRepo
  Campaigns = {c1}
  UsageValues <- MCUsage
  PeakValues <- MCPeaks
  Repos = {repo1}
  Requests = {r1}
  Workers = {w1}
  TokenWorkers = {w1}
  Thresholds <- MCThresholds
  RowLocks = TRUE
  MaxFaults = 1
PROPERTIES
  PendingIsReconciled
CHECK_DEADLOCK FALSE
