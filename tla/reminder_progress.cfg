SPECIFICATION FairSpec
CONSTANTS
  NoRepo = NoRepo
  Campaigns = {c1}
  UsageValues <- MCDecayedUsage
  PeakValues <- MCPeak
  Repos = {repo1, repo2}
  Requests = {r1}
  Workers = {w1}
  TokenWorkers = {w1}
  Thresholds <- MCThresholds
  RowLocks = TRUE
  MaxFaults = 1
PROPERTIES
  QueuedReminderIsRecorded
  DecayingIsTracked
CHECK_DEADLOCK FALSE
