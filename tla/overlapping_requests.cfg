SPECIFICATION Spec
CONSTANTS
  NoRepo = NoRepo
  Campaigns = {c1}
  UsageValues <- MCUsage
  PeakValues <- MCPeaks
  Repos = {repo1}
  Requests = {r1, r2}
  Workers = {w1, w2}
  TokenWorkers = {w1, w2}
  Thresholds <- MCThresholds
  RowLocks = TRUE
  MaxFaults = 0
PROPERTIES
  TerminalIsFinal
CHECK_DEADLOCK FALSE
