SPECIFICATION Spec
CONSTANTS
  NoRepo = NoRepo
  Campaigns = {c1}
  UsageValues <- MCUsage
  PeakValues <- MCPeaks
  Repos = {repo1}
  Requests = {r1}
  Workers = {w1, w2, w3}
  TokenWorkers = {w1, w2}
  Thresholds <- MCThresholds
  RowLocks = FALSE
  MaxFaults = 1
INVARIANTS
  ScheduledOnce
CHECK_DEADLOCK FALSE
SYMMETRY WorkerSymmetry
