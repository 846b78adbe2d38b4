SPECIFICATION Spec
CONSTANTS
  NoRepo = NoRepo
  Campaigns = {c1}
  UsageValues <- MCUsage
  PeakValues <- MCPeaks
  Repos = {repo1, repo2}
  Requests = {r1}
  Workers = {w1, w2}
  TokenWorkers = {w1, w2}
  Thresholds <- MCThresholds
  RowLocks = TRUE
  MaxFaults = 2
INVARIANTS
  TypeOK
  ClaimIsCurrent
  ReminderOnlyAfterDecay
  ReminderBeforeJob
  RowNamesTheOpenPull
  PullsCostFaults
PROPERTIES
  TerminalIsFinal
  ImplementsLifecycle
CHECK_DEADLOCK FALSE
SYMMETRY WorkerSymmetry
