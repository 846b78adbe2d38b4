SPECIFICATION FairSpec
CONSTANTS
  Shas = {a, b, c}
  BreakingShas = {a}
  SpeclessShas = {c}
  Posts = {h1, h2}
  CheckIds <- MCCheckIds
  MaxEvents = 2
  MaxFaults = 1
INVARIANTS
  TypeOK
  SerialVerdictsFit
  RunMatchesCheck
  HistoryIsCurrent
  VerdictFollowsLabel
PROPERTIES
  ChecksAreCompleted
CHECK_DEADLOCK FALSE
