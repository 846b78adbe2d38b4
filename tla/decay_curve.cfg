SPECIFICATION FairSpec
CONSTANTS
  Window = 7
  Precision = 2
  Threshold = 1
  UsageLevels = {0, 2, 9}
  PeakLevels = {9}
  MaxOpen = 2
INVARIANTS
  EwmaWithinSamples
PROPERTIES
  EwmaSettles
  UnusedBecomesReady
