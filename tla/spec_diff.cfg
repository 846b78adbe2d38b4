SPECIFICATION Spec
CONSTANTS
  any = any
  Anywhere = any
  Repos = {client1, client2}
  Comparisons <- MCComparisons
  GateChecks <- MCGateChecks
  MinedCalls <- MCMinedCalls
  ClientRequests <- MCClientRequests
  MaxDiffs = 1
INVARIANTS
  OpenGateKeepsRequests
  OpenGateKeepsReaders
  OpenGateKeepsPayloads
  NoChangeIsSilent
  GuidesNameWhatBreaks
  CustomRulesDecide
CHECK_DEADLOCK FALSE
SYMMETRY ClientSymmetry
