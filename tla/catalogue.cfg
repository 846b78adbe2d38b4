SPECIFICATION Spec
CONSTANTS
  IdWords <- MCIdWords
  GrpcModules <- MCGrpcModules
  PackageOf <- MCPackageOf
  StubServices <- MCStubServices
  Repos = {r1, r2}
  Ignored = {r2}
  Files <- MCFiles
  Scans = {s1, s2}
  Situations <- MCSituations
  Requests <- MCRequests
  Mined <- visit
  Sent <- Sends
  MadeFor <- IsPlain
  MaxEdits = 1
  MaxScans = 2
  MaxObserved = 1
INVARIANTS
  AffectedAreTheCallers
  RoutesAreFound
CHECK_DEADLOCK FALSE
SYMMETRY ScanSymmetry
