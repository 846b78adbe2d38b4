SPECIFICATION RegistrySpec
CONSTANTS
  a = a
  b = b
  p = p
  Uploads = {up1, up2}
  Names = {n1, n2}
  Docs = {a, b, p}
  Kinds = {"openapi", "proto"}
  KindOf <- MCKindOf
  None = None
  MaxClock = 3
INVARIANTS
  ContractsAreBacked
