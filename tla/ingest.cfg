SPECIFICATION FairSpec
CONSTANTS
  a = a
  Uploads = {up}
  Names = {n}
  Docs = {a}
  Kinds = {"openapi", "proto"}
  KindOf <- MCKindOf
  None = None
  MaxClock = 1
  Processes = {i1, i2}
  IdWords = {"7"}
  ENUM_CARDINALITY_THRESHOLD = 8
  Urls <- MCUrls
  Bodies <- MCBodies
  p1 = p1
  p2 = p2
  Payloads = {p1, p2}
  Records <- MCRecords
  Clients = {c1}
  Anonymous = Anonymous
  e1 = e1
  e2 = e2
  Endpoints = {e1, e2}
  NameOf <- MCNameOf
  PathItems <- MCPathItems
  MaxIngests = 3
  InferSchema <- infer_schema
  MergeSchemas <- merge_json_schemas
INVARIANTS
  TypeOK
  UsagesAreWhole
  SerialCountsAreExact
  CountsAreBounded
  SchemaAcceptsBodies
  ContractKeepsStatic
PROPERTIES
  IngestsEnd
