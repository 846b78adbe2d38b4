------------------------------- MODULE Ingest -------------------------------
(***************************************************************************)
(* POST /ingest/traffic (apps/api/routes/ingest.py) and ingest_traffic     *)
(* (guardian_core/traffic/ingestor.py) for one service on PostgreSQL, with *)
(* the registry that the latest contract is read from. The route never     *)
(* awaits between its first write and its commit, so one API process runs  *)
(* one ingest at a time; several processes overlap. Each ingest is one     *)
(* transaction: it reads committed rows without a lock, and others wait    *)
(* for the rows it writes until it ends.                                   *)
(*                                                                         *)
(* A payload is the sequence of its records: a URL that was requested, and *)
(* the body that came back, if it is JSON. What a schema is, and what the  *)
(* schema of bodies and of two schemas together is, makes no difference to *)
(* the transactions; module DefactoContracts says what it comes to.        *)
(***************************************************************************)
EXTENDS Registry, RouteTree

CONSTANTS
  Processes,   \* API processes
  Urls,        \* what a record may name: a method and a URL
  Bodies,      \* bodies that records have
  Payloads,    \* request bodies; the batch hash tells them apart
  Records,     \* the records of each of Payloads
  Clients,     \* client ids a caller may give
  Anonymous,   \* no client id: NULL
  Endpoints,   \* ids of endpoints
  NameOf,      \* the method and path template of each of Endpoints
  PathItems,   \* of each specification: its templates, methods and schemas
  InferSchema(_),     \* infer_schema: the schema of a sequence of bodies
  MergeSchemas(_, _), \* merge_json_schemas: a stored one and an incoming one
  MaxIngests   \* bound on ingests

Callers == Clients \cup {Anonymous}
Specs == {doc \in Docs : KindOf[doc] = "openapi"} \cup {None}

ASSUME IngestAssumption ==
  /\ Records \in [Payloads -> Seq([url : Urls, body : Bodies \cup {None}]) \ {<<>>}]
  /\ Anonymous \notin Clients
  /\ None \notin Nat
  /\ DOMAIN PathItems = Specs /\ PathItems[None] = <<>>
  /\ MaxIngests \in Nat

VARIABLES
  batches,     \* ingest_batches: the record_count of each payload
  observed,    \* observed_endpoints; sample_count is 0 where there is no row
  usages,      \* field_usages: the sum of the counts of each key's rows
  ingest,      \* what each process holds
  received,    \* how many ingests were begun
  committed,   \* history: the payload, caller and specification of each commit
  counted,     \* history: how many records of each endpoint were committed
  posted,      \* history: how many records of each payload were committed
  overlapped   \* history: whether two ingests were ever in progress at once

tables == <<batches, observed, usages>>
counters == <<committed, counted, posted>>
history == <<counters, overlapped>>
vars == <<registry, tables, ingest, received, history>>

\* The name of the endpoint of a URL under a specification, or under none, the
\* endpoint itself, and that of each record of a payload.
Name(u, spec) ==
  [method |-> u.method,
   path |-> normalize_observed_path(u.url, u.method, build_route_tree(PathItems[spec]))]
Template ==
  [spec \in Specs |-> [u \in Urls |-> CHOOSE e \in Endpoints : NameOf[e] = Name(u, spec)]]
Normalized ==
  [p \in Payloads |-> [spec \in Specs |->
     [k \in DOMAIN Records[p] |-> Template[spec][Records[p][k].url]]]]
EndpointOf(p, spec, k) == Normalized[p][spec][k]

\* No endpoint is left out of Endpoints.
ASSUME EndpointsAssumption ==
  \A spec \in Specs, u \in Urls : \E e \in Endpoints : NameOf[e] = Name(u, spec)

\* The records at an endpoint, those of them that have a body, and the bodies.
PlacesAt(p, spec, e) == {k \in DOMAIN Records[p] : EndpointOf(p, spec, k) = e}
RecordsAt(p, spec, e) == Cardinality(PlacesAt(p, spec, e))
BodiesAt(p, spec, e) ==
  LET group == SelectSeq(Records[p], LAMBDA r : Template[spec][r.url] = e /\ r.body # None)
  IN [k \in DOMAIN group |-> group[k].body]

\* The count of the root field.
UsesAt(p, spec, e) ==
  Cardinality({k \in PlacesAt(p, spec, e) : Records[p][k].body # None})

NoSchema == <<>>
GroupAt(p, spec, e) ==
  LET bodies == BodiesAt(p, spec, e)
  IN [samples |-> RecordsAt(p, spec, e), bodies |-> bodies,
      schema |-> IF bodies = <<>> THEN NoSchema ELSE InferSchema(bodies)]
Named(p, spec) == {EndpointOf(p, spec, k) : k \in DOMAIN Records[p]}
_group_by_endpoint ==
  [p \in Payloads |-> [spec \in Specs |->
     [e \in Named(p, spec) |-> GroupAt(p, spec, e)]]]
GroupsOf(p, spec) == _group_by_endpoint[p][spec]

NoRow == [samples |-> 0, schema |-> NoSchema]
IsRow(row) ==
  row = [samples |-> row.samples, schema |-> row.schema] /\ row.samples \in Nat
IsWritten(row) ==
  /\ row = [samples |-> row.samples, schema |-> row.schema, changed |-> row.changed]
  /\ row.samples \in Nat

IdleIngest == [pc |-> "idle"]
NewIngests ==
  [pc : {"batch", "insert", "spec"}, payload : Payloads, caller : Callers,
   count : Nat \cup {None}]
IsGroupedIngest(held) ==
  /\ DOMAIN held = {"pc", "payload", "caller", "count", "spec", "endpoint", "row",
                    "written"}
  /\ held.pc \in {"read", "write", "commit"}
  /\ held.payload \in Payloads /\ held.caller \in Callers /\ held.spec \in Specs
  /\ held.count \in Nat \cup {None}
  /\ held.endpoint \in Endpoints \cup {None} /\ IsRow(held.row)
  /\ DOMAIN held.written = Endpoints
  /\ \A e \in Endpoints : held.written[e] = NoRow \/ IsWritten(held.written[e])

TypeOK ==
  /\ RegistryTypeOK
  /\ batches \in [Payloads -> Nat \cup {None}]
  /\ DOMAIN observed = Endpoints /\ \A e \in Endpoints : IsRow(observed[e])
  /\ usages \in [Payloads -> [Callers -> [Endpoints -> Nat]]]
  /\ DOMAIN ingest = Processes
  /\ \A i \in Processes :
       ingest[i] \in {IdleIngest} \cup NewIngests \/ IsGroupedIngest(ingest[i])
  /\ received \in 0..MaxIngests
  /\ committed \subseteq [payload : Payloads, caller : Callers, spec : Specs]
  /\ counted \in [Endpoints -> Nat]
  /\ posted \in [Payloads -> Nat]
  /\ overlapped \in BOOLEAN

Init ==
  /\ RegistryInit
  /\ batches = [p \in Payloads |-> None]
  /\ observed = [e \in Endpoints |-> NoRow]
  /\ usages = [p \in Payloads |-> [c \in Callers |-> [e \in Endpoints |-> 0]]]
  /\ ingest = [i \in Processes |-> IdleIngest]
  /\ received = 0
  /\ committed = {}
  /\ counted = [e \in Endpoints |-> 0]
  /\ posted = [p \in Payloads |-> 0]
  /\ overlapped = FALSE

Busy(i) == ingest[i].pc # "idle"
HasSpec(i) == ingest[i].pc \in {"read", "write", "commit"}

\* Rows that others wait for: a new batch, and the endpoints written so far.
HoldsBatch(i, p) ==
  /\ ingest[i].pc \notin {"idle", "batch", "insert"}
  /\ ingest[i].payload = p
  /\ ingest[i].count = None
HoldsEndpoint(i, e) == HasSpec(i) /\ ingest[i].written[e] # NoRow

\* The groups are written in the order in which the records first name them: the
\* next one is that of the first record whose group is not written.
Left(i) ==
  {k \in DOMAIN Records[ingest[i].payload] :
     ~HoldsEndpoint(i, EndpointOf(ingest[i].payload, ingest[i].spec, k))}
HasGroup(i) == Left(i) # {}
Target(i) == EndpointOf(ingest[i].payload, ingest[i].spec, Min(Left(i)))
Pending(i) == GroupsOf(ingest[i].payload, ingest[i].spec)[ingest[i].endpoint]

WaitsFor(i, j) == i # j /\ ingest[i].pc = "write" /\ HoldsEndpoint(j, ingest[i].endpoint)

\* The transaction is rolled back and the caller gets a 4xx or 500.
Abort(i) ==
  /\ ingest' = [ingest EXCEPT ![i] = IdleIngest]
  /\ UNCHANGED <<registry, tables, received, history>>

-----------------------------------------------------------------------------
Receive(i, p, c) ==
  /\ ~Busy(i)
  /\ received < MaxIngests
  /\ received' = received + 1
  /\ ingest' = [ingest EXCEPT ![i] =
       [pc |-> "batch", payload |-> p, caller |-> c, count |-> None]]
  /\ overlapped' = (overlapped \/ \E j \in Processes : Busy(j))
  /\ UNCHANGED <<registry, tables, counters>>

\* The batch found is reused, whoever sent it; its record_count is read here.
FindBatch(i) ==
  /\ ingest[i].pc = "batch"
  /\ LET count == batches[ingest[i].payload]
     IN ingest' = [ingest EXCEPT ![i].count = count,
                                 ![i].pc = IF count = None THEN "insert" ELSE "spec"]
  /\ UNCHANGED <<registry, tables, received, history>>

\* A plausible slip: a new batch is not grouped by the specification.
InsertBatchUngrouped(i) ==
  /\ ingest[i].pc = "insert"
  /\ \A j \in Processes : ~HoldsBatch(j, ingest[i].payload)
  /\ batches[ingest[i].payload] = None
  /\ ingest' = [ingest EXCEPT ![i].pc = "commit"]
  /\ UNCHANGED <<registry, tables, received, history>>

\* A new batch is flushed; the key is violated if it was committed meanwhile.
InsertBatch(i) ==
  /\ ingest[i].pc = "insert"
  /\ \A j \in Processes : ~HoldsBatch(j, ingest[i].payload)
  /\ batches[ingest[i].payload] = None
  /\ ingest' = [ingest EXCEPT ![i].pc = "spec"]
  /\ UNCHANGED <<registry, tables, received, history>>

\* A plausible slip: the insert is tried again, and the batch not looked for.
BatchConflictRetried(i) ==
  /\ ingest[i].pc = "insert"
  /\ batches[ingest[i].payload] # None
  /\ UNCHANGED vars

BatchConflict(i) ==
  /\ ingest[i].pc = "insert"
  /\ batches[ingest[i].payload] # None
  /\ Abort(i)

\* The payload is parsed and its records are grouped by the latest
\* specification, or by heuristic templates if there is none.
Group(i) ==
  /\ ingest[i].pc = "spec"
  /\ \E spec \in Specs :
       /\ IF spec = None
          THEN \A doc \in Specs \ {None} : ~Stored(doc)
          ELSE IsLatest(spec, "openapi")
       /\ ingest' = [ingest EXCEPT ![i] =
            [pc |-> "read", payload |-> @.payload, caller |-> @.caller, count |-> @.count,
             spec |-> spec, endpoint |-> None, row |-> NoRow,
             written |-> [e \in Endpoints |-> NoRow]]]
  /\ UNCHANGED <<registry, tables, received, history>>

\* The row of the next endpoint is read without a lock.
ReadEndpoint(i) ==
  /\ ingest[i].pc = "read"
  /\ IF HasGroup(i)
     THEN ingest' = [ingest EXCEPT ![i].pc = "write", ![i].endpoint = Target(i),
                                   ![i].row = observed[Target(i)]]
     ELSE ingest' = [ingest EXCEPT ![i].pc = "commit"]
  /\ UNCHANGED <<registry, tables, received, history>>

\* The schema of the row read, refined by that of the group.
RefinedSchema(row, group) ==
  IF row = NoRow THEN group.schema
  ELSE IF group.schema = NoSchema THEN row.schema
  ELSE MergeSchemas(row.schema, group.schema)

\* A plausible slip: the count read is stored without the new records.
RefinedReplacing(row, group) ==
  [samples |-> group.samples, schema |-> RefinedSchema(row, group),
   changed |-> RefinedSchema(row, group) # row.schema]

\* A plausible slip: a record is counted once more for each that was there.
RefinedTwice(row, group) ==
  [samples |-> 2 * row.samples + group.samples, schema |-> RefinedSchema(row, group),
   changed |-> RefinedSchema(row, group) # row.schema]

\* The row read, with the records and the schema of the group added.
Refined(row, group) ==
  [samples |-> row.samples + group.samples, schema |-> RefinedSchema(row, group),
   changed |-> RefinedSchema(row, group) # row.schema]

\* The INSERT or UPDATE waits for the row's holder.
WriteEndpoint(i) ==
  /\ ingest[i].pc = "write"
  /\ \A j \in Processes : ~WaitsFor(i, j)
  /\ ingest[i].row = NoRow => observed[ingest[i].endpoint] = NoRow
  /\ LET e == ingest[i].endpoint
         row == Refined(ingest[i].row, Pending(i))
     IN ingest' = [ingest EXCEPT ![i].pc = "read", ![i].endpoint = None, ![i].row = NoRow,
                                 ![i].written = [@ EXCEPT ![e] = row]]
  /\ UNCHANGED <<registry, tables, received, history>>

\* The row was not there when it was read, and another ingest committed it: 409.
EndpointConflict(i) ==
  /\ ingest[i].pc = "write"
  /\ ingest[i].row = NoRow
  /\ observed[ingest[i].endpoint] # NoRow
  /\ Abort(i)

\* A plausible slip: a stored key adds the counts.
UsagesAdded(i, p, c, e) ==
  IF p # ingest[i].payload \/ c # ingest[i].caller
  THEN usages[p][c][e]
  ELSE usages[p][c][e] + UsesAt(p, ingest[i].spec, e)

\* ON CONFLICT refreshes last_seen_at only, so a key that is stored keeps its
\* count; but a NULL client_id never conflicts, and every such row is inserted.
UsagesAfter(i, p, c, e) ==
  LET old == usages[p][c][e]
      new == UsesAt(p, ingest[i].spec, e)
  IN IF p # ingest[i].payload \/ c # ingest[i].caller THEN old
     ELSE IF c = Anonymous THEN old + new
     ELSE IF old = 0 THEN new ELSE old

\* field_usages are written, record_count is set from the value read, and all
\* is committed. A schema that did not change is not named in its UPDATE.
CommitIngest(i) ==
  /\ ingest[i].pc = "commit"
  /\ ingest' = [ingest EXCEPT ![i] = IdleIngest]
  /\ LET p == ingest[i].payload
         c == ingest[i].caller
         spec == ingest[i].spec
     IN /\ usages' = [q \in Payloads |-> [d \in Callers |-> [e \in Endpoints |->
                         UsagesAfter(i, q, d, e)]]]
        /\ batches' = [batches EXCEPT ![p] =
             Len(Records[p]) + IF ingest[i].count = None THEN 0 ELSE ingest[i].count]
        /\ committed' = committed \cup {[payload |-> p, caller |-> c, spec |-> spec]}
        /\ counted' = [e \in Endpoints |-> counted[e] + RecordsAt(p, spec, e)]
        /\ posted' = [posted EXCEPT ![p] = @ + Len(Records[p])]
  /\ observed' = [e \in Endpoints |->
       LET new == ingest[i].written[e]
       IN IF ~HoldsEndpoint(i, e) THEN observed[e]
          ELSE [samples |-> new.samples,
                schema |-> IF new.changed THEN new.schema ELSE observed[e].schema]]
  /\ UNCHANGED <<registry, received, overlapped>>

\* A payload that does not parse, a lost process or a database error.
LoseIngest(i) ==
  /\ Busy(i)
  /\ Abort(i)

\* PostgreSQL ends one of the transactions that wait for each other.
BreakDeadlock(i) ==
  /\ \E cycle \in SUBSET Processes :
       /\ i \in cycle
       /\ \A j \in cycle : \E k \in cycle : WaitsFor(j, k)
  /\ Abort(i)

IngestStep(i) ==
  \/ FindBatch(i)
  \/ InsertBatch(i)
  \/ BatchConflict(i)
  \/ Group(i)
  \/ ReadEndpoint(i)
  \/ WriteEndpoint(i)
  \/ EndpointConflict(i)
  \/ CommitIngest(i)
  \/ BreakDeadlock(i)

Next ==
  \/ RegistryNext /\ UNCHANGED <<tables, ingest, received, history>>
  \/ \E i \in Processes :
       \/ \E p \in Payloads, c \in Callers : Receive(i, p, c)
       \/ IngestStep(i)
       \/ LoseIngest(i)

Spec == Init /\ [][Next]_vars

\* A process goes on with its request, and PostgreSQL with its transaction.
FairSpec == Spec /\ \A i \in Processes : WF_vars(IngestStep(i))

-----------------------------------------------------------------------------
CommittedUnder(p, c) ==
  {spec \in Specs : [payload |-> p, caller |-> c, spec |-> spec] \in committed}

\* However often a client's payload is sent, under whatever specifications and
\* with whatever failures between, its usages are those of the endpoints it was
\* resolved to, all of them, each counted once (ingestor.py:241-274).
UsagesAreWhole ==
  \A p \in Payloads, c \in Clients, e \in Endpoints :
    LET counts == {UsesAt(p, s, e) : s \in CommittedUnder(p, c)} \ {0}
    IN IF counts = {} THEN usages[p][c][e] = 0 ELSE usages[p][c][e] \in counts

\* One API process ingests one payload at a time, and then the counters are
\* exact: sample_count has every record that was committed and no record of an
\* ingest that was lost (ingestor.py:225-232, 403).
SerialCountsAreExact ==
  ~overlapped =>
    /\ \A e \in Endpoints : observed[e].samples = counted[e]
    /\ \A p \in Payloads : batches[p] = IF posted[p] = 0 THEN None ELSE posted[p]

\* Overlapping ingests lose updates, but they invent nothing: an endpoint is
\* known if and only if a record of it was committed, and no counter exceeds
\* what was committed (ingestor.py:204-238, 403).
CountsAreBounded ==
  /\ \A e \in Endpoints : /\ observed[e] = NoRow <=> counted[e] = 0
                          /\ observed[e].samples <= counted[e]
  /\ \A p \in Payloads : /\ batches[p] = None <=> posted[p] = 0
                         /\ batches[p] # None => batches[p] <= posted[p]

\* Every ingest ends, also when two write the same endpoints in opposite
\* orders, race for one batch, or find rows they did not see
\* (ingestor.py:305-314, 328-347; ingest.py:78-99).
IngestsEnd == \A i \in Processes : Busy(i) ~> ~Busy(i)
=============================================================================
