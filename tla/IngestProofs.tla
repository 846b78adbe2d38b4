---------------------------- MODULE IngestProofs ----------------------------
(***************************************************************************)
(* Theorems about Ingest, for any number of processes, payloads, clients,  *)
(* endpoints and specifications, and whatever InferSchema and MergeSchemas *)
(* make of bodies and schemas.                                             *)
(***************************************************************************)
EXTENDS Ingest, RegistryProofs, FiniteSetTheorems, SequenceTheorems, WellFoundedInduction

-----------------------------------------------------------------------------
\* Records and their groups.

\* A payload has a first and a last record.
LEMMA PayloadsHaveRecords ==
  ASSUME NEW p \in Payloads
  PROVE  /\ Len(Records[p]) \in Nat \ {0}
         /\ DOMAIN Records[p] = 1..Len(Records[p])
         /\ \A k \in DOMAIN Records[p] : Records[p][k].url \in Urls
<1> DEFINE R == [url : Urls, body : Bodies \cup {None}]
<1>1. Records[p] \in Seq(R) /\ Records[p] # <<>>
  BY IngestAssumption
<1>2. Len(Records[p]) \in Nat /\ DOMAIN Records[p] = 1..Len(Records[p])
  BY <1>1, LenProperties
<1>3. Len(Records[p]) # 0
  BY <1>1, EmptySeq
<1>4. \A k \in 1..Len(Records[p]) : Records[p][k] \in R
  BY <1>1, ElementOfSeq
<1> QED
  BY <1>2, <1>3, <1>4

\* Every record is at one of Endpoints.
LEMMA RecordsHaveEndpoints ==
  ASSUME NEW p \in Payloads, NEW spec \in Specs, NEW k \in DOMAIN Records[p]
  PROVE  EndpointOf(p, spec, k) \in Endpoints
<1> DEFINE u == Records[p][k].url
<1>1. u \in Urls
  BY PayloadsHaveRecords
<1>2. EndpointOf(p, spec, k) = Template[spec][u]
  BY DEF EndpointOf, Normalized
<1>3. Template[spec][u] = CHOOSE e \in Endpoints : NameOf[e] = Name(u, spec)
  BY <1>1 DEF Template
<1>4. \E e \in Endpoints : NameOf[e] = Name(u, spec)
  BY <1>1, EndpointsAssumption
<1> QED
  BY <1>2, <1>3, <1>4

LEMMA NamedAreEndpoints ==
  ASSUME NEW p \in Payloads, NEW spec \in Specs
  PROVE  Named(p, spec) \subseteq Endpoints
BY RecordsHaveEndpoints DEF Named

\* The records of a payload are finitely many wherever they are.
LEMMA PlacesAreFinite ==
  ASSUME NEW p \in Payloads, NEW spec \in Specs, NEW e
  PROVE  IsFiniteSet(PlacesAt(p, spec, e))
<1>1. IsFiniteSet(1..Len(Records[p]))
  BY PayloadsHaveRecords, FS_Interval
<1>2. PlacesAt(p, spec, e) \subseteq 1..Len(Records[p])
  BY PayloadsHaveRecords DEF PlacesAt
<1> QED
  BY <1>1, <1>2, FS_Subset

\* An endpoint has records if and only if the payload names it.
LEMMA RecordsAtNamed ==
  ASSUME NEW p \in Payloads, NEW spec \in Specs, NEW e
  PROVE  /\ RecordsAt(p, spec, e) \in Nat
         /\ RecordsAt(p, spec, e) = 0 <=> e \notin Named(p, spec)
<1>1. RecordsAt(p, spec, e) \in Nat
  BY PlacesAreFinite, FS_CardinalityType DEF RecordsAt
<1>2. RecordsAt(p, spec, e) = 0 <=> PlacesAt(p, spec, e) = {}
  BY PlacesAreFinite, FS_EmptySet DEF RecordsAt
<1>3. PlacesAt(p, spec, e) = {} <=> e \notin Named(p, spec)
  BY DEF PlacesAt, Named
<1> QED
  BY <1>1, <1>2, <1>3

LEMMA UsesAreCounts ==
  ASSUME NEW p \in Payloads, NEW spec \in Specs, NEW e
  PROVE  UsesAt(p, spec, e) \in Nat
<1> DEFINE used == {k \in PlacesAt(p, spec, e) : Records[p][k].body # None}
<1>1. IsFiniteSet(used)
  BY PlacesAreFinite, FS_Subset
<1> QED
  BY <1>1, FS_CardinalityType DEF UsesAt

\* A group holds all records of its endpoint.
LEMMA GroupsHoldRecords ==
  ASSUME NEW p \in Payloads, NEW spec \in Specs, NEW e \in Named(p, spec)
  PROVE  GroupsOf(p, spec)[e].samples = RecordsAt(p, spec, e)
BY DEF GroupsOf, _group_by_endpoint, GroupAt

\* The next group is one of a record that was not written.
LEMMA TargetIsLeft ==
  ASSUME NEW i \in Processes, ingest[i].payload \in Payloads, HasGroup(i)
  PROVE  /\ Target(i) \in Named(ingest[i].payload, ingest[i].spec)
         /\ ~HoldsEndpoint(i, Target(i))
<1>1. Left(i) \subseteq Nat /\ Left(i) # {}
  BY PayloadsHaveRecords DEF Left, HasGroup
<1>2. PICK k \in Left(i) : \A j \in Left(i) : ~ (<<j, k>> \in OpToRel(<, Nat))
  BY <1>1, WFMin, NatLessThanWellFounded
<1>3. ASSUME NEW j \in Left(i)
      PROVE  k <= j
  <2>1. j \in Nat /\ k \in Nat
    BY <1>1, <1>2, <1>3
  <2>2. j < k => <<j, k>> \in OpToRel(<, Nat)
    BY <2>1 DEF OpToRel
  <2>3. ~ (<<j, k>> \in OpToRel(<, Nat))
    BY <1>2, <1>3
  <2>4. ~ (j < k)
    BY <2>2, <2>3
  <2> QED
    BY <2>1, <2>4
<1>4. Min(Left(i)) \in Left(i)
  BY <1>3 DEF Min
<1> QED
  BY <1>4 DEF Target, Left, Named

-----------------------------------------------------------------------------
\* The inductive invariant.

IsIngest(h) == h \in {IdleIngest} \cup NewIngests \/ IsGroupedIngest(h)
Holding(h, e) == h.pc \in {"read", "write", "commit"} /\ h.written[e] # NoRow

\* What an ingest read and wrote is no more than what was committed, and it has
\* all groups when it commits.
BoundedBy(h, count, post) ==
  /\ h.pc # "idle" /\ h.count # None => h.count <= post[h.payload]
  /\ h.pc = "write" => /\ h.endpoint \in Named(h.payload, h.spec)
                       /\ h.row.samples <= count[h.endpoint]
  /\ h.pc = "commit" => \A e \in Named(h.payload, h.spec) : Holding(h, e)
  /\ \A e \in Endpoints : Holding(h, e) =>
       /\ e \in Named(h.payload, h.spec)
       /\ RecordsAt(h.payload, h.spec, e) <= h.written[e].samples
       /\ h.written[e].samples <= count[e] + RecordsAt(h.payload, h.spec, e)

\* What an ingest read is what is stored, and what it wrote adds its records.
ExactBy(h, batch, rows) ==
  /\ h.pc \notin {"idle", "batch"} => h.count = batch[h.payload]
  /\ h.pc = "write" => h.row.samples = rows[h.endpoint].samples
  /\ \A e \in Endpoints : Holding(h, e) =>
       h.written[e].samples = rows[e].samples + RecordsAt(h.payload, h.spec, e)

HeldIsBounded == \A i \in Processes : BoundedBy(ingest[i], counted, posted)

\* Until two ingests overlap there is at most one, and it reads what is so.
AloneIsExact ==
  ~overlapped =>
    /\ \A i \in Processes, j \in Processes : Busy(i) /\ Busy(j) => i = j
    /\ \A i \in Processes : ExactBy(ingest[i], batches, observed)

IngestInv ==
  /\ RegistryInv /\ TypeOK
  /\ HeldIsBounded /\ CountsAreBounded
  /\ AloneIsExact /\ SerialCountsAreExact
  /\ UsagesAreWhole

LEMMA InitIngestInv == Init => IngestInv
<1> SUFFICES ASSUME Init PROVE IngestInv
  OBVIOUS
<1> USE DEF Init
<1>1. RegistryInv
  BY InitRegistryInv
<1>2. TypeOK
  <2>1. None \in Nat \cup {None} /\ 0 \in Nat /\ 0 \in 0..MaxIngests
    BY IngestAssumption
  <2>2. /\ batches \in [Payloads -> Nat \cup {None}]
        /\ usages \in [Payloads -> [Callers -> [Endpoints -> Nat]]]
        /\ counted \in [Endpoints -> Nat] /\ posted \in [Payloads -> Nat]
        /\ received \in 0..MaxIngests
    BY <2>1
  <2>3. DOMAIN observed = Endpoints /\ \A e \in Endpoints : IsRow(observed[e])
    BY DEF IsRow, NoRow
  <2>4. RegistryTypeOK
    BY <1>1 DEF RegistryInv
  <2> QED
    BY <2>2, <2>3, <2>4 DEF TypeOK
<1>3. \A i \in Processes : ingest[i] = IdleIngest
  OBVIOUS
<1>4. HeldIsBounded
  BY <1>3 DEF HeldIsBounded, BoundedBy, Holding, IdleIngest
<1>5. CountsAreBounded
  BY DEF CountsAreBounded, NoRow
<1>6. AloneIsExact
  BY <1>3 DEF AloneIsExact, ExactBy, Holding, IdleIngest, Busy
<1>7. SerialCountsAreExact
  BY DEF SerialCountsAreExact, NoRow
<1>8. UsagesAreWhole
  <2> SUFFICES ASSUME NEW p \in Payloads, NEW c \in Clients, NEW e \in Endpoints
               PROVE  /\ {UsesAt(p, s, e) : s \in CommittedUnder(p, c)} \ {0} = {}
                      /\ usages[p][c][e] = 0
    BY DEF UsagesAreWhole
  <2>1. CommittedUnder(p, c) = {}
    BY DEF CommittedUnder
  <2> QED
    BY <2>1 DEF Callers
<1> QED
  BY <1>1, <1>2, <1>4, <1>5, <1>6, <1>7, <1>8 DEF IngestInv

\* An idle process has nothing to answer for.
LEMMA IdleHoldsNothing ==
  ASSUME NEW count, NEW post, NEW batch, NEW rows
  PROVE  /\ IsIngest(IdleIngest)
         /\ BoundedBy(IdleIngest, count, post)
         /\ ExactBy(IdleIngest, batch, rows)
BY DEF IsIngest, BoundedBy, ExactBy, Holding, IdleIngest

\* Where no ingest commits the counters and the tables agree as before.
LEMMA CountersStay ==
  ASSUME IngestInv, UNCHANGED <<tables, counters>>, ~overlapped' => ~overlapped
  PROVE  CountsAreBounded' /\ SerialCountsAreExact' /\ UsagesAreWhole'
<1> USE DEF tables, counters
<1>1. CountsAreBounded' /\ SerialCountsAreExact'
  BY DEF IngestInv, CountsAreBounded, SerialCountsAreExact
<1>2. UsagesAreWhole'
  <2> DEFINE counts(p, c, e) == {UsesAt(p, s, e) : s \in CommittedUnder(p, c)} \ {0}
             Whole(p, c, e) == IF counts(p, c, e) = {} THEN usages[p][c][e] = 0
                               ELSE usages[p][c][e] \in counts(p, c, e)
  <2> SUFFICES ASSUME NEW p \in Payloads, NEW c \in Clients, NEW e \in Endpoints
               PROVE  Whole(p, c, e)'
    BY DEF UsagesAreWhole
  <2>1. Whole(p, c, e)
    BY DEF IngestInv, UsagesAreWhole
  <2>2. CommittedUnder(p, c)' = CommittedUnder(p, c) /\ usages' = usages
    BY DEF CommittedUnder
  <2> QED
    BY <2>1, <2>2
<1> QED
  BY <1>1, <1>2

\* One process goes on, and nothing is committed.
LEMMA IngestGoesOn ==
  ASSUME IngestInv, NEW i \in Processes, NEW h,
         ingest' = [ingest EXCEPT ![i] = h],
         UNCHANGED <<registry, tables, counters>>,
         received' \in 0..MaxIngests, overlapped' \in BOOLEAN,
         IsIngest(h), BoundedBy(h, counted, posted),
         ~overlapped' => ~overlapped,
         ~overlapped' => ExactBy(h, batches, observed),
         ~overlapped' /\ h.pc # "idle" => \A j \in Processes \ {i} : ~Busy(j)
  PROVE  IngestInv'
<1>1. /\ ingest'[i] = h
      /\ \A j \in Processes \ {i} : ingest'[j] = ingest[j]
      /\ DOMAIN ingest' = Processes
  BY DEF IngestInv, TypeOK
<1> USE DEF tables, counters
<1>2. RegistryInv'
  BY DEF IngestInv, RegistryInv, RegistryTypeOK, ContractsAreBacked, UploadsAgree, Stored,
         Decided, Holds, Inserts, registry
<1>3. \A j \in Processes : IsIngest(ingest'[j])
  BY <1>1 DEF IngestInv, TypeOK, IsIngest
<1>4. TypeOK'
  BY <1>1, <1>2, <1>3 DEF IngestInv, TypeOK, IsIngest, RegistryInv
<1>5. HeldIsBounded'
  BY <1>1 DEF IngestInv, HeldIsBounded
<1>6. AloneIsExact'
  BY <1>1 DEF IngestInv, AloneIsExact, Busy
<1> QED
  BY <1>2, <1>4, <1>5, <1>6, CountersStay DEF IngestInv

LEMMA RegistryStepKeepsIngestInv ==
  ASSUME IngestInv, RegistryNext, UNCHANGED <<tables, ingest, received, history>>
  PROVE  IngestInv'
<1> USE DEF history
<1>1. RegistryInv'
  BY OpenStepKeepsInv, CommitKeepsInv DEF IngestInv, RegistryNext
<1>2. TypeOK'
  BY <1>1 DEF IngestInv, TypeOK, tables, counters, RegistryInv
<1>3. HeldIsBounded' /\ AloneIsExact'
  BY DEF IngestInv, HeldIsBounded, AloneIsExact, Busy, tables, counters
<1> QED
  BY <1>1, <1>2, <1>3, CountersStay DEF IngestInv

\* What a process holds, by how far it is.
LEMMA HeldByProgress ==
  ASSUME IngestInv, NEW i \in Processes
  PROVE  LET h == ingest[i] IN
         /\ IsIngest(h) /\ BoundedBy(h, counted, posted)
         /\ h.pc \in {"batch", "insert", "spec"} => h \in NewIngests
         /\ HasSpec(i) => IsGroupedIngest(h)
         /\ ~overlapped => ExactBy(h, batches, observed)
         /\ ~overlapped /\ Busy(i) => \A j \in Processes \ {i} : ~Busy(j)
<1> DEFINE h == ingest[i]
<1>1. IsIngest(h)
  BY DEF IngestInv, TypeOK, IsIngest
<1>2. h.pc \in {"batch", "insert", "spec"} => h \in NewIngests
  BY <1>1 DEF IsIngest, IdleIngest, IsGroupedIngest
<1>3. HasSpec(i) => IsGroupedIngest(h)
  BY <1>1 DEF IsIngest, IdleIngest, NewIngests, HasSpec
<1> QED
  BY <1>1, <1>2, <1>3 DEF IngestInv, HeldIsBounded, AloneIsExact

\* A process that was busy goes on.
LEMMA BusyGoesOn ==
  ASSUME IngestInv, NEW i \in Processes, Busy(i), NEW h,
         ingest' = [ingest EXCEPT ![i] = h],
         UNCHANGED <<registry, tables, received, history>>,
         IsIngest(h), BoundedBy(h, counted, posted),
         ~overlapped => ExactBy(h, batches, observed)
  PROVE  IngestInv'
<1>1. overlapped' = overlapped /\ UNCHANGED counters
  BY DEF history
<1>2. ~overlapped => \A j \in Processes \ {i} : ~Busy(j)
  BY HeldByProgress
<1>3. received' \in 0..MaxIngests /\ overlapped' \in BOOLEAN
  BY <1>1 DEF IngestInv, TypeOK
<1> QED
  BY <1>1, <1>2, <1>3, IngestGoesOn

LEMMA AbortKeepsInv ==
  ASSUME IngestInv, NEW i \in Processes, Busy(i), Abort(i)
  PROVE  IngestInv'
BY BusyGoesOn, IdleHoldsNothing DEF Abort

LEMMA ReceiveKeepsInv ==
  ASSUME IngestInv, NEW i \in Processes, NEW p \in Payloads, NEW c \in Callers,
         Receive(i, p, c)
  PROVE  IngestInv'
<1> DEFINE h == [pc |-> "batch", payload |-> p, caller |-> c, count |-> None]
<1>1. h \in NewIngests
  BY DEF NewIngests
<1>2. IsIngest(h) /\ BoundedBy(h, counted, posted) /\ ExactBy(h, batches, observed)
  BY <1>1 DEF IsIngest, BoundedBy, ExactBy, Holding
<1>3. ingest' = [ingest EXCEPT ![i] = h] /\ UNCHANGED <<registry, tables, counters>>
  BY DEF Receive
<1>4. received' \in 0..MaxIngests
  BY IngestAssumption DEF Receive, IngestInv, TypeOK
<1>5. /\ overlapped' \in BOOLEAN
      /\ ~overlapped' => ~overlapped /\ \A j \in Processes : ~Busy(j)
  BY DEF Receive
<1> HIDE DEF h
<1> QED
  BY <1>2, <1>3, <1>4, <1>5, IngestGoesOn

LEMMA FindBatchKeepsInv ==
  ASSUME IngestInv, NEW i \in Processes, FindBatch(i)
  PROVE  IngestInv'
<1> DEFINE q == ingest[i]
           count == batches[q.payload]
           pc == IF count = None THEN "insert" ELSE "spec"
           h == [q EXCEPT !.count = count, !.pc = pc]
<1>1. q \in NewIngests /\ Busy(i)
  BY HeldByProgress DEF FindBatch, Busy
<1>2. q.payload \in Payloads /\ count \in Nat \cup {None}
  BY <1>1 DEF NewIngests, IngestInv, TypeOK
<1>3. h \in NewIngests /\ h.pc = pc /\ h.payload = q.payload /\ h.count = count
  BY <1>1, <1>2 DEF NewIngests
<1>4. count # None => count <= posted[q.payload]
  BY <1>2 DEF IngestInv, CountsAreBounded
<1>5. IsIngest(h) /\ BoundedBy(h, counted, posted) /\ ExactBy(h, batches, observed)
  BY <1>3, <1>4 DEF IsIngest, BoundedBy, ExactBy, Holding
<1>6. ingest' = [ingest EXCEPT ![i] = h]
  BY DEF FindBatch, IngestInv, TypeOK
<1> HIDE DEF h
<1> QED
  BY <1>1, <1>5, <1>6, BusyGoesOn DEF FindBatch

LEMMA InsertBatchKeepsInv ==
  ASSUME IngestInv, NEW i \in Processes, InsertBatch(i)
  PROVE  IngestInv'
<1> DEFINE q == ingest[i]
           h == [q EXCEPT !.pc = "spec"]
<1>1. q \in NewIngests /\ Busy(i) /\ q.pc = "insert"
  BY HeldByProgress DEF InsertBatch, Busy
<1>2. /\ h \in NewIngests /\ h.pc = "spec"
      /\ h.payload = q.payload /\ h.count = q.count
  BY <1>1 DEF NewIngests
<1>3. BoundedBy(q, counted, posted) /\ (~overlapped => ExactBy(q, batches, observed))
  BY HeldByProgress
<1>4. /\ IsIngest(h) /\ BoundedBy(h, counted, posted)
      /\ ~overlapped => ExactBy(h, batches, observed)
  BY <1>1, <1>2, <1>3 DEF IsIngest, BoundedBy, ExactBy, Holding
<1>5. ingest' = [ingest EXCEPT ![i] = h]
  BY DEF InsertBatch, IngestInv, TypeOK
<1> HIDE DEF h
<1> QED
  BY <1>1, <1>4, <1>5, BusyGoesOn DEF InsertBatch

LEMMA GroupKeepsInv ==
  ASSUME IngestInv, NEW i \in Processes, Group(i)
  PROVE  IngestInv'
<1> DEFINE q == ingest[i]
<1>1. q \in NewIngests /\ Busy(i) /\ q.pc = "spec"
  BY HeldByProgress DEF Group, Busy
<1>2. PICK spec \in Specs :
        ingest' = [ingest EXCEPT ![i] =
          [pc |-> "read", payload |-> @.payload, caller |-> @.caller, count |-> @.count,
           spec |-> spec, endpoint |-> None, row |-> NoRow,
           written |-> [e \in Endpoints |-> NoRow]]]
  BY DEF Group
<1> DEFINE h == [pc |-> "read", payload |-> q.payload, caller |-> q.caller,
                 count |-> q.count, spec |-> spec, endpoint |-> None, row |-> NoRow,
                 written |-> [e \in Endpoints |-> NoRow]]
<1>3. IsGroupedIngest(h)
  BY <1>1 DEF IsGroupedIngest, NewIngests, IsRow, NoRow
<1>4. \A e \in Endpoints : ~Holding(h, e)
  BY DEF Holding
<1>5. /\ q.count # None => q.count <= posted[q.payload]
      /\ ~overlapped => q.count = batches[q.payload]
  BY <1>1, HeldByProgress DEF BoundedBy, ExactBy
<1>6. /\ IsIngest(h) /\ BoundedBy(h, counted, posted)
      /\ ~overlapped => ExactBy(h, batches, observed)
  <2>1. h.pc = "read" /\ h.payload = q.payload /\ h.count = q.count
    OBVIOUS
  <2> HIDE DEF h
  <2> QED
    BY <1>3, <1>4, <1>5, <2>1 DEF IsIngest, BoundedBy, ExactBy
<1>7. ingest' = [ingest EXCEPT ![i] = h]
  BY <1>2
<1> HIDE DEF h
<1> QED
  BY <1>1, <1>6, <1>7, BusyGoesOn DEF Group

\* The fields of an ingest that has its groups.
LEMMA GroupedFields ==
  ASSUME IngestInv, NEW i \in Processes, HasSpec(i)
  PROVE  LET h == ingest[i] IN
         /\ IsGroupedIngest(h) /\ Busy(i)
         /\ h.payload \in Payloads /\ h.spec \in Specs /\ h.caller \in Callers
         /\ IsRow(h.row) /\ DOMAIN h.written = Endpoints
         /\ \A e : HoldsEndpoint(i, e) <=> Holding(h, e)
         /\ Named(h.payload, h.spec) \subseteq Endpoints
<1>1. IsGroupedIngest(ingest[i])
  BY HeldByProgress
<1>2. ingest[i].payload \in Payloads /\ ingest[i].spec \in Specs
  BY <1>1 DEF IsGroupedIngest
<1> QED
  BY <1>1, <1>2, NamedAreEndpoints DEF IsGroupedIngest, HasSpec, Busy, HoldsEndpoint, Holding

LEMMA ReadEndpointKeepsInv ==
  ASSUME IngestInv, NEW i \in Processes, ReadEndpoint(i)
  PROVE  IngestInv'
<1> DEFINE q == ingest[i]
           e == Target(i)
<1>1. HasSpec(i) /\ q.pc = "read"
  BY DEF ReadEndpoint, HasSpec
<1>2. /\ IsGroupedIngest(q) /\ Busy(i)
      /\ q.payload \in Payloads /\ q.spec \in Specs
      /\ Named(q.payload, q.spec) \subseteq Endpoints
      /\ \A f : HoldsEndpoint(i, f) <=> Holding(q, f)
  BY <1>1, GroupedFields
<1>3. BoundedBy(q, counted, posted) /\ (~overlapped => ExactBy(q, batches, observed))
  BY HeldByProgress
<1>4. CASE HasGroup(i)
  <2> DEFINE h == [q EXCEPT !.pc = "write", !.endpoint = e, !.row = observed[e]]
  <2>1. e \in Named(q.payload, q.spec) /\ e \in Endpoints
    BY <1>2, <1>4, TargetIsLeft
  <2>2. /\ h.pc = "write" /\ h.endpoint = e /\ h.row = observed[e]
        /\ h.payload = q.payload /\ h.spec = q.spec /\ h.caller = q.caller
        /\ h.count = q.count /\ h.written = q.written
        /\ DOMAIN h = DOMAIN q
    BY <1>2 DEF IsGroupedIngest
  <2>3. ingest' = [ingest EXCEPT ![i] = h]
    BY <1>4 DEF ReadEndpoint, IngestInv, TypeOK
  <2> HIDE DEF h
  <2>4. IsRow(observed[e]) /\ observed[e].samples <= counted[e]
    BY <2>1 DEF IngestInv, TypeOK, CountsAreBounded
  <2>5. IsGroupedIngest(h)
    BY <1>2, <2>1, <2>2, <2>4 DEF IsGroupedIngest
  <2>6. \A f : Holding(h, f) <=> Holding(q, f)
    BY <1>1, <2>2 DEF Holding
  <2>7. BoundedBy(h, counted, posted)
    BY <1>1, <1>3, <2>1, <2>2, <2>4, <2>6 DEF BoundedBy
  <2>8. ~overlapped => ExactBy(h, batches, observed)
    BY <1>1, <1>3, <2>2, <2>6 DEF ExactBy
  <2> QED
    BY <1>2, <2>3, <2>5, <2>7, <2>8, BusyGoesOn DEF ReadEndpoint, IsIngest
<1>5. CASE ~HasGroup(i)
  <2> DEFINE h == [q EXCEPT !.pc = "commit"]
  <2>1. /\ h.pc = "commit" /\ h.endpoint = q.endpoint /\ h.row = q.row
        /\ h.payload = q.payload /\ h.spec = q.spec /\ h.caller = q.caller
        /\ h.count = q.count /\ h.written = q.written
        /\ DOMAIN h = DOMAIN q
    BY <1>2 DEF IsGroupedIngest
  <2>2. ingest' = [ingest EXCEPT ![i] = h]
    BY <1>5 DEF ReadEndpoint, IngestInv, TypeOK
  <2> HIDE DEF h
  <2>3. IsGroupedIngest(h)
    BY <1>2, <2>1 DEF IsGroupedIngest
  <2>4. \A f : Holding(h, f) <=> Holding(q, f)
    BY <1>1, <2>1 DEF Holding
  <2>5. \A f \in Named(q.payload, q.spec) : Holding(q, f)
    BY <1>2, <1>5 DEF HasGroup, Left, Named
  <2>6. BoundedBy(h, counted, posted)
    BY <1>1, <1>3, <2>1, <2>4, <2>5 DEF BoundedBy
  <2>7. ~overlapped => ExactBy(h, batches, observed)
    BY <1>1, <1>3, <2>1, <2>4 DEF ExactBy
  <2> QED
    BY <1>2, <2>2, <2>3, <2>6, <2>7, BusyGoesOn DEF ReadEndpoint, IsIngest
<1> QED
  BY <1>4, <1>5

LEMMA WriteEndpointKeepsInv ==
  ASSUME IngestInv, NEW i \in Processes, WriteEndpoint(i)
  PROVE  IngestInv'
<1> DEFINE q == ingest[i]
           e == q.endpoint
           new == RecordsAt(q.payload, q.spec, e)
           row == Refined(q.row, Pending(i))
           h == [q EXCEPT !.pc = "read", !.endpoint = None, !.row = NoRow,
                          !.written = [@ EXCEPT ![e] = row]]
<1>1. HasSpec(i) /\ q.pc = "write"
  BY DEF WriteEndpoint, HasSpec
<1>2. /\ IsGroupedIngest(q) /\ Busy(i)
      /\ q.payload \in Payloads /\ q.spec \in Specs
      /\ IsRow(q.row) /\ DOMAIN q.written = Endpoints
      /\ Named(q.payload, q.spec) \subseteq Endpoints
  BY <1>1, GroupedFields
<1>3. BoundedBy(q, counted, posted) /\ (~overlapped => ExactBy(q, batches, observed))
  BY HeldByProgress
<1>4. e \in Named(q.payload, q.spec) /\ e \in Endpoints /\ q.row.samples <= counted[e]
  BY <1>1, <1>2, <1>3 DEF BoundedBy
<1>5. new \in Nat \ {0} /\ counted[e] \in Nat /\ q.row.samples \in Nat
  BY <1>2, <1>4, RecordsAtNamed DEF IngestInv, TypeOK, IsRow
<1>6. Pending(i).samples = new
  BY <1>2, <1>4, GroupsHoldRecords DEF Pending
<1>7. IsWritten(row) /\ row.samples = q.row.samples + new
  BY <1>5, <1>6 DEF Refined, IsWritten
<1>8. row # NoRow
  BY <1>5, <1>7 DEF NoRow
<1>9. /\ h.pc = "read" /\ h.endpoint = None /\ h.row = NoRow
      /\ h.payload = q.payload /\ h.spec = q.spec /\ h.caller = q.caller
      /\ h.count = q.count /\ DOMAIN h = DOMAIN q
      /\ h.written = [q.written EXCEPT ![e] = row]
  BY <1>2 DEF IsGroupedIngest
<1>10. ingest' = [ingest EXCEPT ![i] = h]
  BY DEF WriteEndpoint, IngestInv, TypeOK
<1> HIDE DEF h, row, new
<1>11. /\ h.written[e] = row /\ DOMAIN h.written = Endpoints
       /\ \A f \in Endpoints \ {e} : h.written[f] = q.written[f]
  BY <1>2, <1>4, <1>9
<1>12. \A f \in Endpoints : h.written[f] = NoRow \/ IsWritten(h.written[f])
  BY <1>2, <1>7, <1>11 DEF IsGroupedIngest
<1>13. IsGroupedIngest(h)
  BY <1>2, <1>9, <1>11, <1>12 DEF IsGroupedIngest, IsRow, NoRow
<1>14. \A f \in Endpoints \ {e} : Holding(h, f) <=> Holding(q, f)
  BY <1>1, <1>9, <1>11 DEF Holding
<1>15. BoundedBy(h, counted, posted)
  <2>1. ASSUME NEW f \in Endpoints, Holding(h, f)
        PROVE  /\ f \in Named(h.payload, h.spec)
               /\ RecordsAt(h.payload, h.spec, f) <= h.written[f].samples
               /\ h.written[f].samples <= counted[f] + RecordsAt(h.payload, h.spec, f)
    <3>1. CASE f = e
      BY <1>4, <1>5, <1>7, <1>9, <1>11, <3>1 DEF new
    <3>2. CASE f # e
      BY <1>3, <1>9, <1>11, <1>14, <2>1, <3>2 DEF BoundedBy
    <3> QED
      BY <3>1, <3>2
  <2> QED
    BY <1>1, <1>3, <1>9, <2>1 DEF BoundedBy
<1>16. ASSUME ~overlapped PROVE ExactBy(h, batches, observed)
  <2>1. ASSUME NEW f \in Endpoints, Holding(h, f)
        PROVE  h.written[f].samples =
                 observed[f].samples + RecordsAt(h.payload, h.spec, f)
    <3>1. CASE f = e
      BY <1>1, <1>3, <1>7, <1>9, <1>11, <1>16, <3>1 DEF new, ExactBy
    <3>2. CASE f # e
      BY <1>3, <1>9, <1>11, <1>14, <1>16, <2>1, <3>2 DEF ExactBy
    <3> QED
      BY <3>1, <3>2
  <2> QED
    BY <1>1, <1>3, <1>9, <1>16, <2>1 DEF ExactBy
<1> QED
  BY <1>2, <1>10, <1>13, <1>15, <1>16, BusyGoesOn DEF WriteEndpoint, IsIngest

-----------------------------------------------------------------------------
\* A commit.

\* What an ingest holds stays within bounds when others commit.
LEMMA BoundsGrow ==
  ASSUME NEW h, IsIngest(h),
         NEW count \in [Endpoints -> Nat], NEW more \in [Endpoints -> Nat],
         NEW post \in [Payloads -> Nat], NEW later \in [Payloads -> Nat],
         \A e \in Endpoints : count[e] <= more[e],
         \A p \in Payloads : post[p] <= later[p],
         BoundedBy(h, count, post)
  PROVE  BoundedBy(h, more, later)
<1>1. CASE h = IdleIngest
  BY <1>1, IdleHoldsNothing
<1>2. CASE h \in NewIngests
  BY <1>2 DEF NewIngests, BoundedBy, Holding
<1>3. CASE IsGroupedIngest(h)
  <2>1. /\ h.payload \in Payloads /\ h.spec \in Specs /\ h.count \in Nat \cup {None}
        /\ h.row.samples \in Nat /\ h.pc # "idle"
        /\ \A e \in Endpoints : h.written[e] # NoRow => h.written[e].samples \in Nat
    BY <1>3 DEF IsGroupedIngest, IsRow, IsWritten
  <2>2. h.count # None => h.count <= later[h.payload]
    BY <2>1 DEF BoundedBy
  <2>3. h.pc = "write" => /\ h.endpoint \in Named(h.payload, h.spec)
                          /\ h.row.samples <= more[h.endpoint]
    BY <2>1, NamedAreEndpoints DEF BoundedBy
  <2>4. ASSUME NEW e \in Endpoints, Holding(h, e)
        PROVE  h.written[e].samples <= more[e] + RecordsAt(h.payload, h.spec, e)
    <3>1. /\ RecordsAt(h.payload, h.spec, e) \in Nat
          /\ h.written[e].samples \in Nat
          /\ h.written[e].samples <= count[e] + RecordsAt(h.payload, h.spec, e)
      BY <2>1, <2>4, RecordsAtNamed DEF BoundedBy, Holding
    <3> QED
      BY <3>1
  <2> QED
    BY <2>2, <2>3, <2>4 DEF BoundedBy
<1> QED
  BY <1>1, <1>2, <1>3 DEF IsIngest

LEMMA IdleIsIdle ==
  ASSUME NEW h, IsIngest(h), h.pc = "idle"
  PROVE  h = IdleIngest
BY DEF IsIngest, NewIngests, IsGroupedIngest

\* What a commit adds to the counters.
LEMMA CommitCounts ==
  ASSUME IngestInv, NEW i \in Processes, CommitIngest(i)
  PROVE  LET p == ingest[i].payload
             spec == ingest[i].spec
             size == Len(Records[p])
         IN /\ p \in Payloads /\ spec \in Specs /\ size \in Nat \ {0}
            /\ \A e \in Endpoints :
                 /\ RecordsAt(p, spec, e) \in Nat
                 /\ counted'[e] = counted[e] + RecordsAt(p, spec, e)
                 /\ HoldsEndpoint(i, e) <=> RecordsAt(p, spec, e) # 0
            /\ posted' = [posted EXCEPT ![p] = @ + size]
            /\ counted' \in [Endpoints -> Nat] /\ posted' \in [Payloads -> Nat]
            /\ \A e \in Endpoints : counted[e] <= counted'[e]
            /\ \A q \in Payloads : posted[q] <= posted'[q]
<1> DEFINE p == ingest[i].payload
           spec == ingest[i].spec
           size == Len(Records[p])
<1>1. HasSpec(i) /\ ingest[i].pc = "commit"
  BY DEF CommitIngest, HasSpec
<1>2. /\ p \in Payloads /\ spec \in Specs
      /\ \A e : HoldsEndpoint(i, e) <=> Holding(ingest[i], e)
  BY <1>1, GroupedFields
<1>3. size \in Nat \ {0}
  BY <1>2, PayloadsHaveRecords
<1>4. counted \in [Endpoints -> Nat] /\ posted \in [Payloads -> Nat]
  BY DEF IngestInv, TypeOK
<1>5. /\ counted' = [e \in Endpoints |-> counted[e] + RecordsAt(p, spec, e)]
      /\ posted' = [posted EXCEPT ![p] = @ + size]
  BY DEF CommitIngest
<1>6. BoundedBy(ingest[i], counted, posted)
  BY HeldByProgress
<1>7. ASSUME NEW e \in Endpoints
      PROVE  /\ RecordsAt(p, spec, e) \in Nat
             /\ counted'[e] = counted[e] + RecordsAt(p, spec, e)
             /\ HoldsEndpoint(i, e) <=> RecordsAt(p, spec, e) # 0
  <2>1. e \in Named(p, spec) <=> Holding(ingest[i], e)
    BY <1>1, <1>6 DEF BoundedBy
  <2> QED
    BY <1>2, <1>5, <2>1, RecordsAtNamed
<1>8. counted' \in [Endpoints -> Nat] /\ \A e \in Endpoints : counted[e] <= counted'[e]
  BY <1>4, <1>5, <1>7
<1>9. posted' \in [Payloads -> Nat] /\ \A q \in Payloads : posted[q] <= posted'[q]
  BY <1>2, <1>3, <1>4, <1>5
<1> QED
  BY <1>2, <1>3, <1>5, <1>7, <1>8, <1>9

LEMMA CommitKeepsHeld ==
  ASSUME IngestInv, NEW i \in Processes, CommitIngest(i)
  PROVE  HeldIsBounded' /\ AloneIsExact'
<1>1. /\ ingest'[i] = IdleIngest
      /\ \A j \in Processes \ {i} : ingest'[j] = ingest[j]
  BY DEF CommitIngest, IngestInv, TypeOK
<1>2. Busy(i)
  BY DEF CommitIngest, Busy
<1>3. HeldIsBounded'
  <2> SUFFICES ASSUME NEW j \in Processes
               PROVE  BoundedBy(ingest'[j], counted', posted')
    BY DEF HeldIsBounded
  <2>1. CASE j = i
    BY <1>1, <2>1, IdleHoldsNothing
  <2>2. CASE j # i
    <3>1. IsIngest(ingest[j]) /\ BoundedBy(ingest[j], counted, posted)
      BY HeldByProgress
    <3>2. counted \in [Endpoints -> Nat] /\ posted \in [Payloads -> Nat]
      BY DEF IngestInv, TypeOK
    <3>3. BoundedBy(ingest[j], counted', posted')
      BY <3>1, <3>2, CommitCounts, BoundsGrow
    <3> QED
      BY <1>1, <2>2, <3>3
  <2> QED
    BY <2>1, <2>2
<1>4. ASSUME ~overlapped', NEW j \in Processes
      PROVE  ingest'[j] = IdleIngest
  <2>1. ~overlapped
    BY <1>4 DEF CommitIngest
  <2>2. j # i => ~Busy(j)
    BY <1>2, <2>1, HeldByProgress
  <2>3. j # i => ingest[j] = IdleIngest
    BY <2>2, HeldByProgress, IdleIsIdle DEF Busy
  <2> QED
    BY <1>1, <2>3
<1>5. AloneIsExact'
  <2> SUFFICES ASSUME ~overlapped'
               PROVE  /\ \A j \in Processes : ~Busy(j)'
                      /\ \A j \in Processes : ExactBy(ingest'[j], batches', observed')
    BY DEF AloneIsExact
  <2>1. \A j \in Processes : ingest'[j] = IdleIngest
    BY <1>4
  <2>2. ExactBy(IdleIngest, batches', observed')
    BY IdleHoldsNothing
  <2> QED
    BY <2>1, <2>2 DEF Busy, IdleIngest
<1> QED
  BY <1>3, <1>5

LEMMA CommitKeepsTypes ==
  ASSUME IngestInv, NEW i \in Processes, CommitIngest(i)
  PROVE  RegistryInv' /\ TypeOK'
<1> DEFINE q == ingest[i]
<1>1. HasSpec(i)
  BY DEF CommitIngest, HasSpec
<1>2. /\ IsGroupedIngest(q) /\ q.payload \in Payloads /\ q.spec \in Specs
      /\ q.caller \in Callers
      /\ \A e : HoldsEndpoint(i, e) <=> Holding(q, e)
  BY <1>1, GroupedFields
<1>3. RegistryInv'
  BY DEF CommitIngest, IngestInv, RegistryInv, RegistryTypeOK, ContractsAreBacked,
         UploadsAgree, Stored, Decided, Holds, Inserts, registry
<1>4. batches' \in [Payloads -> Nat \cup {None}]
  <2>1. /\ Len(Records[q.payload]) \in Nat /\ q.count \in Nat \cup {None}
        /\ batches \in [Payloads -> Nat \cup {None}]
    BY <1>2, PayloadsHaveRecords DEF IsGroupedIngest, IngestInv, TypeOK
  <2>2. (IF q.count = None THEN 0 ELSE q.count) \in Nat
    BY <2>1
  <2>3. Len(Records[q.payload]) + (IF q.count = None THEN 0 ELSE q.count) \in Nat
    BY <2>1, <2>2
  <2> QED
    BY <2>1, <2>3 DEF CommitIngest
<1>5. DOMAIN observed' = Endpoints /\ \A e \in Endpoints : IsRow(observed'[e])
  <2>1. DOMAIN observed' = Endpoints
    BY DEF CommitIngest
  <2>2. ASSUME NEW e \in Endpoints
        PROVE  IsRow(observed'[e])
    <3>1. CASE ~HoldsEndpoint(i, e)
      BY <3>1 DEF CommitIngest, IngestInv, TypeOK
    <3>2. CASE HoldsEndpoint(i, e)
      <4>1. q.written[e].samples \in Nat
        BY <1>2, <3>2 DEF IsGroupedIngest, IsWritten, Holding
      <4> QED
        BY <3>2, <4>1 DEF CommitIngest, IsRow
    <3> QED
      BY <3>1, <3>2
  <2> QED
    BY <2>1, <2>2
<1>6. usages' \in [Payloads -> [Callers -> [Endpoints -> Nat]]]
  <2>1. ASSUME NEW p \in Payloads, NEW c \in Callers, NEW e \in Endpoints
        PROVE  UsagesAfter(i, p, c, e) \in Nat
    <3>1. usages[p][c][e] \in Nat /\ UsesAt(p, q.spec, e) \in Nat
      BY <1>2, UsesAreCounts DEF IngestInv, TypeOK
    <3> QED
      BY <3>1 DEF UsagesAfter
  <2> QED
    BY <2>1 DEF CommitIngest
<1>7. committed' \subseteq [payload : Payloads, caller : Callers, spec : Specs]
  BY <1>2 DEF CommitIngest, IngestInv, TypeOK
<1>8. DOMAIN ingest' = Processes /\ \A j \in Processes : IsIngest(ingest'[j])
  BY DEF CommitIngest, IngestInv, TypeOK, IsIngest
<1>9. /\ counted' \in [Endpoints -> Nat] /\ posted' \in [Payloads -> Nat]
      /\ received' \in 0..MaxIngests /\ overlapped' \in BOOLEAN
  BY CommitCounts DEF CommitIngest, IngestInv, TypeOK
<1> QED
  BY <1>3, <1>4, <1>5, <1>6, <1>7, <1>8, <1>9 DEF TypeOK, IsIngest, RegistryInv

LEMMA CommitKeepsCounts ==
  ASSUME IngestInv, NEW i \in Processes, CommitIngest(i)
  PROVE  CountsAreBounded' /\ SerialCountsAreExact'
<1> DEFINE q == ingest[i]
           p == q.payload
           spec == q.spec
           size == Len(Records[p])
           new(e) == RecordsAt(p, spec, e)
<1>1. HasSpec(i) /\ q.pc = "commit"
  BY DEF CommitIngest, HasSpec
<1>2. /\ IsGroupedIngest(q)
      /\ \A e : HoldsEndpoint(i, e) <=> Holding(q, e)
  BY <1>1, GroupedFields
<1>3. /\ p \in Payloads /\ spec \in Specs /\ size \in Nat \ {0}
      /\ \A e \in Endpoints : /\ new(e) \in Nat
                              /\ counted'[e] = counted[e] + new(e)
                              /\ HoldsEndpoint(i, e) <=> new(e) # 0
      /\ posted' = [posted EXCEPT ![p] = @ + size]
  BY CommitCounts
<1>4. BoundedBy(q, counted, posted) /\ (~overlapped => ExactBy(q, batches, observed))
  BY HeldByProgress
<1>5. /\ counted \in [Endpoints -> Nat] /\ posted \in [Payloads -> Nat]
      /\ \A e \in Endpoints : IsRow(observed[e])
      /\ batches \in [Payloads -> Nat \cup {None}]
  BY DEF IngestInv, TypeOK
<1>6. None \notin Nat
  BY IngestAssumption
<1>7. /\ batches' = [batches EXCEPT ![p] =
           size + IF q.count = None THEN 0 ELSE q.count]
      /\ q.count \in Nat \cup {None}
  BY <1>2 DEF CommitIngest, IsGroupedIngest
<1>8. ASSUME NEW e \in Endpoints, HoldsEndpoint(i, e)
      PROVE  /\ observed'[e].samples = q.written[e].samples
             /\ q.written[e].samples \in Nat
             /\ new(e) <= q.written[e].samples
             /\ q.written[e].samples <= counted[e] + new(e)
             /\ ~overlapped => q.written[e].samples = observed[e].samples + new(e)
  <2>1. Holding(q, e) /\ q.written[e].samples \in Nat
    BY <1>2, <1>8 DEF IsGroupedIngest, IsWritten, Holding
  <2>2. observed'[e].samples = q.written[e].samples
    BY <1>8 DEF CommitIngest
  <2> QED
    BY <1>4, <2>1, <2>2 DEF BoundedBy, ExactBy
<1>9. ASSUME NEW e \in Endpoints, ~HoldsEndpoint(i, e)
      PROVE  observed'[e] = observed[e] /\ new(e) = 0 /\ counted'[e] = counted[e]
  BY <1>3, <1>5, <1>9 DEF CommitIngest
<1> HIDE DEF new, size
<1>10. ASSUME NEW e \in Endpoints
       PROVE  /\ observed'[e] = NoRow <=> counted'[e] = 0
              /\ observed'[e].samples <= counted'[e]
  <2>1. CASE HoldsEndpoint(i, e)
    <3>1. observed'[e].samples <= counted'[e]
      BY <1>3, <1>8, <2>1
    <3>2. observed'[e].samples # 0 /\ counted'[e] # 0
      BY <1>3, <1>5, <1>8, <2>1
    <3> QED
      BY <3>1, <3>2 DEF NoRow
  <2>2. CASE ~HoldsEndpoint(i, e)
    BY <1>9, <2>2 DEF IngestInv, CountsAreBounded
  <2> QED
    BY <2>1, <2>2
<1>11. ASSUME NEW r \in Payloads
       PROVE  /\ batches'[r] = None <=> posted'[r] = 0
              /\ batches'[r] # None => batches'[r] <= posted'[r]
  <2>1. CASE r = p
    <3>1. batches'[r] = size + (IF q.count = None THEN 0 ELSE q.count)
          /\ posted'[r] = posted[r] + size
      BY <1>3, <1>5, <1>7, <2>1
    <3>2. q.count # None => q.count <= posted[r]
      BY <1>1, <1>4, <2>1 DEF BoundedBy
    <3>3. batches'[r] \in Nat /\ batches'[r] <= posted'[r] /\ posted'[r] # 0
      BY <1>3, <1>5, <1>7, <3>1, <3>2
    <3> QED
      BY <1>6, <3>3
  <2>2. CASE r # p
    BY <1>3, <1>5, <1>7, <2>2 DEF IngestInv, CountsAreBounded
  <2> QED
    BY <2>1, <2>2
<1>12. ASSUME ~overlapped', NEW e \in Endpoints
       PROVE  observed'[e].samples = counted'[e]
  <2>1. ~overlapped /\ observed[e].samples = counted[e]
    BY <1>12 DEF CommitIngest, IngestInv, SerialCountsAreExact
  <2> QED
    BY <1>3, <1>8, <1>9, <2>1
<1>13. ASSUME ~overlapped', NEW r \in Payloads
       PROVE  batches'[r] = IF posted'[r] = 0 THEN None ELSE posted'[r]
  <2>1. ~overlapped
    BY <1>13 DEF CommitIngest
  <2>2. batches[r] = IF posted[r] = 0 THEN None ELSE posted[r]
    BY <2>1 DEF IngestInv, SerialCountsAreExact
  <2>3. CASE r = p
    <3>1. q.count = batches[r]
      BY <1>1, <1>4, <2>1, <2>3 DEF ExactBy
    <3>2. (IF q.count = None THEN 0 ELSE q.count) = posted[r]
      BY <1>5, <1>6, <2>2, <3>1
    <3>3. batches'[r] = size + posted[r] /\ posted'[r] = posted[r] + size
      BY <1>3, <1>5, <1>7, <2>3, <3>2
    <3> QED
      BY <1>3, <1>5, <3>3
  <2>4. CASE r # p
    BY <1>3, <1>5, <1>7, <2>2, <2>4
  <2> QED
    BY <2>3, <2>4
<1> QED
  BY <1>10, <1>11, <1>12, <1>13 DEF CountsAreBounded, SerialCountsAreExact

LEMMA CommitKeepsUsages ==
  ASSUME IngestInv, NEW i \in Processes, CommitIngest(i)
  PROVE  UsagesAreWhole'
<1> DEFINE counts(p, c, e) == {UsesAt(p, s, e) : s \in CommittedUnder(p, c)} \ {0}
           Whole(p, c, e) == IF counts(p, c, e) = {} THEN usages[p][c][e] = 0
                             ELSE usages[p][c][e] \in counts(p, c, e)
           q == ingest[i]
<1> SUFFICES ASSUME NEW p \in Payloads, NEW c \in Clients, NEW e \in Endpoints
             PROVE  Whole(p, c, e)'
  BY DEF UsagesAreWhole
<1>1. Whole(p, c, e)
  BY DEF IngestInv, UsagesAreWhole
<1>2. c \in Callers /\ c # Anonymous
  BY IngestAssumption DEF Callers
<1>3. usages'[p][c][e] = UsagesAfter(i, p, c, e)
  BY <1>2 DEF CommitIngest
<1>4. q.spec \in Specs
  BY GroupedFields DEF CommitIngest, HasSpec
<1>5. committed' = committed \cup {[payload |-> q.payload, caller |-> q.caller,
                                   spec |-> q.spec]}
  BY DEF CommitIngest
<1>6. CASE p # q.payload \/ c # q.caller
  <2>1. CommittedUnder(p, c)' = CommittedUnder(p, c)
    BY <1>5, <1>6 DEF CommittedUnder
  <2>2. usages'[p][c][e] = usages[p][c][e]
    BY <1>3, <1>6 DEF UsagesAfter
  <2> QED
    BY <1>1, <2>1, <2>2
<1>7. CASE p = q.payload /\ c = q.caller
  <2>1. CommittedUnder(p, c)' = CommittedUnder(p, c) \cup {q.spec}
    BY <1>4, <1>5, <1>7 DEF CommittedUnder
  <2>2. usages'[p][c][e] = IF usages[p][c][e] = 0 THEN UsesAt(p, q.spec, e)
                           ELSE usages[p][c][e]
    BY <1>2, <1>3, <1>7 DEF UsagesAfter
  <2>3. counts(p, c, e)' = counts(p, c, e) \cup ({UsesAt(p, q.spec, e)} \ {0})
    BY <2>1
  <2> QED
    BY <1>1, <2>2, <2>3
<1> QED
  BY <1>6, <1>7

-----------------------------------------------------------------------------
LEMMA IngestStepKeepsInv ==
  ASSUME IngestInv, NEW i \in Processes, IngestStep(i)
  PROVE  IngestInv'
<1>1. CASE FindBatch(i)
  BY <1>1, FindBatchKeepsInv
<1>2. CASE InsertBatch(i)
  BY <1>2, InsertBatchKeepsInv
<1>3. CASE BatchConflict(i)
  BY <1>3, AbortKeepsInv DEF BatchConflict, Busy
<1>4. CASE Group(i)
  BY <1>4, GroupKeepsInv
<1>5. CASE ReadEndpoint(i)
  BY <1>5, ReadEndpointKeepsInv
<1>6. CASE WriteEndpoint(i)
  BY <1>6, WriteEndpointKeepsInv
<1>7. CASE EndpointConflict(i)
  BY <1>7, AbortKeepsInv DEF EndpointConflict, Busy
<1>8. CASE CommitIngest(i)
  BY <1>8, CommitKeepsTypes, CommitKeepsHeld, CommitKeepsCounts, CommitKeepsUsages
     DEF IngestInv
<1>9. CASE BreakDeadlock(i)
  BY <1>9, AbortKeepsInv DEF BreakDeadlock, WaitsFor, Busy
<1> QED
  BY <1>1, <1>2, <1>3, <1>4, <1>5, <1>6, <1>7, <1>8, <1>9 DEF IngestStep

LEMMA IngestInvariant == Spec => []IngestInv
<1>1. ASSUME IngestInv, Next
      PROVE  IngestInv'
  <2>1. CASE RegistryNext /\ UNCHANGED <<tables, ingest, received, history>>
    BY <1>1, <2>1, RegistryStepKeepsIngestInv
  <2>2. ASSUME NEW i \in Processes, NEW p \in Payloads, NEW c \in Callers, Receive(i, p, c)
        PROVE  IngestInv'
    BY <1>1, <2>2, ReceiveKeepsInv
  <2>3. ASSUME NEW i \in Processes, IngestStep(i)
        PROVE  IngestInv'
    BY <1>1, <2>3, IngestStepKeepsInv
  <2>4. ASSUME NEW i \in Processes, LoseIngest(i)
        PROVE  IngestInv'
    BY <1>1, <2>4, AbortKeepsInv DEF LoseIngest
  <2> QED
    BY <1>1, <2>1, <2>2, <2>3, <2>4 DEF Next
<1>2. ASSUME IngestInv, UNCHANGED vars
      PROVE  IngestInv'
  <2>1. UNCHANGED <<registry, tables, ingest, received, history>>
    BY <1>2 DEF vars
  <2>2. RegistryInv'
    BY <1>2, <2>1 DEF IngestInv, RegistryInv, RegistryTypeOK, ContractsAreBacked,
       UploadsAgree, Stored, Decided, Holds, Inserts, registry
  <2>3. TypeOK'
    BY <1>2, <2>1, <2>2 DEF IngestInv, TypeOK, tables, history, counters, RegistryInv
  <2>4. HeldIsBounded' /\ AloneIsExact'
    BY <1>2, <2>1
       DEF IngestInv, HeldIsBounded, AloneIsExact, Busy, tables, history, counters
  <2> QED
    BY <1>2, <2>1, <2>2, <2>3, <2>4, CountersStay DEF IngestInv, history
<1> QED
  BY InitIngestInv, <1>1, <1>2, PTL DEF Spec

\* Every reachable state is type correct, whatever InferSchema and MergeSchemas
\* return.
THEOREM IngestIsTyped == Spec => []TypeOK
<1>1. IngestInv => TypeOK
  BY DEF IngestInv
<1> QED
  BY IngestInvariant, <1>1, PTL

\* However often and under whatever specifications a client's payload is sent,
\* and whatever fails, each of its field usages is counted once or not at all.
THEOREM UsagesStayWhole == Spec => []UsagesAreWhole
<1>1. IngestInv => UsagesAreWhole
  BY DEF IngestInv
<1> QED
  BY IngestInvariant, <1>1, PTL

\* Until two ingests overlap, the counters of endpoints and batches are those of
\* the records that were committed.
THEOREM SerialCountsStayExact == Spec => []SerialCountsAreExact
<1>1. IngestInv => SerialCountsAreExact
  BY DEF IngestInv
<1> QED
  BY IngestInvariant, <1>1, PTL

\* Whatever overlaps, no counter exceeds what was committed, and no endpoint or
\* batch is there of which nothing was committed.
THEOREM CountsStayBounded == Spec => []CountsAreBounded
<1>1. IngestInv => CountsAreBounded
  BY DEF IngestInv
<1> QED
  BY IngestInvariant, <1>1, PTL
=============================================================================
