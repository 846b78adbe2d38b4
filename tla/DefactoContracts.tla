--------------------------- MODULE DefactoContracts ---------------------------
(***************************************************************************)
(* What the ingests of Ingest come to: the stored schemas, and the         *)
(* de-facto contract (traffic/defacto.py), which is stored with each ingest *)
(* and read by nobody there, so it is an operator of the ingest that is    *)
(* about to commit. InferSchema and MergeSchemas stand for infer_schema    *)
(* and merge_json_schemas of SchemaMerge.                                  *)
(***************************************************************************)
EXTENDS Ingest, SchemaMerge

\* The operations that a specification declares, with their schemas.
StaticSchemas ==
  [spec \in Specs |->
     LET items == PathItems[spec]
         operations == UNION {[method : items[i].methods, path : {items[i].template}] :
                                i \in DOMAIN items}
     IN [e \in {f \in Endpoints : NameOf[f] \in operations} |->
           items[CHOOSE i \in DOMAIN items : items[i].template = NameOf[e].path].schema]]

\* The static operations with the schemas of the endpoints of this payload, as
\* they are in the session.
Contract(i) ==
  build_defacto_contract(
    StaticSchemas[ingest[i].spec],
    [e \in {f \in Endpoints : HoldsEndpoint(i, f)} |-> ingest[i].written[e].schema])

-----------------------------------------------------------------------------
\* The groups that were committed of an endpoint, and their bodies.
GroupsCommitted(e) ==
  {GroupsOf(k.payload, k.spec)[e] : k \in {c \in committed : e \in Named(c.payload, c.spec)}}
BodiesOf(e) == UNION {Range(group.bodies) : group \in GroupsCommitted(e)}
ObservedFields(e) == UNION {FieldsOf(group.bodies) : group \in GroupsCommitted(e)}

\* Whatever overlaps, the stored schema of an endpoint has no field that no
\* committed body had. Refined by one ingest after another it knows every field
\* and accepts every body they saw, if the schema of each says one type, no enum
\* and some required field of every object, and no two of them differ in a type.
\* Without any of these it does not: the types and enums of the last ingest
\* replace those before it, and a required field of one ingest is kept beside an
\* ingest that requires none (_merge.py:26-67).
SchemaAcceptsBodies ==
  \A e \in Endpoints :
    LET known == FieldNames(observed[e].schema)
        schemas == {group.schema : group \in GroupsCommitted(e)} \ {EmptySchema}
    IN /\ known \subseteq ObservedFields(e)
       /\ (~overlapped /\ \A s \in schemas : IsExact(s) /\ \A t \in schemas : Agree(s, t))
            => /\ known = ObservedFields(e)
               /\ \A body \in BodiesOf(e) : Accepts(observed[e].schema, body)

\* The de-facto contract of an ingest has every operation and every field of the
\* specification it was made from, whatever the traffic had in their place.
\* defacto.py:13-14 promises it of all fields; but those below a schema that
\* does not say it is of objects are replaced, and so are those of a field that
\* was an object in one ingest and something else in a later one.
ContractKeepsStatic ==
  \A i \in Processes :
    ingest[i].pc = "commit" =>
      LET static == StaticSchemas[ingest[i].spec]
      IN /\ DOMAIN static \subseteq DOMAIN Contract(i)
         /\ \A e \in DOMAIN static :
              IsClear(ingest[i].written[e].schema)
                => TypedPaths(static[e]) \subseteq FieldPaths(Contract(i)[e])
=============================================================================
