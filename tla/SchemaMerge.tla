---------------------------- MODULE SchemaMerge ----------------------------
(***************************************************************************)
(* The JSON schemas of observed bodies: infer_schema                       *)
(* (traffic/schema_inference.py, on the genson library),                   *)
(* merge_json_schemas (traffic/_merge.py) and the de-facto contract        *)
(* (traffic/defacto.py). A schema is a record of those of its keywords     *)
(* that are there. A body is an object or a leaf: a value of some type.    *)
(* Arrays are left out.                                                    *)
(***************************************************************************)
EXTENDS Naturals, FiniteSets, SequencesExt

CONSTANT ENUM_CARDINALITY_THRESHOLD   \* values a string field may have as an enum

Leaf(type, value) == [type |-> type, value |-> value]
Body(fields) == [type |-> "object", fields |-> fields]

EmptySchema == <<>>
Keywords == {"type", "properties", "required", "anyOf", "enum"}
Has(schema, keyword) == keyword \in DOMAIN schema
IsObject(schema) == Has(schema, "type") /\ schema.type = {"object"}
PropertiesOf(schema) == IF Has(schema, "properties") THEN schema.properties ELSE <<>>
FieldNames(schema) == DOMAIN PropertiesOf(schema)
RequiredBy(schema) == IF Has(schema, "required") THEN schema.required ELSE {}

ObjectsIn(samples) == SelectSeq(samples, LAMBDA sample : sample.type = "object")
FieldsOf(samples) == UNION {DOMAIN o.fields : o \in Range(ObjectsIn(samples))}
ValuesOf(samples, f) ==
  LET holders == SelectSeq(ObjectsIn(samples), LAMBDA o : f \in DOMAIN o.fields)
  IN [k \in DOMAIN holders |-> holders[k].fields[f]]
Common(samples) ==
  {f \in FieldsOf(samples) : \A o \in Range(ObjectsIn(samples)) : f \in DOMAIN o.fields}

\* genson: the fields that all objects have are required, and the keyword is
\* omitted when there is none. Types without fields are one list; beside it,
\* objects with fields are a branch of anyOf.
RECURSIVE to_schema(_, _)
to_schema(samples, seed) ==
  LET types  == {s.type : s \in Range(samples)} \cup seed
      Object == [type |-> {"object"},
                 properties |-> [f \in FieldsOf(samples) |-> to_schema(ValuesOf(samples, f), {})]]
                @@ IF Common(samples) = {} THEN <<>> ELSE [required |-> Common(samples)]
  IN IF FieldsOf(samples) = {} THEN [type |-> types]
     ELSE IF types = {"object"} THEN Object
     ELSE [anyOf |-> {Object, [type |-> types \ {"object"}]}]

\* Few strings, each seen twice on average, are taken for an enum. Branches of
\* anyOf are not searched.
RECURSIVE _detect_enums(_, _)
_detect_enums(schema, samples) ==
  LET values == {s.value : s \in Range(samples)}
  IN IF Has(schema, "properties")
     THEN [schema EXCEPT !.properties =
             [f \in DOMAIN @ |-> _detect_enums(@[f], ValuesOf(samples, f))]]
     ELSE IF /\ Has(schema, "type") /\ schema.type = {"string"}
             /\ Cardinality(values) \in 2..ENUM_CARDINALITY_THRESHOLD
             /\ Len(samples) >= 2 * Cardinality(values)
     THEN schema @@ [enum |-> values] ELSE schema

\* The builder starts from a schema of objects.
infer_schema(samples) ==
  IF samples = <<>> THEN EmptySchema
  ELSE _detect_enums(to_schema(samples, {"object"}), samples)

\* A plausible slip: what is required on either side is required.
MergedRequiredUnion(existing, incoming) ==
  IF Has(existing, "required") \/ Has(incoming, "required")
  THEN [required |-> RequiredBy(existing) \cup RequiredBy(incoming)] ELSE <<>>

\* What is required on the only side that says so stays; of both, what both
\* require.
MergedRequired(existing, incoming) ==
  IF Has(existing, "required") /\ Has(incoming, "required")
  THEN [required |-> existing.required \cap incoming.required]
  ELSE IF Has(existing, "required") THEN [required |-> existing.required]
  ELSE IF Has(incoming, "required") THEN [required |-> incoming.required] ELSE <<>>

\* A plausible slip: objects are merged like anything else.
Overlaid(existing, incoming) == incoming @@ existing

\* Two objects are united; of anything else the incoming keywords win.
RECURSIVE merge_json_schemas(_, _)
merge_json_schemas(existing, incoming) ==
  LET old == PropertiesOf(existing)
      new == PropertiesOf(incoming)
      Property(f) == IF f \notin DOMAIN new THEN old[f]
                     ELSE IF f \notin DOMAIN old THEN new[f]
                     ELSE merge_json_schemas(old[f], new[f])
  IN IF existing = EmptySchema THEN incoming
     ELSE IF incoming = EmptySchema THEN existing
     ELSE IF IsObject(existing) /\ IsObject(incoming)
     THEN MergedRequired(existing, incoming)
            @@ [properties |-> [f \in DOMAIN old \cup DOMAIN new |-> Property(f)]] @@ existing
     ELSE incoming @@ existing

\* The static operations and those observed, with the schemas of both.
build_defacto_contract(static, observed) ==
  [e \in DOMAIN static \cup DOMAIN observed |->
     IF e \notin DOMAIN observed THEN static[e]
     ELSE IF e \notin DOMAIN static THEN observed[e]
     ELSE merge_json_schemas(static[e], observed[e])]

-----------------------------------------------------------------------------
\* What a schema means.
RECURSIVE Accepts(_, _)
Accepts(schema, body) ==
  /\ Has(schema, "type") => body.type \in schema.type
  /\ Has(schema, "enum") => body.type # "object" /\ body.value \in schema.enum
  /\ Has(schema, "anyOf") => \E branch \in schema.anyOf : Accepts(branch, body)
  /\ body.type = "object" =>
       /\ RequiredBy(schema) \subseteq DOMAIN body.fields
       /\ \A f \in FieldNames(schema) \cap DOMAIN body.fields :
            Accepts(schema.properties[f], body.fields[f])

\* An inferred schema that a merge understands: one type everywhere, no enum,
\* and some field required of every object.
RECURSIVE IsExact(_)
IsExact(schema) ==
  /\ DOMAIN schema \cap {"anyOf", "enum"} = {}
  /\ Cardinality(schema.type) = 1
  /\ IsObject(schema) => Has(schema, "required")
  /\ \A f \in FieldNames(schema) : IsExact(schema.properties[f])

RECURSIVE Agree(_, _)
Agree(schema, other) ==
  /\ schema.type = other.type
  /\ \A f \in FieldNames(schema) \cap FieldNames(other) :
       Agree(schema.properties[f], other.properties[f])

\* Whether all that has fields is of objects.
RECURSIVE IsClear(_)
IsClear(schema) ==
  /\ Has(schema, "properties") => IsObject(schema)
  /\ \A f \in FieldNames(schema) : IsClear(schema.properties[f])

\* Paths to the fields of a schema, and those only through schemas that say they
\* are of objects.
RECURSIVE FieldPaths(_)
FieldPaths(schema) ==
  UNION {{<<f>>} \cup {<<f>> \o path : path \in FieldPaths(schema.properties[f])} :
           f \in FieldNames(schema)}

RECURSIVE TypedPaths(_)
TypedPaths(schema) ==
  IF ~IsObject(schema) THEN {}
  ELSE UNION {{<<f>>} \cup {<<f>> \o path : path \in TypedPaths(schema.properties[f])} :
                f \in FieldNames(schema)}
=============================================================================
