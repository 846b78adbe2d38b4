---------------------------- MODULE OpenApiDiff -----------------------------
(***************************************************************************)
(* diff_openapi (guardian_diff/openapi.py): the changes between two OpenAPI *)
(* specifications. A specification maps its paths to path items, which map *)
(* the methods they serve to operations, and the names of its components   *)
(* to schemas. As in the JSON documents, a schema is a record that may lack *)
(* any of its keys: "ref" (a component), "type", "enum", "properties" and  *)
(* "required".                                                             *)
(***************************************************************************)
EXTENDS RawChanges, Sequences

Get(record, key, default) ==
  IF key \in DOMAIN record THEN record[key] ELSE default

NoType == "untyped"
EmptySchema == [properties |-> <<>>]
Properties(schema) == Get(schema, "properties", <<>>)
Required(schema) == Get(schema, "required", {})
Type(schema) == Get(schema, "type", NoType)

\* One hop: the target is returned as it is, a dangling reference is empty.
Resolve(spec, schema) ==
  IF "ref" \notin DOMAIN schema THEN schema
  ELSE Get(spec.components, schema.ref, EmptySchema)

\* Values that came into, or went out of, an enum which both sides have.
DiffEnum(location, before, after) ==
  LET Values(event, from, to) ==
        {Change("enum.value", event, location, v, {}) : v \in to.enum \ from.enum}
  IN IF "enum" \in DOMAIN before /\ "enum" \in DOMAIN after
     THEN Values("added", before, after) \cup Values("removed", after, before)
     ELSE {}

\* side is "request_body" or "response": only the server rejects what is
\* missing, so only the former tells required properties from optional ones.
DiffSchema(location, before, after, side) ==
  LET old  == Properties(before)
      new  == Properties(after)
      both == DOMAIN old \cap DOMAIN new
      PropertyChange(event, n) ==
        Change(side, event, location \o <<"properties", n>>, NoValue, {})
      Added(n) == IF side # "request_body" THEN "property.added"
                  ELSE IF n \in Required(after) THEN "property.added.required"
                  ELSE "property.added.optional"
      Tightened == {n \in both : side = "request_body"
                                 /\ n \in Required(after) \ Required(before)}
      Loosened == {n \in both : side = "request_body"
                                /\ n \in Required(before) \ Required(after)}
  IN {PropertyChange(Added(n), n) : n \in DOMAIN new \ DOMAIN old}
     \cup {PropertyChange("property.removed", n) : n \in DOMAIN old \ DOMAIN new}
     \cup {PropertyChange("property.type_changed", n) :
             n \in {p \in both : Type(old[p]) # Type(new[p])}}
     \cup {PropertyChange("property.required.increased", n) : n \in Tightened}
     \cup {PropertyChange("property.required.decreased", n) : n \in Loosened}
     \cup (UNION {DiffEnum(location \o <<"properties", n, "enum">>, old[n], new[n]) :
                   n \in both})

-----------------------------------------------------------------------------
(* One operation. Its parameters are keyed by place and name; an operation *)
(* without a JSON body, or a response without one, has an empty schema.    *)

\* A plausible slip: parameters that stay are taken to be the same.
DiffParameterNames(location, calls, before, after) ==
  LET ParameterChange(event, p) ==
        Change("parameter", event, location \o <<"parameters", p>>, NoValue, calls)
      Added(p) == IF after[p].required THEN "added.required" ELSE "added.optional"
  IN {ParameterChange(Added(p), p) : p \in DOMAIN after \ DOMAIN before}
     \cup {ParameterChange("removed", p) : p \in DOMAIN before \ DOMAIN after}

DiffParameters(location, calls, before, after) ==
  LET both == DOMAIN before \cap DOMAIN after
      ParameterChange(event, p) ==
        Change("parameter", event, location \o <<"parameters", p>>, NoValue, calls)
      Added(p) == IF after[p].required THEN "added.required" ELSE "added.optional"
  IN {ParameterChange(Added(p), p) : p \in DOMAIN after \ DOMAIN before}
     \cup {ParameterChange("removed", p) : p \in DOMAIN before \ DOMAIN after}
     \cup {ParameterChange("required.increased", p) :
             p \in {q \in both : after[q].required /\ ~before[q].required}}
     \cup {ParameterChange("required.decreased", p) :
             p \in {q \in both : before[q].required /\ ~after[q].required}}
     \cup {ParameterChange("type_changed", p) :
             p \in {q \in both : Type(before[q]) # Type(after[q])}}

\* That the body itself becomes required is reported as if it were a property.
DiffBody(location, calls, old, new, before, after) ==
  LET BodyChange(event) ==
        {Change("request_body", event, location \o <<"requestBody">>, NoValue, calls)}
  IN DiffSchema(location \o <<"requestBody">>, Resolve(old, before.body),
                Resolve(new, after.body), "request_body")
     \cup (IF before.bodyRequired = after.bodyRequired THEN {}
           ELSE IF after.bodyRequired THEN BodyChange("property.required.increased")
           ELSE BodyChange("property.required.decreased"))

\* A plausible slip: only the statuses are compared.
DiffStatuses(location, calls, old, new, before, after) ==
  LET ResponseChange(event, code) ==
        Change("response", event, location \o <<"responses", code>>, NoValue, calls)
  IN {ResponseChange("added", c) : c \in DOMAIN after \ DOMAIN before}
     \cup {ResponseChange("removed", c) : c \in DOMAIN before \ DOMAIN after}

DiffResponses(location, calls, old, new, before, after) ==
  LET At(code) == location \o <<"responses", code>>
      ResponseChange(event, code) == Change("response", event, At(code), NoValue, calls)
  IN {ResponseChange("added", c) : c \in DOMAIN after \ DOMAIN before}
     \cup {ResponseChange("removed", c) : c \in DOMAIN before \ DOMAIN after}
     \cup (UNION {DiffSchema(At(c), Resolve(old, before[c]), Resolve(new, after[c]),
                            "response") : c \in DOMAIN before \cap DOMAIN after})

DiffOperation(old, new, path, method) ==
  LET before == old.paths[path][method]
      after == new.paths[path][method]
      location == <<"paths", path, method>>
      calls == {Call(method, <<path>>)}
  IN DiffParameters(location, calls, before.parameters, after.parameters)
     \cup DiffBody(location, calls, old, new, before, after)
     \cup DiffResponses(location, calls, old, new, before.responses, after.responses)

-----------------------------------------------------------------------------
(* The whole specification. A path that comes or goes names all its calls. *)

Calls(spec, path) == {Call(m, <<path>>) : m \in DOMAIN spec.paths[path]}
Served(spec) == UNION {Calls(spec, p) : p \in DOMAIN spec.paths}

DiffPathItem(old, new, path) ==
  LET before == DOMAIN old.paths[path]
      after == DOMAIN new.paths[path]
      OperationChange(event, m) ==
        Change("operation", event, <<"paths", path, m>>, NoValue, {Call(m, <<path>>)})
  IN {OperationChange("added", m) : m \in after \ before}
     \cup {OperationChange("removed", m) : m \in before \ after}
     \cup (UNION {DiffOperation(old, new, path, m) : m \in before \cap after})

DiffPaths(old, new) ==
  LET before == DOMAIN old.paths
      after == DOMAIN new.paths
  IN {Change("path", "added", <<"paths", p>>, NoValue, Calls(new, p)) :
        p \in after \ before}
     \cup {Change("path", "removed", <<"paths", p>>, NoValue, Calls(old, p)) :
        p \in before \ after}
     \cup (UNION {DiffPathItem(old, new, p) : p \in before \cap after})

\* Of the components only the values of their own enum are compared.
DiffComponents(old, new) ==
  UNION {DiffEnum(<<"components", n, "enum">>, old.components[n], new.components[n]) :
           n \in DOMAIN old.components \cap DOMAIN new.components}

DiffOpenapi(old, new) == DiffPaths(old, new) \cup DiffComponents(old, new)

-----------------------------------------------------------------------------
(* What a specification means to a client. A request has a method, a path, *)
(* a type for each parameter it sends and, in the set body, at most one    *)
(* JSON object, which gives its properties values of a type.               *)

Satisfies(spec, schema, value) ==
  LET s == Resolve(spec, schema)
  IN /\ Type(s) \in {NoType, value.type}
     /\ "enum" \in DOMAIN s => value.member \in s.enum

\* The server validates strictly, but ignores parameters it does not know.
Accepts(spec, request) ==
  /\ Call(request.method, <<request.path>>) \in Served(spec)
  /\ LET op == spec.paths[request.path][request.method]
         schema == Resolve(spec, op.body)
     IN /\ \A p \in DOMAIN op.parameters :
             IF p \in DOMAIN request.parameters
             THEN Type(op.parameters[p]) \in {NoType, request.parameters[p]}
             ELSE ~op.parameters[p].required
        /\ request.body = {} => ~op.bodyRequired
        /\ \A body \in request.body :
             /\ Required(schema) \subseteq DOMAIN body
             /\ DOMAIN body \subseteq DOMAIN Properties(schema)
             /\ \A n \in DOMAIN body :
                  Satisfies(spec, Properties(schema)[n], body[n])

\* A client sends what its version of the specification documents.
Sends(spec, request) ==
  /\ Accepts(spec, request)
  /\ DOMAIN request.parameters
       \subseteq DOMAIN spec.paths[request.path][request.method].parameters

\* What a client reads from the answers: properties by status, with their type.
Reads(spec, path, method) ==
  LET responses == spec.paths[path][method].responses
  IN UNION {{<<code, n, Type(Properties(Resolve(spec, responses[code]))[n])>> :
               n \in DOMAIN Properties(Resolve(spec, responses[code]))} :
              code \in DOMAIN responses}

\* The blind spots of DiffSchema: a property that lists its values only now,
\* and one behind a reference to another component, or to one whose type changed.
Compared(old, new, before, after) ==
  LET x == Resolve(old, before)
      y == Resolve(new, after)
  IN /\ "enum" \in DOMAIN y => "enum" \in DOMAIN x
     /\ "ref" \in DOMAIN before \cup DOMAIN after =>
          /\ "ref" \in DOMAIN before \cap DOMAIN after
          /\ before.ref = after.ref
          /\ Type(x) = Type(y)

\* And a name that is required but not among the properties.
SeesBody(old, new, path, method) ==
  LET schema == Resolve(new, new.paths[path][method].body)
      before == Properties(Resolve(old, old.paths[path][method].body))
      after  == Properties(schema)
  IN /\ Required(schema) \subseteq DOMAIN after
     /\ \A n \in DOMAIN before \cap DOMAIN after : Compared(old, new, before[n], after[n])
=============================================================================
