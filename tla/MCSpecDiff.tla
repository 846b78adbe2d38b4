----------------------------- MODULE MCSpecDiff -----------------------------
(***************************************************************************)
(* Small instances of SpecDiff for TLC. Contracts vary in one part at a    *)
(* time, and every two that vary in the same part are compared.            *)
(***************************************************************************)
EXTENDS SpecDiff

CONSTANT any

ClientSymmetry == Permutations(Repos)

\* Partial functions with at most the given keys.
PartialFcns(keys, values) == UNION {[k -> values] : k \in SUBSET keys}

NoBody == [properties |-> <<>>]
Operation == [parameters |-> <<>>, bodyRequired |-> FALSE, body |-> NoBody,
              responses |-> <<>>]
Serving(op) == [paths |-> [p \in {"/p"} |-> [m \in {"POST"} |-> op]],
                components |-> <<>>]

\* Which paths and methods are served.
Surfaces ==
  {[paths |-> paths, components |-> <<>>] :
     paths \in PartialFcns({"/p", "/q"}, PartialFcns({"GET", "POST"}, {Operation}))}

Parameters == [required : BOOLEAN] \cup [required : BOOLEAN, type : {"t", "u"}]
Parametrised ==
  {Serving([Operation EXCEPT !.parameters = ps]) :
     ps \in PartialFcns({"k"}, Parameters)}

Enums == {{"a"}, {"a", "b"}}
Leaves == [type : {"t", "u"}] \cup [enum : Enums] \cup {[ref |-> "C"], [ref |-> "D"]}
Bodies == [properties : PartialFcns({"x"}, Leaves), required : SUBSET {"x"}]
Components ==
  {[C |-> c, D |-> [type |-> "u"]] : c \in [type : {"t"}] \cup [enum : Enums]}
WithBody ==
  {[Serving([Operation EXCEPT !.body = s]) EXCEPT !.components = cs] :
     s \in Bodies, cs \in Components}
WithRequiredBody ==
  {Serving([Operation EXCEPT !.bodyRequired = q]) : q \in BOOLEAN}

Responding ==
  {Serving([Operation EXCEPT !.responses = rs]) :
     rs \in PartialFcns({"200", "404"},
              {[properties |-> ps] : ps \in PartialFcns({"x"}, [type : {"t", "u"}])})}

\* Two operations of one path that change in the same way.
Twins ==
  {[paths |-> [p \in {"/p"} |-> [m \in {"GET", "POST"} |->
                 [Operation EXCEPT !.parameters = ps]]],
    components |-> <<>>] : ps \in PartialFcns({"k"}, [required : BOOLEAN])}

Fields == [name : {"a", "b"}, type : {"t", "u"}, label : {"optional"}]
            \cup {[name |-> "a", type |-> "t", label |-> "repeated"]}
Messages == {m \in PartialFcns({1, 2}, Fields) :
               \A i, j \in DOMAIN m : i # j => m[i].name # m[j].name}
MessageContracts ==
  {[messages |-> ms, services |-> <<>>] : ms \in PartialFcns({"M"}, Messages)}
Methods == [input_type : {"M", "N"}, output_type : {"M", "N"}]
ServiceContracts ==
  {[messages |-> <<>>, services |-> ss] :
     ss \in PartialFcns({"S"}, PartialFcns({"get"}, Methods))}

Compare(kind, contracts) ==
  [kind : {kind}, before : contracts, after : contracts, rules : {<<>>}]

\* Rules on removed operations, for one of them or for all: they replace the
\* default rule, or one before it, or come last.
RemovedPost == <<"paths", "/p", "POST">>
OperationRemoved == <<"operation", "removed">>
CustomRules ==
  [id : {OperationRemoved, <<"path", "removed">>, <<"custom">>}, kind : {OperationRemoved},
   verdict : {"additive", "breaking"}, glob : {any, {RemovedPost}}]
Serves(methods) ==
  [paths |-> [p \in {"/p"} |-> [m \in methods |-> Operation]], components |-> <<>>]
Customised ==
  [kind : {"openapi"}, before : {Serves({"GET", "POST"})},
   after : {Serves({"GET"}), Serves({})},
   rules : {<<r>> : r \in CustomRules} \cup {<<r, s>> : r, s \in CustomRules}]

MCComparisons ==
  Compare("openapi", Surfaces) \cup Compare("openapi", Parametrised)
    \cup Compare("openapi", WithBody) \cup Compare("openapi", WithRequiredBody)
    \cup Compare("openapi", Responding)
    \cup Compare("openapi", Twins) \cup Compare("proto", MessageContracts)
    \cup Compare("proto", ServiceContracts) \cup Customised

\* The custom rules replace the default ones: pull requests with and without.
MCGateChecks ==
  [comparison : {c \in Customised : Len(c.rules) = 1}
                 \cup Compare("openapi", Parametrised)
                 \cup Compare("proto", ServiceContracts),
   accept_breaking : BOOLEAN]

MCMinedCalls == {Call("POST", <<"/p">>), Call("RPC", <<"S", "get">>)}

MCClientRequests ==
  [method : {"GET", "POST"}, path : {"/p", "/q"}, parameters : {<<>>}, body : {{}}]
  \cup [method : {"POST"}, path : {"/p"}, parameters : PartialFcns({"k"}, {"t", "u"}),
        body : {{}} \cup {{b} : b \in PartialFcns({"x"},
                           [type : {"t", "u"}, member : {"a", "b"}])}]
=============================================================================
