----------------------------- MODULE CallSites -----------------------------
(***************************************************************************)
(* The visitors of guardian_core/mining: the call sites found in one file  *)
(* (python_visitor.py, js_visitor.py). A file is the sequence of its       *)
(* bindings in source order and the sequence of its calls, which are all   *)
(* made in functions.                                                      *)
(*                                                                         *)
(* What may be there or not is a set of at most one element. An expression *)
(* is a string of pieces, a name, a sum or something else. A piece is a    *)
(* token or an interpolation: the name that _interpolation_name or         *)
(* _template_substitution_name picks, and whether the name is all of it    *)
(* (an attribute or a call is not what a variable of that name is).        *)
(***************************************************************************)
EXTENDS UrlPaths

CONSTANTS
  GrpcModules,   \* generated modules: name ends in _pb2_grpc
  PackageOf,     \* the name without that ending
  StubServices   \* attributes that end in Stub, to the service named before it

HttpModules == {"requests", "httpx"}
Verbs == {"GET", "POST", "PUT", "PATCH", "DELETE", "HEAD", "OPTIONS", "REQUEST"}

Put(map, name, value) ==
  [n \in DOMAIN map \cup {name} |-> IF n = name THEN value ELSE map[n]]
Lookup(map, name) == IF name \in DOMAIN map THEN {map[name]} ELSE {}

IsHole(piece) == "name" \in DOMAIN piece
HasHoles(pieces) == \E i \in DOMAIN pieces : IsHole(pieces[i])

-----------------------------------------------------------------------------
(* Rendering, which the visitors have in common: tokens with holes, and the *)
(* names of the holes. Names of constants are replaced by their text.      *)

Rendered(raw, names) == [raw |-> raw, names |-> names]

_render_string(consts, pieces) ==
  LET Next(done, piece) ==
        IF ~IsHole(piece) THEN [done EXCEPT !.raw = Append(@, piece)]
        ELSE IF piece.name \in DOMAIN consts
        THEN [done EXCEPT !.raw = @ \o consts[piece.name]]
        ELSE [raw |-> Append(done.raw, Hole), names |-> Append(done.names, piece.name)]
  IN FoldLeft(Next, Rendered(<<>>, <<>>), pieces)

RECURSIVE _render_url(_, _)
_render_url(consts, url) ==
  CASE url.expr = "string" -> {_render_string(consts, url.pieces)}
    [] url.expr = "name"   -> {Rendered(text, <<>>) : text \in Lookup(consts, url.name)}
    [] url.expr = "sum"    -> {Rendered(l.raw \o r.raw, l.names \o r.names) :
                                 l \in _render_url(consts, url.left),
                                 r \in _render_url(consts, url.right)}
    [] OTHER -> {}

PathTemplates(consts, url) ==
  {abstract_static_segments(normalize_template(u.raw, u.names)) :
     u \in _render_url(consts, url)}

\* The text of a string without interpolations.
Literals(values) ==
  {v.pieces : v \in {w \in values : w.expr = "string" /\ ~HasHoles(w.pieces)}}

\* Methods are one word.
Methods(values) == {text[1].lit : text \in Literals(values)}
Either(values, default) == IF values = {} THEN {default} ELSE values

KeysOf(values) ==
  UNION {v.keys : v \in {w \in values : w.expr = "dict"}}

Site(library, method, path, fields) ==
  [client_library |-> library, method |-> method, path_template |-> path, fields |-> fields]

\* The call sites that requests (a method and a URL expression) come to.
Sites(library, consts, requests, fields) ==
  UNION {{Site(library, r.method, path, fields) : path \in PathTemplates(consts, r.url)} :
           r \in requests}

-----------------------------------------------------------------------------
(* Python. The first pass collects what names are bound to, anywhere in    *)
(* the file (string constants at module scope only); the last binding of a *)
(* name wins. The second pass looks every call up in the result.           *)

NoNames == [module_aliases |-> <<>>, from_imports |-> <<>>, string_consts |-> <<>>,
            http_clients |-> <<>>, grpc_stubs |-> <<>>]

\* The module of a name: imported, imported from, or its own name.
ModuleOf(names, object) ==
  IF object \in DOMAIN names.module_aliases THEN {names.module_aliases[object]}
  ELSE IF object \in DOMAIN names.from_imports THEN {names.from_imports[object]}
  ELSE {object} \cap HttpModules

_classify_client_constructor(names, b) ==
  IF b.attr \in {"Client", "AsyncClient", "Session"}
  THEN ModuleOf(names, b.object) \cap HttpModules ELSE {}

\* A stub is made by a module that was imported, and remembers its name.
StubOf(names, b) ==
  IF b.object \in DOMAIN names.module_aliases \cup DOMAIN names.from_imports
       /\ b.attr \in DOMAIN StubServices
  THEN [module : ModuleOf(names, b.object) \cap GrpcModules, service : {StubServices[b.attr]}]
  ELSE {}

\* bind is "import", "from", "string", "call" (name = object.attr(...)), "with"
\* (with object.attr(...) as name) or "other", which is not looked at.
_collect(names, b) ==
  CASE b.bind = "import" -> [names EXCEPT !.module_aliases = Put(@, b.name, b.module)]
    [] b.bind = "from"   -> [names EXCEPT !.from_imports = Put(@, b.name, b.module)]
    [] b.bind = "string" /\ b.scope = "module" ->
         IF HasHoles(b.text) THEN names
         ELSE [names EXCEPT !.string_consts = Put(@, b.name, b.text)]
    [] b.bind \in {"call", "with"} ->
         LET clients == _classify_client_constructor(names, b)
             stubs   == IF b.bind = "call" THEN StubOf(names, b) ELSE {}
         IN IF clients # {}
            THEN [names EXCEPT !.http_clients = Put(@, b.name, CHOOSE c \in clients : TRUE)]
            ELSE IF stubs # {}
            THEN [names EXCEPT !.grpc_stubs = Put(@, b.name, CHOOSE s \in stubs : TRUE)]
            ELSE names
    [] OTHER -> names

PythonNames(file) == FoldLeft(_collect, NoNames, file.bindings)

\* object.verb(...) by the module or client that object is, and
\* object.attr.verb(...) by the module alone.
HttpModulesOf(names, call) ==
  IF call.attr \notin Verbs THEN {}
  ELSE LET module == ModuleOf(names, call.object)
       IN IF module = {} /\ call.form = "attribute"
          THEN Lookup(names.http_clients, call.object) ELSE module \cap HttpModules

First(args, n) == IF Len(args) >= n THEN {args[n]} ELSE {}

\* request(method, url) takes both by position or both by keyword.
HttpRequest(call) ==
  LET args == call.positional
      kwargs == call.keywords
      byPosition == Len(args) >= 2 /\ args[1].expr = "string"
      byKeyword  == {"method", "url"} \subseteq DOMAIN kwargs
      method == IF byPosition THEN {args[1]} ELSE Lookup(kwargs, "method")
  IN IF call.attr = "REQUEST"
     THEN [method : Either(Methods(method), "REQUEST"),
           url : IF byPosition THEN {args[2]}
                 ELSE IF byKeyword THEN Lookup(kwargs, "url") ELSE {}]
     ELSE [method : {call.attr},
           url : IF args # <<>> THEN {args[1]} ELSE Lookup(kwargs, "url")]

_build_http_site(names, call, module) ==
  Sites(module, names.string_consts, HttpRequest(call),
        UNION {KeysOf(Lookup(call.keywords, k)) : k \in {"params", "json", "data", "files"}})

\* The template is /package.Service/Method, and the method is RPC. The fields
\* are the keywords of the message that is built in place.
_build_grpc_site(call, stub) ==
  Site("grpc", "RPC",
       <<Text(<<PackageOf[stub.module], ".", stub.service>>), Text(<<call.attr>>)>>,
       UNION {a.keys : a \in {b \in First(call.positional, 1) : b.expr = "call"}})

_inspect_python(names, call) ==
  LET modules == HttpModulesOf(names, call)
  IN IF modules # {}
     THEN UNION {_build_http_site(names, call, m) : m \in modules}
     ELSE IF call.form = "attribute"
     THEN {_build_grpc_site(call, s) : s \in Lookup(names.grpc_stubs, call.object)}
     ELSE {}

-----------------------------------------------------------------------------
(* JavaScript and TypeScript. Only the top level of the file is collected; *)
(* there bind is "import" and "require" (of a module) or "string".         *)

TopLevel(file) == SelectSeq(file.bindings, LAMBDA b : b.scope = "module")

AxiosAliases(file) ==
  LET top == TopLevel(file)
  IN {"axios"} \cup {top[i].name : i \in
       {k \in DOMAIN top : top[k].bind \in {"import", "require"} /\ top[k].module = "axios"}}

\* A template string is a constant if no hole is left in it.
_handle_lexical_declaration(consts, b) ==
  IF b.bind # "string" THEN consts
  ELSE LET u == _render_string(consts, b.text)
       IN IF u.names = <<>> THEN Put(consts, b.name, u.raw) ELSE consts

JsConsts(file) == FoldLeft(_handle_lexical_declaration, <<>>, TopLevel(file))

\* An object literal maps keys to expressions.
Field(objects, key) == UNION {Lookup(o.fields, key) : o \in objects}
Objects(values) == {v \in values : v.expr = "object"}
ObjectKeys(values) == UNION {DOMAIN o.fields : o \in Objects(values)}

FetchRequest(call) ==
  [method : Either(Methods(Field(Objects(First(call.positional, 2)), "method")), "GET"),
   url : First(call.positional, 1)]

_build_fetch(consts, call) ==
  Sites("fetch", consts, FetchRequest(call),
        ObjectKeys(Field(Objects(First(call.positional, 2)), "body")))

\* axios(config) and axios.request(config) say all in the object, the verbs take
\* the URL, and those that write a body, before it.
Writes(verb) == verb \in {"POST", "PUT", "PATCH"}
Config(call, verb) ==
  Objects(First(call.positional, IF verb = "REQUEST" THEN 1 ELSE IF Writes(verb) THEN 3 ELSE 2))

AxiosRequest(call, verb) ==
  IF verb = "REQUEST"
  THEN [method : Either(Methods(Field(Config(call, verb), "method")), "GET"),
        url : Field(Config(call, verb), "url")]
  ELSE [method : {verb}, url : First(call.positional, 1)]

_build_axios(consts, call, verb) ==
  LET config == Config(call, verb)
  IN Sites("axios", consts, AxiosRequest(call, verb),
           ObjectKeys((IF Writes(verb) THEN First(call.positional, 2) ELSE {})
                        \cup Field(config, "data") \cup Field(config, "params")))

_inspect_js(aliases, consts, call) ==
  CASE call.form = "name" /\ call.object = "fetch" -> _build_fetch(consts, call)
    [] call.form = "attribute" /\ call.object \in aliases /\ call.attr \in Verbs ->
         _build_axios(consts, call, call.attr)
    [] call.form = "name" /\ call.object \in aliases -> _build_axios(consts, call, "REQUEST")
    [] OTHER -> {}

-----------------------------------------------------------------------------
\* The call sites of a file, with the number of the call for its line.
visit(file) ==
  LET Inspect(call) == IF file.language = "python"
                       THEN _inspect_python(PythonNames(file), call)
                       ELSE _inspect_js(AxiosAliases(file), JsConsts(file), call)
  IN UNION {[line : {k}, site : Inspect(file.calls[k])] : k \in DOMAIN file.calls}
=============================================================================
