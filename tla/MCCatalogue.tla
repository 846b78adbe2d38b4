---------------------------- MODULE MCCatalogue ----------------------------
(***************************************************************************)
(* Small instances of Catalogue for TLC: client files of every form that   *)
(* the visitors know, with what escapes them, and specifications whose     *)
(* paths overlap.                                                          *)
(***************************************************************************)
EXTENDS Catalogue, ClientCalls

ScanSymmetry == Permutations(Scans)

MCIdWords == {"7"}
MCGrpcModules == {"users_pb2_grpc"}
MCPackageOf == "users_pb2_grpc" :> "users"
MCStubServices == "UsersStub" :> "Users"

\* Expressions.
Str(pieces) == [expr |-> "string", pieces |-> pieces]
Name(name) == [expr |-> "name", name |-> name]
Sum(left, right) == [expr |-> "sum", left |-> left, right |-> right]
Dict(keys) == [expr |-> "dict", keys |-> keys]
Message(keys) == [expr |-> "call", keys |-> keys]
Object(fields) == [expr |-> "object", fields |-> fields]
Other == [expr |-> "other"]

Var(name) == [name |-> name, whole |-> TRUE]
Attr(name) == [name |-> name, whole |-> FALSE]

Slash == Lit("/")
Users == <<Slash, Lit("users")>>
User(hole) == Users \o <<Slash, hole>>
Host == Text(<<"https", "://", "api">>)
Quoted(word) == Str(Text(<<word>>))

\* Bindings.
Import(name, module) == [bind |-> "import", name |-> name, scope |-> "module", module |-> module]
FromImport(name, module) == [bind |-> "from", name |-> name, scope |-> "module", module |-> module]
Const(name, text) == [bind |-> "string", name |-> name, scope |-> "module", text |-> text]
Local(name, text) == [Const(name, text) EXCEPT !.scope = "function"]
Make(bind, name, object, attr) ==
  [bind |-> bind, name |-> name, scope |-> "function", object |-> object, attr |-> attr]
Elsewhere(binding) == [binding EXCEPT !.scope = "elsewhere"]

\* Calls.
Call(form, object, attr, positional, keywords) ==
  [form |-> form, object |-> object, attr |-> attr, positional |-> positional,
   keywords |-> keywords]
On(object, attr, positional) == Call("attribute", object, attr, positional, <<>>)

Python(bindings, calls) == [language |-> "python", bindings |-> bindings, calls |-> calls]
Js(bindings, calls) == [language |-> "javascript", bindings |-> bindings, calls |-> calls]

ImportRequests == Import("requests", "requests")
Base == Const("BASE", Host)

\* What the visitors are made for.
Plain == {
  Python(<<>>, <<>>),
  Python(<<ImportRequests, Base>>,
    <<On("requests", "GET", <<Str(<<Var("BASE")>> \o User(Var("id")))>>),
      Call("attribute", "requests", "REQUEST", <<>>,
           [method |-> Quoted("POST"), url |-> Str(Users \o <<Lit("?"), Lit("q")>>),
            json |-> Dict({"name"})])>>),
  Python(<<Import("h", "httpx"), Make("with", "client", "h", "AsyncClient"), Base>>,
    <<On("client", "DELETE", <<Sum(Name("BASE"), Str(User(Lit("7"))))>>),
      On("client", "REQUEST", <<Quoted("GET"), Str(Users)>>),
      Call("chained", "h", "POST", <<Str(Host \o Users)>>, <<>>)>>),
  Python(<<Import("g", "users_pb2_grpc"), Make("call", "stub", "g", "UsersStub")>>,
    <<On("stub", "GetUser", <<Message({"id"})>>)>>),
  Js(<<Import("api", "axios"), Base>>,
    <<On("api", "GET", <<Str(<<Var("BASE")>> \o User(Attr("id")))>>),
      Call("name", "api", "", <<Object([url |-> Str(Users), method |-> Quoted("POST")])>>, <<>>),
      Call("name", "fetch", "", <<Str(User(Var("id"))),
           Object([method |-> Quoted("DELETE"), body |-> Object([name |-> Other])])>>, <<>>)>>),
  Js(<<[Import("http", "axios") EXCEPT !.bind = "require"]>>,
    <<On("http", "POST", <<Str(Users), Object([name |-> Other])>>),
      Call("name", "fetch", "", <<Str(Users)>>, <<>>)>>) }

\* What escapes them: a constant that a local or a later one hides, a host in a
\* variable, a base that is no constant, a name that is used twice, an attribute
\* of the name of a constant, a client of another function, a function of a
\* library, a URL that is computed.
Escaping == {
  Python(<<ImportRequests, Base, Local("BASE", Text(<<"/", "v1">>))>>,
    <<On("requests", "GET", <<Str(<<Var("BASE")>> \o Users)>>)>>),
  Python(<<ImportRequests>>,
    <<On("requests", "GET", <<Str(Text(<<"https", "://">>) \o <<Var("host")>>
                                    \o User(Var("id")))>>),
      On("requests", "GET", <<Str(<<Var("base")>> \o Users)>>)>>),
  Python(<<ImportRequests, Const("id", Text(<<"me">>))>>,
    <<On("requests", "GET", <<Str(User(Attr("id")))>>),
      On("requests", "DELETE", <<Other>>)>>),
  Python(<<ImportRequests, Elsewhere(Make("call", "client", "requests", "Session"))>>,
    <<On("client", "GET", <<Str(Users)>>)>>),
  Python(<<ImportRequests>>,
    <<On("requests", "GET", <<Str(User(Var("id")) \o <<Slash, Var("id")>>)>>)>>),
  Python(<<FromImport("api", "requests")>>, <<On("api", "GET", <<Str(Users)>>)>>),
  Js(<<Import("axios", "axios"), Local("BASE", Users)>>,
    <<On("axios", "GET", <<Name("BASE")>>),
      Call("name", "fetch", "", <<Sum(Name("url"), Str(Users))>>, <<>>)>>) }

MCFiles == Plain \cup Escaping

Item(path, methods) == [template |-> path, methods |-> methods]
UsersPath == <<Text(<<"users">>)>>
MePath == UsersPath \o <<Text(<<"me">>)>>
UserPath(name) == UsersPath \o <<<<Slot(name)>>>>

UsersApi == <<Item(UsersPath, {"GET", "POST"}), Item(UserPath("id"), {"GET", "DELETE"}),
              Item(UserPath("id") \o <<<<Slot("id2")>>>>, {"GET"})>>
Apis == {
  UsersApi,
  UsersApi \o <<Item(MePath, {"GET"})>>,
  <<Item(MePath, {}), Item(UserPath("id") \o <<Text(<<"posts">>)>>, {"GET"})>>,
  UsersApi \o <<Item(UserPath("user"), {"PATCH"}),
                Item(UserPath("id") \o <<<<Slot("post")>>>>, {"GET"})>>,
  <<Item(<<<<Slot("kind")>>, Text(<<"me">>)>>, {"GET"}), Item(UserPath("id"), {"GET"})>> }

Requesting(method, urls) == [method : {method}, url : urls]
MCRequests ==
  Requesting("GET", {Host \o User(Lit("me")), User(Lit("7")), Users,
                     User(Lit("me")) \o <<Slash, Lit("posts")>>})
  \cup Requesting("DELETE", {User(Lit("me"))})

MCSituations ==
  [file : MCFiles, spec : {UsersApi}] \cup [file : {CHOOSE f \in Plain : f.calls = <<>>}, spec : Apis]
=============================================================================
