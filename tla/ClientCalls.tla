---------------------------- MODULE ClientCalls ----------------------------
(***************************************************************************)
(* The calls of a file, whose visitors CallSites translates: which         *)
(* requests they make when the file runs, by the scopes of its language,   *)
(* and which calls the visitors are made for. The calls are in functions;  *)
(* a name bound in their function hides the one of the module, and one     *)
(* bound in another function ("elsewhere") is not seen.                    *)
(***************************************************************************)
EXTENDS CallSites

Bound(file, name) ==
  {file.bindings[i] : i \in {k \in DOMAIN file.bindings : file.bindings[k].name = name}}

Visible(file, name) ==
  LET local == {b \in Bound(file, name) : b.scope = "function"}
  IN IF local # {} THEN local ELSE {b \in Bound(file, name) : b.scope = "module"}

\* A name with a constant text stands for it, any other for what a slot does.
RECURSIVE Meaning(_, _)
TextOf(file, name) ==
  IF \E b \in Visible(file, name) : b.bind = "string"
  THEN Meaning(file, [expr |-> "string",
         pieces |-> (CHOOSE b \in Visible(file, name) : b.bind = "string").text])
  ELSE <<Slot(name)>>
Meaning(file, url) ==
  CASE url.expr = "string" ->
         FlattenSeq([i \in DOMAIN url.pieces |->
           LET piece == url.pieces[i]
           IN IF ~IsHole(piece) THEN <<piece>>
              ELSE IF piece.whole THEN TextOf(file, piece.name) ELSE <<Slot(piece.name)>>])
    [] url.expr = "name" -> TextOf(file, url.name)
    [] url.expr = "sum"  -> Meaning(file, url.left) \o Meaning(file, url.right)

\* The path is what the server sees of the text.
SentPath(file, url) == abstract_static_segments(_strip_to_path(Meaning(file, url)))

Makers == {"Client", "AsyncClient", "Session"}
IsLibrary(file, name, modules) ==
  \E b \in Visible(file, name) : b.bind \in {"import", "require"} /\ b.module \in modules
IsClient(file, name) ==
  \E b \in Visible(file, name) :
    b.bind \in {"call", "with"} /\ b.attr \in Makers /\ IsLibrary(file, b.object, HttpModules)

\* The HTTP requests that a call makes.
HttpCalls(file, call) ==
  CASE file.language = "python" /\ call.attr \in Verbs ->
         IF \/ IsLibrary(file, call.object, HttpModules)
            \/ call.form = "attribute" /\ IsClient(file, call.object)
         THEN HttpRequest(call) ELSE {}
    [] file.language # "python" /\ IsLibrary(file, call.object, {"axios"}) ->
         AxiosRequest(call, IF call.form = "name" THEN "REQUEST" ELSE call.attr)
    [] call.object = "fetch" /\ Visible(file, "fetch") = {} -> FetchRequest(call)
    [] OTHER -> {}

Sends(file, call) ==
  {[method |-> r.method, path |-> SentPath(file, r.url)] : r \in HttpCalls(file, call)}

\* What the visitors are made for: a library is imported as a module; the names
\* that a call uses are bound once, where the call sees them; a URL is written in
\* place or by constants, with no variable before its path and none twice.
BoundOnce(file, name) ==
  /\ Cardinality(Bound(file, name)) <= 1
  /\ Bound(file, name) = Visible(file, name)
  /\ \A b \in Bound(file, name) :
       /\ b.bind # "from"
       /\ b.scope = "module" \/ (file.language = "python" /\ b.bind # "string")
       /\ b.bind = "string" => ~HasHoles(b.text)

ClearObject(file, name) ==
  /\ BoundOnce(file, name)
  /\ \A b \in Bound(file, name) : b.bind \in {"call", "with"} => BoundOnce(file, b.object)
  /\ name \in HttpModules \cup {"axios"} => Bound(file, name) # {}
  /\ name = "fetch" => Bound(file, name) = {}

RECURSIVE Parts(_)
Parts(url) ==
  CASE url.expr = "string" -> Range(url.pieces)
    [] url.expr = "name"   -> {[constant |-> url.name]}
    [] url.expr = "sum"    -> Parts(url.left) \cup Parts(url.right)
    [] OTHER -> {[unknown |-> TRUE]}

ClearPart(file, part) ==
  /\ "unknown" \notin DOMAIN part
  /\ "constant" \in DOMAIN part =>
       /\ BoundOnce(file, part.constant)
       /\ \E b \in Bound(file, part.constant) : b.bind = "string"
  /\ IsHole(part) => IF part.whole THEN BoundOnce(file, part.name)
                     ELSE Bound(file, part.name) = {}

IsPlain(file, call) ==
  /\ ClearObject(file, call.object)
  /\ \A r \in HttpCalls(file, call) :
       LET text == Meaning(file, r.url)
       IN /\ \A part \in Parts(r.url) : ClearPart(file, part)
          /\ \A i \in DOMAIN text : text[i] \in [slot : STRING] =>
               /\ \E k \in 1..i : text[k] = Lit("/")
               /\ \A k \in DOMAIN text \ {i} : text[k] # text[i]
=============================================================================
