----------------------------- MODULE RouteTree -----------------------------
(***************************************************************************)
(* guardian_core/traffic/url_match.py: the trie of the paths of a          *)
(* specification, and the template of an observed URL. A node stands where *)
(* its path from the root says; the key of a templated segment is          *)
(* AnySegment, so templates that differ in names only end at one node.     *)
(*                                                                         *)
(* A specification is the sequence of its path items in the order of the   *)
(* document: a template and the methods it declares.                       *)
(***************************************************************************)
EXTENDS UrlPaths

AnySegment == <<>>   \* no segment is empty

Position(template) ==
  [k \in DOMAIN template |-> IF IsSlot(template[k]) THEN AnySegment ELSE template[k]]

\* The items that end at a node; one without a method is taken for a GET.
Ending(spec, node) == {i \in DOMAIN spec : Position(spec[i].template) = node}
MethodsOf(item) == IF item.methods = {} THEN {"GET"} ELSE item.methods

\* The nodes are the root and what the paths begin with. The template of a node
\* is that of the last item that ends there; the methods add up.
build_route_tree(spec) ==
  [node \in {<<>>} \cup UNION {Prefixes(Position(spec[i].template)) : i \in DOMAIN spec} |->
     LET items == Ending(spec, node)
     IN [path_template |-> {spec[i].template : i \in {j \in items : \A k \in items : k <= j}},
         terminals |-> UNION {MethodsOf(spec[i]) : i \in items}]]

\* A plausible slip: the template is tried before the literal.
ChildTemplated(tree, node, segment) ==
  IF Append(node, AnySegment) \in DOMAIN tree THEN {Append(node, AnySegment)}
  ELSE {Append(node, segment)} \cap DOMAIN tree

\* The literal child, and the templated one only where there is no literal.
Child(tree, node, segment) ==
  IF Append(node, segment) \in DOMAIN tree THEN {Append(node, segment)}
  ELSE {Append(node, AnySegment)} \cap DOMAIN tree

\* Where the walk along a path ends: it takes a child for every segment.
Reached(tree, path) ==
  {node \in DOMAIN tree :
     /\ Len(node) = Len(path)
     /\ \A k \in DOMAIN path :
          SubSeq(node, 1, k) \in Child(tree, SubSeq(node, 1, k - 1), path[k])}

\* The walk never comes back: at most one node, at most one template.
match(tree, method, path) ==
  UNION {tree[node].path_template :
           node \in {n \in Reached(tree, path) : method \in tree[n].terminals}}

\* Without a match the segments that look like ids become slots.
normalize_observed_path(url, method, tree) ==
  LET path  == _strip_to_path(url)
      found == match(tree, method, path)
  IN IF found = {} THEN abstract_static_segments(path) ELSE CHOOSE t \in found : TRUE

-----------------------------------------------------------------------------
\* The operations of a specification that a request may be for.
Candidates(spec, method, path) ==
  {i \in DOMAIN spec : /\ method \in spec[i].methods
                       /\ Fits(spec[i].template, path)}

\* Concrete paths go before templated ones, from the left.
Preferred(spec, candidates) ==
  {i \in candidates :
     \A j \in candidates :
       \A k \in DOMAIN spec[i].template :
         /\ IsSlot(spec[i].template[k]) /\ ~IsSlot(spec[j].template[k])
         => \E m \in 1..(k - 1) :
              ~IsSlot(spec[i].template[m]) /\ IsSlot(spec[j].template[m])}

\* The blind spots of the trie: a literal that leads elsewhere hides a template
\* beside it, and templates that differ in names only share one node.
Hides(spec, i, path) ==
  \E j \in DOMAIN spec : \E k \in DOMAIN path \cap DOMAIN spec[j].template :
    /\ k \in DOMAIN spec[i].template /\ IsSlot(spec[i].template[k])
    /\ spec[j].template[k] = path[k]
    /\ SubSeq(Position(spec[j].template), 1, k - 1)
         = SubSeq(Position(spec[i].template), 1, k - 1)
Shares(spec, i) ==
  \E j \in DOMAIN spec \ {i} : Position(spec[j].template) = Position(spec[i].template)
=============================================================================
