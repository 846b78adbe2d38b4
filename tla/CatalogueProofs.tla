-------------------------- MODULE CatalogueProofs --------------------------
(***************************************************************************)
(* Theorems about Catalogue, for any number of repositories, scans, edits, *)
(* files and requests, and any specification.                              *)
(***************************************************************************)
EXTENDS Catalogue, FiniteSetTheorems, SequenceTheorems, WellFoundedInduction, TLAPS

Items == [template : Paths, methods : SUBSET STRING]

-----------------------------------------------------------------------------
\* Paths and their positions in the tree.

\* A path is a sequence of segments, none of which is empty.
LEMMA PathType ==
  ASSUME NEW path \in Paths
  PROVE  /\ path \in Seq(Seq(Tokens))
         /\ Len(path) \in Nat
         /\ DOMAIN path = 1..Len(path)
         /\ \A k \in 1..Len(path) : path[k] \in Seq(Tokens) /\ path[k] # AnySegment
<1> DEFINE S == Seq(Tokens) \ {<<>>}
<1>1. path \in Seq(S)
  BY DEF Paths
<1>2. path \in Seq(Seq(Tokens))
  BY <1>1, SeqMonotonic
<1>3. Len(path) \in Nat /\ DOMAIN path = 1..Len(path)
  BY <1>1, LenProperties
<1>4. \A k \in 1..Len(path) : path[k] \in S
  BY <1>1, ElementOfSeq
<1> QED
  BY <1>2, <1>3, <1>4 DEF AnySegment

\* The position of a template differs from it in the slots.
LEMMA PositionType ==
  ASSUME NEW t \in Paths
  PROVE  /\ Position(t) \in Seq(Seq(Tokens))
         /\ Len(Position(t)) = Len(t)
         /\ \A k \in 1..Len(t) :
              Position(t)[k] = IF IsSlot(t[k]) THEN AnySegment ELSE t[k]
<1>1. Len(t) \in Nat /\ DOMAIN t = 1..Len(t)
      /\ \A k \in 1..Len(t) : t[k] \in Seq(Tokens)
  BY PathType
<1>2. Position(t) = [k \in 1..Len(t) |-> IF IsSlot(t[k]) THEN AnySegment ELSE t[k]]
  BY <1>1 DEF Position
<1>3. AnySegment \in Seq(Tokens)
  BY EmptySeq DEF AnySegment
<1>4. \A k \in 1..Len(t) : (IF IsSlot(t[k]) THEN AnySegment ELSE t[k]) \in Seq(Tokens)
  BY <1>1, <1>3
<1>5. Position(t) \in Seq(Seq(Tokens)) /\ Len(Position(t)) = Len(t)
  BY <1>1, <1>2, <1>4, IsASeq
<1> QED
  BY <1>2, <1>5

\* The first k elements of a sequence are the first k - 1 and the k-th.
LEMMA PrefixStep ==
  ASSUME NEW S, NEW s \in Seq(S), NEW k \in 1..Len(s)
  PROVE  /\ SubSeq(s, 1, k) = Append(SubSeq(s, 1, k - 1), s[k])
         /\ SubSeq(s, 1, k - 1) \in Seq(S)
         /\ Len(SubSeq(s, 1, k - 1)) = k - 1
<1>1. Len(s) \in Nat
  BY LenProperties
<1>2. s[k] \in S
  BY ElementOfSeq
<1> QED
  BY <1>1, <1>2, SubSeqProperties, AppendProperties, SeqEqual

\* What a child adds to its parent.
LEMMA SameChild ==
  ASSUME NEW S, NEW q \in Seq(S), NEW r \in Seq(S), NEW x \in S, NEW y \in S,
         Append(q, x) = Append(r, y)
  PROVE  q = r /\ x = y
BY AppendInjective

-----------------------------------------------------------------------------
\* The tree of a specification.

LEMMA ItemType ==
  ASSUME NEW s \in Seq(Items), NEW i \in DOMAIN s
  PROVE  /\ i \in Nat
         /\ s[i].template \in Paths
         /\ s[i].methods \in SUBSET STRING
<1>1. DOMAIN s = 1..Len(s) /\ Len(s) \in Nat
  BY LenProperties
<1>2. s[i] \in Items
  BY <1>1, ElementOfSeq
<1> QED
  BY <1>1, <1>2 DEF Items

\* A template at a node belongs to an item that ends there.
LEMMA TemplatesEnd ==
  ASSUME NEW s \in Seq(Items), NEW node \in DOMAIN build_route_tree(s),
         NEW t \in build_route_tree(s)[node].path_template
  PROVE  t \in Paths /\ Position(t) = node
<1>1. \E i \in Ending(s, node) : t = s[i].template
  BY DEF build_route_tree
<1>2. PICK i \in DOMAIN s : Position(s[i].template) = node /\ t = s[i].template
  BY <1>1 DEF Ending
<1> QED
  BY <1>2, ItemType

\* A node is the root or what the position of some item begins with.
LEMMA NodesArePrefixes ==
  ASSUME NEW s \in Seq(Items), NEW node
  PROVE  node \in DOMAIN build_route_tree(s) <=>
           \/ node = <<>>
           \/ \E i \in DOMAIN s : \E k \in 0..Len(Position(s[i].template)) :
                node = SubSeq(Position(s[i].template), 1, k)
<1>1. DOMAIN build_route_tree(s)
        = {<<>>} \cup UNION {Prefixes(Position(s[i].template)) : i \in DOMAIN s}
  BY DEF build_route_tree
<1>2. \A i \in DOMAIN s : node \in Prefixes(Position(s[i].template)) <=>
        \E k \in 0..Len(Position(s[i].template)) : node = SubSeq(Position(s[i].template), 1, k)
  BY DEF Prefixes
<1> QED
  BY <1>1, <1>2

LEMMA NodeType ==
  ASSUME NEW s \in Seq(Items), NEW node \in DOMAIN build_route_tree(s)
  PROVE  node \in Seq(Seq(Tokens))
<1>1. CASE node = <<>>
  BY <1>1, EmptySeq
<1>2. CASE \E i \in DOMAIN s : \E k \in 0..Len(Position(s[i].template)) :
             node = SubSeq(Position(s[i].template), 1, k)
  <2>1. PICK i \in DOMAIN s : \E k \in 0..Len(Position(s[i].template)) :
               node = SubSeq(Position(s[i].template), 1, k)
    BY <1>2
  <2>2. PICK k \in 0..Len(Position(s[i].template)) : node = SubSeq(Position(s[i].template), 1, k)
    BY <2>1
  <2>3. Position(s[i].template) \in Seq(Seq(Tokens))
    BY ItemType, PositionType
  <2> QED
    BY <2>2, <2>3, SubSeqProperties
<1> QED
  BY <1>1, <1>2, NodesArePrefixes

\* A node that no two items share has the template and the methods of its item.
LEMMA UnsharedNode ==
  ASSUME NEW s \in Seq(Items), NEW i \in DOMAIN s, ~Shares(s, i),
         Position(s[i].template) \in DOMAIN build_route_tree(s)
  PROVE  LET node == build_route_tree(s)[Position(s[i].template)]
         IN /\ node.path_template = {s[i].template}
            /\ s[i].methods \subseteq node.terminals
<1> DEFINE end == Position(s[i].template)
           items == Ending(s, end)
<1>1. items = {i}
  BY DEF Ending, Shares
<1>2. i <= i
  BY ItemType
<1>3. {j \in items : \A k \in items : k <= j} = {i}
  BY <1>1, <1>2
<1>4. /\ build_route_tree(s)[end].path_template
           = {s[e].template : e \in {j \in items : \A k \in items : k <= j}}
      /\ build_route_tree(s)[end].terminals = UNION {MethodsOf(s[e]) : e \in items}
  BY DEF build_route_tree
<1>5. s[i].methods \subseteq MethodsOf(s[i])
  BY DEF MethodsOf
<1> HIDE DEF items, end
<1> QED
  BY <1>1, <1>3, <1>4, <1>5 DEF end

-----------------------------------------------------------------------------
\* The walk down the tree.

\* A segment leads to one child at most.
LEMMA OneChild ==
  ASSUME NEW tree, NEW q, NEW segment,
         NEW c \in Child(tree, q, segment), NEW d \in Child(tree, q, segment)
  PROVE  c = d
BY DEF Child

\* Where the walk ends, every element is the segment or stands for it.
LEMMA ReachedElements ==
  ASSUME NEW s \in Seq(Items), NEW path \in Paths,
         NEW node \in Reached(build_route_tree(s), path)
  PROVE  /\ node \in Seq(Seq(Tokens))
         /\ Len(node) = Len(path)
         /\ \A k \in 1..Len(path) : node[k] \in {path[k], AnySegment}
<1> DEFINE tree == build_route_tree(s)
<1>1. node \in Seq(Seq(Tokens))
  BY NodeType DEF Reached
<1>2. Len(node) = Len(path) /\ DOMAIN path = 1..Len(path)
  BY PathType DEF Reached
<1>3. ASSUME NEW k \in 1..Len(path)
      PROVE  node[k] \in {path[k], AnySegment}
  <2>1. SubSeq(node, 1, k) \in Child(tree, SubSeq(node, 1, k - 1), path[k])
    BY <1>2, <1>3 DEF Reached
  <2>2. PICK x \in {path[k], AnySegment} : SubSeq(node, 1, k) = Append(SubSeq(node, 1, k - 1), x)
    BY <2>1 DEF Child
  <2>3. /\ SubSeq(node, 1, k) = Append(SubSeq(node, 1, k - 1), node[k])
        /\ SubSeq(node, 1, k - 1) \in Seq(Seq(Tokens))
    BY <1>1, <1>2, <1>3, PrefixStep
  <2>4. path[k] \in Seq(Tokens) /\ AnySegment \in Seq(Tokens) /\ node[k] \in Seq(Tokens)
    BY <1>1, <1>2, <1>3, PathType, EmptySeq, ElementOfSeq DEF AnySegment
  <2> QED
    BY <2>2, <2>3, <2>4, SameChild
<1> QED
  BY <1>1, <1>2, <1>3

\* So a template that is found fits the path.
LEMMA FoundFits ==
  ASSUME NEW s \in Seq(Items), NEW path \in Paths, NEW method,
         NEW t \in match(build_route_tree(s), method, path)
  PROVE  Fits(t, path)
<1>1. PICK node \in Reached(build_route_tree(s), path) :
        t \in build_route_tree(s)[node].path_template
  BY DEF match
<1>2. t \in Paths /\ Position(t) = node
  BY <1>1, TemplatesEnd DEF Reached
<1>3. Len(t) = Len(path) /\ DOMAIN path = 1..Len(path)
  BY <1>2, PositionType, ReachedElements, PathType
<1>4. ASSUME NEW k \in 1..Len(path)
      PROVE  IsSlot(t[k]) \/ t[k] = path[k]
  <2>1. Position(t)[k] = (IF IsSlot(t[k]) THEN AnySegment ELSE t[k]) /\ t[k] # AnySegment
    BY <1>2, <1>3, <1>4, PositionType, PathType
  <2>2. Position(t)[k] \in {path[k], AnySegment}
    BY <1>2, <1>4, ReachedElements
  <2> QED
    BY <2>1, <2>2
<1> QED
  BY <1>3, <1>4 DEF Fits

\* The walk never branches: where two of them part first, one parent has two
\* children for a segment.
LEMMA OneEnd ==
  ASSUME NEW s \in Seq(Items), NEW path \in Paths,
         NEW n \in Reached(build_route_tree(s), path),
         NEW m \in Reached(build_route_tree(s), path)
  PROVE  n = m
<1> DEFINE tree == build_route_tree(s)
           Parted == {k \in 1..Len(path) : n[k] # m[k]}
<1>1. /\ n \in Seq(Seq(Tokens)) /\ Len(n) = Len(path)
      /\ m \in Seq(Seq(Tokens)) /\ Len(m) = Len(path)
      /\ DOMAIN path = 1..Len(path) /\ Len(path) \in Nat
  BY ReachedElements, PathType
<1>2. ASSUME Parted # {}
      PROVE  FALSE
  <2>1. PICK k \in Parted : \A j \in Parted : ~ (<<j, k>> \in OpToRel(<, Nat))
    <3>1. Parted \subseteq Nat
      BY <1>1
    <3> QED
      BY <3>1, <1>2, WFMin, NatLessThanWellFounded
  <2>2. \A j \in 1..(k - 1) : n[j] = m[j]
    <3> SUFFICES ASSUME NEW j \in 1..(k - 1), n[j] # m[j]
                 PROVE  FALSE
      OBVIOUS
    <3>1. j \in Parted /\ j < k /\ j \in Nat /\ k \in Nat
      BY <1>1
    <3>2. <<j, k>> \in OpToRel(<, Nat)
      BY <3>1 DEF OpToRel
    <3> QED
      BY <2>1, <3>1, <3>2
  <2>3. SubSeq(n, 1, k - 1) = SubSeq(m, 1, k - 1)
    BY <1>1, <2>2, SubSeqProperties, SeqEqual
  <2>4. /\ SubSeq(n, 1, k) \in Child(tree, SubSeq(n, 1, k - 1), path[k])
        /\ SubSeq(m, 1, k) \in Child(tree, SubSeq(m, 1, k - 1), path[k])
    BY <1>1 DEF Reached
  <2>5. SubSeq(n, 1, k) = SubSeq(m, 1, k)
    BY <2>3, <2>4, OneChild
  <2>6. SubSeq(n, 1, k)[k] = n[k] /\ SubSeq(m, 1, k)[k] = m[k]
    BY <1>1, SubSeqProperties
  <2> QED
    BY <2>1, <2>5, <2>6
<1>3. \A k \in 1..Len(path) : n[k] = m[k]
  BY <1>2
<1> QED
  BY <1>1, <1>3, SeqEqual

\* A literal child of a node belongs to an item with that literal.
LEMMA LiteralChild ==
  ASSUME NEW s \in Seq(Items), NEW q \in Seq(Seq(Tokens)), NEW segment \in Seq(Tokens),
         segment # AnySegment, Append(q, segment) \in DOMAIN build_route_tree(s)
  PROVE  \E j \in DOMAIN s :
           /\ Len(q) + 1 \in DOMAIN s[j].template
           /\ s[j].template[Len(q) + 1] = segment
           /\ SubSeq(Position(s[j].template), 1, Len(q)) = q
<1> DEFINE k == Len(q) + 1
<1>1. Len(q) \in Nat /\ Append(q, segment) # <<>> /\ Len(Append(q, segment)) = k
      /\ Append(q, segment)[k] = segment
      /\ \A l \in 1..Len(q) : Append(q, segment)[l] = q[l]
  BY LenProperties, AppendProperties
<1>2. PICK j \in DOMAIN s : \E l \in 0..Len(Position(s[j].template)) :
        Append(q, segment) = SubSeq(Position(s[j].template), 1, l)
  <2> DEFINE node == Append(q, segment)
  <2>1. node \in DOMAIN build_route_tree(s) /\ node # <<>>
    BY <1>1
  <2> HIDE DEF node
  <2>2. \E j \in DOMAIN s : \E l \in 0..Len(Position(s[j].template)) :
          node = SubSeq(Position(s[j].template), 1, l)
    BY <2>1, NodesArePrefixes
  <2> QED
    BY <2>2 DEF node
<1> DEFINE end == Position(s[j].template)
<1>3. PICK l \in 0..Len(end) : Append(q, segment) = SubSeq(end, 1, l)
  BY <1>2
<1>4. /\ end \in Seq(Seq(Tokens)) /\ Len(end) \in Nat /\ Len(end) = Len(s[j].template)
      /\ DOMAIN s[j].template = 1..Len(s[j].template)
      /\ \A i \in 1..Len(s[j].template) :
           end[i] = IF IsSlot(s[j].template[i]) THEN AnySegment ELSE s[j].template[i]
  BY ItemType, PositionType, PathType, LenProperties
<1> HIDE DEF end
<1>5. Len(SubSeq(end, 1, l)) = l /\ \A i \in 1..l : SubSeq(end, 1, l)[i] = end[i]
  BY <1>4, SubSeqProperties
<1>6. l = k
  BY <1>1, <1>3, <1>5
<1>7. k \in 1..Len(end) /\ end[k] = segment
  BY <1>1, <1>3, <1>5, <1>6
<1>8. s[j].template[k] = segment
  BY <1>4, <1>7
<1>9. SubSeq(end, 1, Len(q)) = q
  <2>1. /\ SubSeq(end, 1, Len(q)) \in Seq(Seq(Tokens))
        /\ Len(SubSeq(end, 1, Len(q))) = Len(q)
        /\ \A i \in 1..Len(q) : SubSeq(end, 1, Len(q))[i] = end[i]
    BY <1>1, <1>4, <1>7, SubSeqProperties
  <2>2. \A i \in 1..Len(q) : end[i] = q[i]
    BY <1>1, <1>3, <1>5, <1>6
  <2> QED
    BY <2>1, <2>2, SeqEqual
<1> QED
  BY <1>4, <1>7, <1>8, <1>9 DEF end

\* The walk finds every template that fits and that no literal hides.
LEMMA UnhiddenIsReached ==
  ASSUME NEW s \in Seq(Items), NEW path \in Paths, NEW i \in DOMAIN s,
         Fits(s[i].template, path), ~Hides(s, i, path)
  PROVE  Position(s[i].template) \in Reached(build_route_tree(s), path)
<1> DEFINE tree == build_route_tree(s)
           t == s[i].template
           end == Position(t)
<1>1. /\ t \in Paths /\ Len(t) = Len(path) /\ Len(path) \in Nat
      /\ DOMAIN t = 1..Len(path) /\ DOMAIN path = 1..Len(path)
      /\ end \in Seq(Seq(Tokens)) /\ Len(end) = Len(path)
  BY ItemType, PathType, PositionType DEF Fits
<1>2. \A k \in 0..Len(path) : SubSeq(end, 1, k) \in DOMAIN tree
  BY <1>1, NodesArePrefixes
<1> HIDE DEF end, tree
<1>3. end \in DOMAIN tree
  <2>1. SubSeq(end, 1, Len(end)) = end
    BY <1>1, SubSeqFull
  <2>2. Len(end) \in 0..Len(path)
    BY <1>1
  <2>3. SubSeq(end, 1, Len(end)) \in DOMAIN tree
    BY <1>2, <2>2
  <2> QED
    BY <2>1, <2>3
<1>4. ASSUME NEW k \in 1..Len(path)
      PROVE  SubSeq(end, 1, k) \in Child(tree, SubSeq(end, 1, k - 1), path[k])
  <2> DEFINE q == SubSeq(end, 1, k - 1)
  <2>1. /\ SubSeq(end, 1, k) = Append(q, end[k]) /\ SubSeq(end, 1, k) \in DOMAIN tree
        /\ q \in Seq(Seq(Tokens)) /\ Len(q) = k - 1
    <3>1. k \in 1..Len(end) /\ k \in 0..Len(path)
      BY <1>1
    <3>2. /\ SubSeq(end, 1, k) = Append(q, end[k])
          /\ q \in Seq(Seq(Tokens)) /\ Len(q) = k - 1
      BY <1>1, <3>1, PrefixStep
    <3> QED
      BY <1>2, <3>1, <3>2
  <2>2. /\ end[k] = IF IsSlot(t[k]) THEN AnySegment ELSE t[k]
        /\ IsSlot(t[k]) \/ t[k] = path[k]
        /\ path[k] \in Seq(Tokens) /\ path[k] # AnySegment
    BY <1>1, PositionType, PathType DEF Fits, end
  <2>3. CASE end[k] = path[k]
    BY <2>1, <2>3 DEF Child
  <2>4. CASE IsSlot(t[k]) /\ end[k] = AnySegment
    <3>1. Append(q, path[k]) \notin DOMAIN tree
      <4> SUFFICES ASSUME Append(q, path[k]) \in DOMAIN tree
                   PROVE  FALSE
        OBVIOUS
      <4>1. PICK j \in DOMAIN s :
              /\ Len(q) + 1 \in DOMAIN s[j].template
              /\ s[j].template[Len(q) + 1] = path[k]
              /\ SubSeq(Position(s[j].template), 1, Len(q)) = q
        BY <2>1, <2>2, LiteralChild DEF tree
      <4>2. Len(q) + 1 = k
        BY <2>1
      <4> QED
        BY <1>1, <2>1, <2>4, <4>1, <4>2 DEF Hides, end
    <3> QED
      BY <2>1, <2>4, <3>1 DEF Child
  <2> QED
    BY <2>2, <2>3, <2>4
<1> QED
  BY <1>1, <1>3, <1>4 DEF Reached, end, tree

-----------------------------------------------------------------------------
\* The template of a request.

LEMMA ListType ==
  ASSUME NEW n \in Nat, NEW S, NEW f \in [1..n -> S]
  PROVE  f \in Seq(S) /\ Len(f) = n
OBVIOUS

\* Slots in the place of segments that look like ids fit the path.
LEMMA AbstractedFits ==
  ASSUME NEW path \in Paths
  PROVE  Fits(abstract_static_segments(path), path)
<1> DEFINE Slotted(k) == path[k] \in {<<Lit(w)>> : w \in IdWords}
           t == abstract_static_segments(path)
<1>1. path \in Seq(Seq(Tokens)) /\ DOMAIN path = 1..Len(path) /\ Len(path) \in Nat
      /\ \A k \in 1..Len(path) : path[k] \in Seq(Tokens)
  BY PathType
<1>2. t = [k \in 1..Len(path) |-> IF Slotted(k) THEN <<Slot("id")>> ELSE path[k]]
  BY <1>1 DEF abstract_static_segments
<1>3. IsSlot(<<Slot("id")>>)
  BY DEF IsSlot, Slot
<1>4. Len(t) = Len(path)
  <2> DEFINE S == {t[k] : k \in 1..Len(path)}
  <2>1. t \in [1..Len(path) -> S]
    BY <1>2
  <2> QED
    BY <1>1, <2>1, ListType
<1> HIDE DEF t, Slotted
<1>5. \A k \in 1..Len(path) : IsSlot(t[k]) \/ t[k] = path[k]
  BY <1>2, <1>3
<1> QED
  BY <1>1, <1>4, <1>5 DEF Fits, t

\* A candidate that is neither hidden nor shared is the only one that is found.
LEMMA UnhiddenIsFound ==
  ASSUME NEW s \in Seq(Items), NEW path \in Paths, NEW method,
         NEW i \in Candidates(s, method, path), ~Hides(s, i, path), ~Shares(s, i)
  PROVE  match(build_route_tree(s), method, path) = {s[i].template}
<1> DEFINE tree == build_route_tree(s)
           end == Position(s[i].template)
<1>1. i \in DOMAIN s /\ method \in s[i].methods /\ Fits(s[i].template, path)
  BY DEF Candidates
<1>2. end \in Reached(tree, path) /\ end \in DOMAIN tree
  BY <1>1, UnhiddenIsReached DEF Reached
<1>3. tree[end].path_template = {s[i].template} /\ method \in tree[end].terminals
  BY <1>1, <1>2, UnsharedNode
<1>4. \A n \in Reached(tree, path) : n = end
  BY <1>2, OneEnd
<1> HIDE DEF tree, end
<1>5. {n \in Reached(tree, path) : method \in tree[n].terminals} = {end}
  BY <1>2, <1>3, <1>4
<1> QED
  BY <1>3, <1>5 DEF match, tree

\* What RoutesAreFound says of one request.
LEMMA RouteOfRequest ==
  ASSUME NEW s \in Seq(Items), NEW url, NEW method, _strip_to_path(url) \in Paths
  PROVE  LET path == _strip_to_path(url)
             t    == normalize_observed_path(url, method, build_route_tree(s))
         IN /\ Fits(t, path)
            /\ \A i \in Candidates(s, method, path) :
                 Hides(s, i, path) \/ Shares(s, i) \/ t = s[i].template
<1> DEFINE path  == _strip_to_path(url)
           found == match(build_route_tree(s), method, path)
           t     == normalize_observed_path(url, method, build_route_tree(s))
<1>1. t = IF found = {} THEN abstract_static_segments(path) ELSE CHOOSE u \in found : TRUE
  BY DEF normalize_observed_path
<1>2. \A u \in found : Fits(u, path)
  BY FoundFits
<1>3. \A i \in Candidates(s, method, path) :
        Hides(s, i, path) \/ Shares(s, i) \/ found = {s[i].template}
  BY UnhiddenIsFound
<1>4. Fits(abstract_static_segments(path), path)
  BY AbstractedFits
<1> HIDE DEF path, found, t
<1>5. Fits(t, path)
  BY <1>1, <1>2, <1>4
<1>6. \A i \in Candidates(s, method, path) :
        Hides(s, i, path) \/ Shares(s, i) \/ t = s[i].template
  <2> SUFFICES ASSUME NEW i \in Candidates(s, method, path),
                      ~Hides(s, i, path), ~Shares(s, i)
               PROVE  t = s[i].template
    BY Zenon
  <2>1. found = {s[i].template}
    BY <1>3
  <2> QED
    BY <1>1, <2>1
<1> QED
  BY <1>5, <1>6 DEF path, t

-----------------------------------------------------------------------------
\* The invariant. What a successful scan had read is there as it was found; what
\* a scan is about to store, with what is there by now, is what it found.

Reads == [repo : Repos, commit_sha : Nat, file : Files]

RowsOf(read) == Rows(read, mine_repo(read.repo, read.file))

Pending(p) ==
  /\ scan[p].read \in Reads
  /\ scan[p] = [pc |-> "persist", read |-> scan[p].read, new |-> scan[p].new]
  /\ scan[p].new \subseteq RowsOf(scan[p].read)
  /\ RowsOf(scan[p].read) \subseteq scan[p].new \cup inferred_endpoints

Mining(p) == scan[p] \in [pc : {"mine"}, repo : Repos, commit_sha : Nat]

LookingUp(p) ==
  /\ scan[p].read \in Reads
  /\ scan[p] = [pc |-> "lookup", read |-> scan[p].read,
                sites |-> mine_repo(scan[p].read.repo, scan[p].read.file)]

ScanOK(p) ==
  CASE scan[p].pc = "mine"    -> Mining(p)
    [] scan[p].pc = "lookup"  -> LookingUp(p)
    [] scan[p].pc = "persist" -> Pending(p)
    [] OTHER                  -> scan[p] = IdleScan

CheckoutsAreFiles ==
  /\ checkout \in [Repos -> [file : Files, head : Nat]]
  /\ edits \in Nat

ScansAreWhole ==
  /\ scan = [p \in Scans |-> scan[p]]
  /\ \A p \in Scans : ScanOK(p)
  /\ scanned \subseteq Reads

RowsAreOfScans == inferred_endpoints = UNION {RowsOf(read) : read \in scanned}

RequestsAreRouted ==
  /\ \E s \in Situations : spec = s.spec
  /\ \A o \in observed :
       /\ o.request \in Requests
       /\ o.path_template = normalize_observed_path(o.request.url, o.request.method,
                                                    build_route_tree(spec))

CatalogueInv == CheckoutsAreFiles /\ ScansAreWhole /\ RowsAreOfScans /\ RequestsAreRouted

LEMMA InitCatalogueInv == Init => CatalogueInv
<1> SUFFICES ASSUME Init
             PROVE  CatalogueInv
  OBVIOUS
<1>1. PICK s \in Situations :
        spec = s.spec /\ checkout = [r \in Repos |-> [file |-> s.file, head |-> 0]]
  BY DEF Init
<1>2. CheckoutsAreFiles
  BY <1>1, CatalogueAssumption DEF CheckoutsAreFiles, Init
<1>3. ScansAreWhole
  BY DEF ScansAreWhole, ScanOK, Init, IdleScan
<1>4. RowsAreOfScans
  BY DEF RowsAreOfScans, Init
<1>5. RequestsAreRouted
  BY <1>1 DEF RequestsAreRouted, Init
<1> QED
  BY <1>2, <1>3, <1>4, <1>5 DEF CatalogueInv

LEMMA NextCases ==
  ASSUME [Next]_vars
  PROVE  \/ UNCHANGED vars
         \/ \E repo \in Repos, file \in Files : Edit(repo, file)
         \/ \E p \in Scans, repo \in Repos : DetectCommit(p, repo)
         \/ \E p \in Scans : MineRepo(p)
         \/ \E p \in Scans : LookupRows(p)
         \/ \E p \in Scans : PersistRows(p)
         \/ \E p \in Scans : ScanConflict(p) \/ LoseScan(p)
         \/ \E request \in Requests : Observe(request)
BY Zenon DEF Next

LEMMA NextCheckouts ==
  ASSUME CheckoutsAreFiles, [Next]_vars
  PROVE  CheckoutsAreFiles'
<1>1. CASE \E repo \in Repos, file \in Files : Edit(repo, file)
  <2>1. PICK repo \in Repos, file \in Files : Edit(repo, file)
    BY <1>1
  <2>2. PICK head \in {checkout[repo].head, edits + 1} :
          checkout' = [checkout EXCEPT ![repo] = [file |-> file, head |-> head]]
    BY <2>1 DEF Edit
  <2>3. edits' = edits + 1
    BY <2>1 DEF Edit
  <2> QED
    BY <2>2, <2>3 DEF CheckoutsAreFiles
<1>2. CASE UNCHANGED <<checkout, edits>>
  BY <1>2 DEF CheckoutsAreFiles
<1>3. (\E repo \in Repos, file \in Files : Edit(repo, file)) \/ UNCHANGED <<checkout, edits>>
  BY NextCases DEF vars, DetectCommit, MineRepo, LookupRows, PersistRows, ScanConflict,
                   LoseScan, Observe
<1> QED
  BY <1>1, <1>2, <1>3

LEMMA NextRouted ==
  ASSUME RequestsAreRouted, [Next]_vars
  PROVE  RequestsAreRouted'
<1>1. CASE \E request \in Requests : Observe(request)
  BY <1>1 DEF RequestsAreRouted, Observe
<1>2. CASE UNCHANGED <<spec, observed>>
  BY <1>2 DEF RequestsAreRouted
<1>3. (\E request \in Requests : Observe(request)) \/ UNCHANGED <<spec, observed>>
  BY NextCases DEF vars, tables, Edit, DetectCommit, MineRepo, LookupRows, PersistRows,
                   ScanConflict, LoseScan
<1> QED
  BY <1>1, <1>2, <1>3

-----------------------------------------------------------------------------
\* A step of one scan.

\* The others keep what they hold, and the table only grows.
LEMMA OtherScansKept ==
  ASSUME ScansAreWhole, NEW p \in Scans, NEW value,
         scan' = [scan EXCEPT ![p] = value],
         inferred_endpoints \subseteq inferred_endpoints'
  PROVE  /\ scan' = [q \in Scans |-> scan'[q]]
         /\ scan'[p] = value
         /\ \A q \in Scans \ {p} : ScanOK(q)'
<1>1. scan = [q \in Scans |-> scan[q]] /\ \A q \in Scans : ScanOK(q)
  BY DEF ScansAreWhole
<1>2. scan' = [q \in Scans |-> IF q = p THEN value ELSE scan[q]]
  BY <1>1
<1>3. ASSUME NEW q \in Scans \ {p}
      PROVE  ScanOK(q)'
  <2>1. scan'[q] = scan[q] /\ ScanOK(q)
    BY <1>1, <1>2, <1>3
  <2> QED
    BY <2>1 DEF ScanOK, Mining, LookingUp, Pending
<1> QED
  BY <1>2, <1>3

LEMMA ScanEnds ==
  ASSUME ScansAreWhole, NEW p \in Scans, scan' = [scan EXCEPT ![p] = IdleScan],
         inferred_endpoints \subseteq inferred_endpoints', scanned' \subseteq Reads
  PROVE  ScansAreWhole'
<1>1. /\ scan' = [q \in Scans |-> scan'[q]]
      /\ scan'[p] = IdleScan
      /\ \A q \in Scans \ {p} : ScanOK(q)'
  BY OtherScansKept
<1>2. ScanOK(p)'
  BY <1>1 DEF ScanOK, IdleScan
<1> QED
  BY <1>1, <1>2 DEF ScansAreWhole

LEMMA MineRepoKeepsInv ==
  ASSUME CatalogueInv, NEW p \in Scans, MineRepo(p)
  PROVE  ScansAreWhole' /\ RowsAreOfScans'
<1> DEFINE repo  == scan[p].repo
           sites == mine_repo(repo, checkout[repo].file)
           read  == [repo |-> repo, commit_sha |-> scan[p].commit_sha,
                     file |-> checkout[repo].file]
<1>1. ScansAreWhole /\ RowsAreOfScans /\ CheckoutsAreFiles
  BY DEF CatalogueInv
<1>2. scan[p] \in [pc : {"mine"}, repo : Repos, commit_sha : Nat]
  BY <1>1 DEF MineRepo, ScansAreWhole, ScanOK, Mining
<1>3. read \in Reads
  BY <1>1, <1>2 DEF Reads, CheckoutsAreFiles
<1>4. inferred_endpoints' = inferred_endpoints
  BY DEF MineRepo, tables
<1>5. CASE sites = {}
  <2>1. scan' = [scan EXCEPT ![p] = IdleScan] /\ scanned' = scanned \cup {read}
    BY <1>5 DEF MineRepo
  <2>2. scanned' \subseteq Reads
    BY <1>1, <1>3, <2>1 DEF ScansAreWhole
  <2>3. RowsOf(read) = {}
    BY <1>5 DEF RowsOf, Rows
  <2>4. UNION {RowsOf(r) : r \in scanned'} = UNION {RowsOf(r) : r \in scanned}
    <3> HIDE DEF read
    <3> QED
      BY <2>1, <2>3
  <2> QED
    BY <1>1, <1>4, <2>1, <2>2, <2>4, ScanEnds DEF RowsAreOfScans
<1>6. CASE sites # {}
  <2> DEFINE value == [pc |-> "lookup", read |-> read, sites |-> sites]
  <2>1. scan' = [scan EXCEPT ![p] = value] /\ scanned' = scanned
    BY <1>6 DEF MineRepo
  <2>2. /\ scan' = [q \in Scans |-> scan'[q]]
        /\ scan'[p] = value
        /\ \A q \in Scans \ {p} : ScanOK(q)'
    <3> HIDE DEF value
    <3> QED
      BY <1>1, <1>4, <2>1, OtherScansKept
  <2>3. ScanOK(p)'
    BY <1>3, <2>2 DEF ScanOK, LookingUp
  <2> QED
    BY <1>1, <1>4, <2>1, <2>2, <2>3 DEF ScansAreWhole, RowsAreOfScans
<1> QED
  BY <1>5, <1>6

LEMMA LookupRowsKeepsInv ==
  ASSUME CatalogueInv, NEW p \in Scans, LookupRows(p)
  PROVE  ScansAreWhole' /\ RowsAreOfScans'
<1> DEFINE read  == scan[p].read
           value == [pc |-> "persist", read |-> read,
                     new |-> Rows(read, scan[p].sites) \ inferred_endpoints]
<1>1. ScansAreWhole /\ RowsAreOfScans
  BY DEF CatalogueInv
<1>2. LookingUp(p) /\ p \in DOMAIN scan
  BY <1>1 DEF LookupRows, ScansAreWhole, ScanOK
<1>3. read \in Reads /\ Rows(read, scan[p].sites) = RowsOf(read)
  BY <1>2 DEF LookingUp, RowsOf
<1>4. /\ scan' = [scan EXCEPT ![p] = value]
      /\ inferred_endpoints' = inferred_endpoints /\ scanned' = scanned
  BY <1>2 DEF LookupRows, tables
<1>5. /\ scan' = [q \in Scans |-> scan'[q]]
      /\ scan'[p] = value
      /\ \A q \in Scans \ {p} : ScanOK(q)'
  <2> HIDE DEF value
  <2> QED
    BY <1>1, <1>4, OtherScansKept
<1>6. ScanOK(p)'
  BY <1>3, <1>4, <1>5 DEF ScanOK, Pending
<1> QED
  BY <1>1, <1>4, <1>5, <1>6 DEF ScansAreWhole, RowsAreOfScans

\* What is inserted and what others have inserted since are all that was found.
LEMMA PersistRowsKeepsInv ==
  ASSUME CatalogueInv, NEW p \in Scans, PersistRows(p)
  PROVE  ScansAreWhole' /\ RowsAreOfScans'
<1> DEFINE read == scan[p].read
<1>1. ScansAreWhole /\ RowsAreOfScans
  BY DEF CatalogueInv
<1>2. Pending(p)
  BY <1>1 DEF PersistRows, ScansAreWhole, ScanOK
<1>3. /\ inferred_endpoints' = inferred_endpoints \cup scan[p].new
      /\ scanned' = scanned \cup {read}
      /\ scan' = [scan EXCEPT ![p] = IdleScan]
  BY DEF PersistRows
<1>4. inferred_endpoints' = inferred_endpoints \cup RowsOf(read)
  BY <1>2, <1>3 DEF Pending
<1>5. scanned' \subseteq Reads
  BY <1>1, <1>2, <1>3 DEF Pending, ScansAreWhole
<1>6. RowsAreOfScans'
  <2> HIDE DEF read
  <2> QED
    BY <1>1, <1>3, <1>4 DEF RowsAreOfScans
<1> QED
  BY <1>1, <1>3, <1>4, <1>5, <1>6, ScanEnds

LEMMA NextScans ==
  ASSUME CatalogueInv, [Next]_vars
  PROVE  ScansAreWhole' /\ RowsAreOfScans'
<1>1. ScansAreWhole /\ RowsAreOfScans /\ CheckoutsAreFiles
  BY DEF CatalogueInv
<1>2. CASE UNCHANGED <<scan, inferred_endpoints, scanned>>
  BY <1>1, <1>2 DEF ScansAreWhole, RowsAreOfScans, ScanOK, Mining, LookingUp, Pending
<1>3. ASSUME NEW p \in Scans, NEW repo \in Repos, DetectCommit(p, repo)
      PROVE  ScansAreWhole' /\ RowsAreOfScans'
  <2> DEFINE value == [pc |-> "mine", repo |-> repo, commit_sha |-> checkout[repo].head]
  <2>1. /\ scan' = [scan EXCEPT ![p] = value]
        /\ inferred_endpoints' = inferred_endpoints /\ scanned' = scanned
    BY <1>3 DEF DetectCommit, tables
  <2>2. value \in [pc : {"mine"}, repo : Repos, commit_sha : Nat]
    BY <1>1 DEF CheckoutsAreFiles
  <2> HIDE DEF value
  <2>3. /\ scan' = [q \in Scans |-> scan'[q]]
        /\ scan'[p] = value
        /\ \A q \in Scans \ {p} : ScanOK(q)'
    BY <1>1, <2>1, OtherScansKept
  <2>4. ScanOK(p)'
    BY <2>2, <2>3 DEF ScanOK, Mining
  <2> QED
    BY <1>1, <2>1, <2>3, <2>4 DEF ScansAreWhole, RowsAreOfScans
<1>4. ASSUME NEW p \in Scans, ScanConflict(p) \/ LoseScan(p)
      PROVE  ScansAreWhole' /\ RowsAreOfScans'
  <2>1. /\ scan' = [scan EXCEPT ![p] = IdleScan]
        /\ inferred_endpoints' = inferred_endpoints /\ scanned' = scanned
    BY <1>4 DEF ScanConflict, LoseScan, tables
  <2> QED
    BY <1>1, <2>1, ScanEnds DEF ScansAreWhole, RowsAreOfScans
<1>5. CASE \E repo \in Repos, file \in Files : Edit(repo, file)
  BY <1>2, <1>5 DEF Edit, tables
<1>6. CASE \E request \in Requests : Observe(request)
  BY <1>2, <1>6 DEF Observe
<1>7. CASE UNCHANGED vars
  BY <1>2, <1>7 DEF vars, tables
<1> QED
  BY <1>3, <1>4, <1>5, <1>6, <1>7, NextCases, MineRepoKeepsInv, LookupRowsKeepsInv,
     PersistRowsKeepsInv

LEMMA NextCatalogueInv == CatalogueInv /\ [Next]_vars => CatalogueInv'
BY NextCheckouts, NextRouted, NextScans DEF CatalogueInv

LEMMA CatalogueInvHolds == Spec => []CatalogueInv
<1>1. Init => CatalogueInv
  BY InitCatalogueInv
<1>2. CatalogueInv /\ [Next]_vars => CatalogueInv'
  BY NextCatalogueInv
<1> QED
  BY <1>1, <1>2, PTL DEF Spec

-----------------------------------------------------------------------------
\* Whatever the specification and the URL, a request is counted under a template
\* that fits its path, and under the operation that serves it unless the trie is
\* blind to it (url_match.py:49, :59).
THEOREM RequestsFindTheirRoutes == Spec => []RoutesAreFound
<1>1. CatalogueInv => RoutesAreFound
  <2> SUFFICES ASSUME CatalogueInv, NEW o \in observed
               PROVE  LET path == _strip_to_path(o.request.url)
                      IN /\ Fits(o.path_template, path)
                         /\ \A i \in Preferred(spec, Candidates(spec, o.request.method, path)) :
                              \/ Hides(spec, i, path)
                              \/ Shares(spec, i)
                              \/ o.path_template = spec[i].template
    BY DEF RoutesAreFound
  <2> DEFINE path == _strip_to_path(o.request.url)
  <2>1. /\ \E s \in Situations : spec = s.spec
        /\ o.request \in Requests
        /\ o.path_template = normalize_observed_path(o.request.url, o.request.method,
                                                     build_route_tree(spec))
    BY DEF CatalogueInv, RequestsAreRouted
  <2>2. spec \in Seq(Items) /\ path \in Paths
    BY <2>1, CatalogueAssumption DEF Items
  <2>3. /\ Fits(o.path_template, path)
        /\ \A i \in Candidates(spec, o.request.method, path) :
             \/ Hides(spec, i, path)
             \/ Shares(spec, i)
             \/ o.path_template = spec[i].template
    BY <2>1, <2>2, RouteOfRequest
  <2>4. Preferred(spec, Candidates(spec, o.request.method, path))
          \subseteq Candidates(spec, o.request.method, path)
    BY DEF Preferred
  <2> QED
    BY <2>3, <2>4
<1> QED
  BY <1>1, CatalogueInvHolds, PTL

\* Scans are all or nothing: the rows are what the scans that succeeded found, each
\* all of it, also where two of them found the same; those that failed or met the
\* unique key left nothing (repo_scanner.py:137-177).
THEOREM RowsStayOfScans == Spec => []RowsAreOfScans
<1>1. CatalogueInv => RowsAreOfScans
  BY DEF CatalogueInv
<1> QED
  BY <1>1, CatalogueInvHolds, PTL

\* A change of an operation names the clients that call it and no others, however
\* scans, edits and failures interleave, if the visitors are right about each file
\* by itself (VisitorsAssumption).
THEOREM CallersAreNamed == Spec => []AffectedAreTheCallers
<1>1. CatalogueInv => AffectedAreTheCallers
  <2> SUFFICES ASSUME CatalogueInv,
                      NEW op \in Operations(spec), NEW repo \in Repos \ Ignored
               PROVE  LET reads    == {read \in scanned : read.repo = repo}
                          affected == repo \in affected_clients(op.method, op.path)
                      IN /\ (\E read \in reads : \E call \in Range(read.file.calls) :
                               MadeFor(read.file, call) /\ op \in Sent(read.file, call))
                              => affected
                         /\ affected =>
                              \E read \in reads : \E call \in Range(read.file.calls) :
                                op \in Sent(read.file, call) \/ ~MadeFor(read.file, call)
    BY DEF AffectedAreTheCallers
  <2> DEFINE reads    == {read \in scanned : read.repo = repo}
             affected == repo \in affected_clients(op.method, op.path)
             Found(read) == \E f \in Mined(read.file) : Names(f, op.method, op.path)
  <2>1. /\ scanned \subseteq Reads
        /\ inferred_endpoints = UNION {RowsOf(read) : read \in scanned}
    BY DEF CatalogueInv, ScansAreWhole, RowsAreOfScans
  <2>2. PICK s \in Situations : spec = s.spec
    BY DEF CatalogueInv, RequestsAreRouted
  <2>3. \A read \in reads : RowsOf(read) =
          [repo : {repo}, commit_sha : {read.commit_sha}, found : Mined(read.file)]
    BY DEF RowsOf, Rows, mine_repo
  <2>4. affected => \E read \in reads : Found(read)
    <3> SUFFICES ASSUME affected
                 PROVE  \E read \in reads : Found(read)
      OBVIOUS
    <3>1. PICK row \in inferred_endpoints :
            row.repo = repo /\ Names(row.found, op.method, op.path)
      BY DEF affected_clients
    <3>2. PICK read \in scanned : row \in RowsOf(read)
      BY <2>1, <3>1
    <3>3. read \in reads /\ row.found \in Mined(read.file)
      BY <3>1, <3>2 DEF RowsOf, Rows, mine_repo
    <3> QED
      BY <3>1, <3>3
  <2>5. ASSUME NEW read \in reads, Found(read)
        PROVE  affected
    <3>1. PICK f \in Mined(read.file) : Names(f, op.method, op.path)
      BY <2>5
    <3> DEFINE row == [repo |-> repo, commit_sha |-> read.commit_sha, found |-> f]
    <3>2. row \in inferred_endpoints
      BY <2>1, <2>3
    <3> QED
      BY <3>1, <3>2 DEF affected_clients
  <2>6. \A read \in reads :
          LET calls == Range(read.file.calls)
          IN /\ (\E call \in calls : MadeFor(read.file, call) /\ op \in Sent(read.file, call))
                  => Found(read)
             /\ Found(read) =>
                  \E call \in calls : op \in Sent(read.file, call) \/ ~MadeFor(read.file, call)
    <3> SUFFICES ASSUME NEW read \in reads
                 PROVE  LET calls == Range(read.file.calls)
          IN /\ (\E call \in calls : MadeFor(read.file, call) /\ op \in Sent(read.file, call))
                  => Found(read)
             /\ Found(read) =>
                  \E call \in calls : op \in Sent(read.file, call) \/ ~MadeFor(read.file, call)
      OBVIOUS
    <3>1. read.file \in Files /\ op \in Operations(s.spec)
      BY <2>1, <2>2 DEF Reads
    <3> QED
      BY <3>1, VisitorsAssumption
  <2> QED
    BY <2>4, <2>5, <2>6
<1> QED
  BY <1>1, CatalogueInvHolds, PTL
=============================================================================
