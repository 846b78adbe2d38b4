------------------------------ MODULE UrlPaths ------------------------------
(***************************************************************************)
(* guardian_core/mining/path_normalize.py: URLs and path templates. A URL  *)
(* is a sequence of tokens: literals, of which "/", "?" and "://" are      *)
(* marks, and holes where an expression is interpolated. The names of the  *)
(* holes are kept apart, as in the code. No two words are adjacent.        *)
(*                                                                         *)
(* A path is the sequence of its segments, each a sequence of tokens.      *)
(* normalize_template and RouteTree both drop empty segments, so the slash *)
(* at either end says nothing.                                             *)
(***************************************************************************)
EXTENDS Naturals, FiniteSets, SequencesExt

CONSTANT IdWords   \* words that look like a number or a UUID

Lit(word) == [lit |-> word]
Hole == [hole |-> TRUE]
Slot(name) == [slot |-> name]

Tokens == [lit : STRING] \cup [hole : {TRUE}] \cup [slot : STRING]
Paths == Seq(Seq(Tokens) \ {<<>>})

Text(words) == [i \in DOMAIN words |-> Lit(words[i])]

From(url, i) == SubSeq(url, i, Len(url))
Where(url, marks) == {i \in DOMAIN url : url[i] \in {Lit(m) : m \in marks}}

\* The first two tokens of an absolute URL are its scheme and the mark.
_strip_scheme(url) ==
  IF Len(url) < 2 \/ url[2] # Lit("://") THEN url
  ELSE LET ends == Where(url, {"/", "?"})
       IN IF ends = {} THEN <<>> ELSE From(url, Min(ends))

CutQuery(url) ==
  LET marks == Where(url, {"?"})
  IN IF marks = {} THEN url ELSE SubSeq(url, 1, Min(marks) - 1)

Segments(url) ==
  LET Put(segments, token) ==
        IF token = Lit("/") THEN Append(segments, <<>>)
        ELSE [segments EXCEPT ![Len(segments)] = Append(@, token)]
  IN SelectSeq(FoldLeft(Put, << <<>> >>, url), LAMBDA segment : segment # <<>>)

\* A name that is used again gets a number.
_label_placeholders(names) ==
  [i \in DOMAIN names |->
     LET nth == Cardinality({k \in 1..i : names[k] = names[i]})
     IN IF nth = 1 THEN names[i] ELSE names[i] \o ToString(nth)]

\* The holes of the path take the labels in order, from the first label on,
\* also when holes went away with the host.
normalize_template(raw, names) ==
  LET path   == CutQuery(_strip_scheme(raw))
      labels == _label_placeholders(names)
      Nth(i) == Cardinality({k \in 1..i : path[k] = Hole})
  IN Segments([i \in DOMAIN path |->
                 IF path[i] = Hole THEN Slot(labels[Nth(i)]) ELSE path[i]])

abstract_static_segments(path) ==
  [k \in DOMAIN path |->
     IF path[k] \in {<<Lit(w)>> : w \in IdWords} THEN <<Slot("id")>> ELSE path[k]]

\* url_match.py cuts an observed URL, which has no holes, in the same way.
_strip_to_path(url) == Segments(CutQuery(_strip_scheme(url)))

-----------------------------------------------------------------------------
\* What a template means: a slot stands for any one segment.
IsSlot(segment) == Len(segment) = 1 /\ "slot" \in DOMAIN segment[1]

Fits(template, path) ==
  /\ Len(template) = Len(path)
  /\ \A k \in DOMAIN path : IsSlot(template[k]) \/ template[k] = path[k]
=============================================================================
