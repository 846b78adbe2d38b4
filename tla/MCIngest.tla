------------------------------ MODULE MCIngest ------------------------------
EXTENDS DefactoContracts

CONSTANTS a, p1, p2, e1, e2

\* GET /a/7, which the specification has as /a/{id} and a heuristic too, and
\* GET /a/me, which is an endpoint of its own without the specification.
Get(words) == [method |-> "GET", url |-> Text(words)]
U1 == Get(<<"/", "a", "/", "7">>)
U2 == Get(<<"/", "a", "/", "me">>)
MCUrls == {U1, U2}

One == Leaf("integer", "1")
X(x) == Body("x" :> x)
XY(x) == Body("x" :> x @@ "y" :> One)
K == Leaf("string", "k")
L == Leaf("string", "l")
M == Leaf("string", "m")
Nested == Body("z" :> One)
Y == Body("y" :> One)
MCBodies == {X(K), X(L), XY(M), Y, X(Nested)}
Record(u, body) == [url |-> u, body |-> body]

\* Two payloads name the same two URLs in opposite orders. What looks like an
\* enum without the specification does not under it; x is a string in one and
\* an object in the other; and under it the second has no field in all bodies.
MCRecords ==
  p1 :> <<Record(U1, X(K)), Record(U1, X(L)), Record(U1, X(K)), Record(U1, X(L)),
          Record(U2, XY(M))>> @@
  p2 :> <<Record(U2, Y), Record(U1, X(Nested)), Record(U1, None)>>

Path(segment) == <<<<Lit("a")>>, <<segment>>>>
MCNameOf ==
  e1 :> [method |-> "GET", path |-> Path(Slot("id"))] @@
  e2 :> [method |-> "GET", path |-> Path(Lit("me"))]

MCKindOf == a :> "openapi"

Typed(properties) == [type |-> {"object"}, properties |-> properties]
MCPathItems ==
  None :> <<>> @@
  a :> <<[template |-> Path(Slot("id")), methods |-> {"GET"},
          schema |-> Typed("x" :> Typed("w" :> [type |-> {"string"}]) @@
                           "v" :> [type |-> {"string"}])]>>
=============================================================================
