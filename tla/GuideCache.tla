----------------------------- MODULE GuideCache -----------------------------
(***************************************************************************)
(* What the guide service promises its callers: the guide of a key is      *)
(* drafted at most once, and every answer for the key is that guide.       *)
(***************************************************************************)
CONSTANTS Keys, Requests, Answers, NoAnswer

VARIABLES
  cache,     \* the guide of each key, NoAnswer before it is drafted
  answer     \* what each caller was answered last, NoAnswer for an error

Init ==
  /\ cache = [k \in Keys |-> NoAnswer]
  /\ answer = [r \in Requests |-> NoAnswer]

\* The guide is drafted for the first caller that gets one.
Serve(r, k) ==
  /\ \/ cache[k] = NoAnswer /\ \E text \in Answers : cache' = [cache EXCEPT ![k] = text]
     \/ cache[k] # NoAnswer /\ UNCHANGED cache
  /\ answer' = [answer EXCEPT ![r] = cache'[k]]

Leave(r) ==
  /\ answer' = [answer EXCEPT ![r] = NoAnswer]
  /\ UNCHANGED cache

Next == \E r \in Requests : Leave(r) \/ \E k \in Keys : Serve(r, k)

Spec == Init /\ [][Next]_<<cache, answer>>
=============================================================================
