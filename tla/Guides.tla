------------------------------- MODULE Guides -------------------------------
(***************************************************************************)
(* GET /guides/{diff_id}/{client_id} (apps/api/routes/guides.py) and       *)
(* GuideService (guardian_guides/service.py): a cache lookup, a loop of    *)
(* calls to the language model, an INSERT that the unique key may refuse   *)
(* and, for the request that lost the race, the row of the winner.         *)
(*                                                                         *)
(* A key stands for the hash of diff, client, prompt version and model.    *)
(* Nothing updates or deletes a row of guides.                             *)
(***************************************************************************)
EXTENDS Integers

CONSTANTS
  Keys,           \* cache keys that callers may ask for
  KnownKeys,      \* those whose contract_diffs row exists
  Requests,       \* requests that may be in progress at once
  Texts,          \* markdown the language model may answer
  ParsableTexts,  \* markdown whose code blocks all parse
  RETRY_LIMIT,
  NoGuide

ASSUME GuidesAssumption ==
  /\ KnownKeys \subseteq Keys
  /\ ParsableTexts \subseteq Texts
  /\ RETRY_LIMIT \in Nat
  /\ NoGuide \notin [markdown : Texts, retries : 0..RETRY_LIMIT]

VARIABLES
  guides,    \* the guides table by prompt_hash, the cache key
  request    \* what each request holds

vars == <<guides, request>>

\* What the repository may store; RETRY_LIMIT counts the calls after the first.
Guides == [markdown : ParsableTexts, retries : 0..RETRY_LIMIT]

\* late is a history field: the guide was stored when the request arrived.
IdleRequest == [pc |-> "idle"]
OpenRequests ==
  [pc : {"lookup"}, key : Keys, late : BOOLEAN]
    \cup [pc : {"complete"}, key : KnownKeys, late : BOOLEAN,
          attempts : 0..RETRY_LIMIT]
    \cup [pc : {"commit", "served"}, key : Keys, late : BOOLEAN, guide : Guides]

TypeOK ==
  /\ guides \in [Keys -> Guides \cup {NoGuide}]
  /\ request \in [Requests -> {IdleRequest} \cup OpenRequests]

Init ==
  /\ guides = [k \in Keys |-> NoGuide]
  /\ request = [r \in Requests |-> IdleRequest]

Set(r, record) == request' = [request EXCEPT ![r] = record]
Leave(r) == Set(r, IdleRequest)

Serve(r, guide) ==
  Set(r, [pc |-> "served", key |-> request[r].key, late |-> request[r].late,
          guide |-> guide])

-----------------------------------------------------------------------------
Receive(r, k) ==
  /\ request[r].pc = "idle"
  /\ Set(r, [pc |-> "lookup", key |-> k, late |-> guides[k] # NoGuide])
  /\ UNCHANGED guides

Lookup(r) ==
  /\ request[r].pc = "lookup"
  /\ UNCHANGED guides

CacheHit(r) ==
  /\ Lookup(r)
  /\ guides[request[r].key] # NoGuide
  /\ Serve(r, guides[request[r].key])

\* _build_context raises LookupError: 404.
DiffNotFound(r) ==
  /\ Lookup(r)
  /\ guides[request[r].key] = NoGuide
  /\ request[r].key \notin KnownKeys
  /\ Leave(r)

Start(r) ==
  Set(r, [pc |-> "complete", key |-> request[r].key, late |-> request[r].late,
          attempts |-> 0])

\* A plausible slip: only guides that parsed at once count as cached.
CacheMissOfRetried(r) ==
  /\ Lookup(r)
  /\ guides[request[r].key] # NoGuide => guides[request[r].key].retries # 0
  /\ request[r].key \in KnownKeys
  /\ Start(r)

CacheMiss(r) ==
  /\ Lookup(r)
  /\ guides[request[r].key] = NoGuide
  /\ request[r].key \in KnownKeys
  /\ Start(r)

\* A call of the language model that returns.
Complete(r) ==
  /\ request[r].pc = "complete"
  /\ UNCHANGED guides

AcceptDraft(r, text) ==
  /\ Complete(r)
  /\ text \in ParsableTexts
  /\ Set(r, [pc |-> "commit", key |-> request[r].key, late |-> request[r].late,
             guide |-> [markdown |-> text, retries |-> request[r].attempts]])

\* A plausible slip: one attempt more than the limit.
RetryDraftOnceMore(r, text) ==
  /\ Complete(r)
  /\ text \notin ParsableTexts
  /\ request[r].attempts <= RETRY_LIMIT
  /\ request' = [request EXCEPT ![r].attempts = @ + 1]

\* A code block does not parse: the next prompt is the strict one, which is
\* the prompt of every attempt but the first.
RetryDraft(r, text) ==
  /\ Complete(r)
  /\ text \notin ParsableTexts
  /\ request[r].attempts < RETRY_LIMIT
  /\ request' = [request EXCEPT ![r].attempts = @ + 1]

\* A plausible slip: the count starts over instead of ending the loop.
GiveUpStartsOver(r, text) ==
  /\ Complete(r)
  /\ text \notin ParsableTexts
  /\ request[r].attempts = RETRY_LIMIT
  /\ Start(r)

\* GuideGenerationError: 502.
GiveUp(r, text) ==
  /\ Complete(r)
  /\ text \notin ParsableTexts
  /\ request[r].attempts = RETRY_LIMIT
  /\ Leave(r)

CommitGuide(r) ==
  /\ request[r].pc = "commit"
  /\ guides[request[r].key] = NoGuide
  /\ guides' = [guides EXCEPT ![request[r].key] = request[r].guide]
  /\ Serve(r, request[r].guide)

\* A plausible slip: after the rollback the request serves its own draft.
ServeOwnDraft(r) ==
  /\ request[r].pc = "commit"
  /\ guides[request[r].key] # NoGuide
  /\ Serve(r, request[r].guide)
  /\ UNCHANGED guides

\* uq_guides_prompt_hash: roll back, look up again.
ServeWinner(r) ==
  /\ request[r].pc = "commit"
  /\ guides[request[r].key] # NoGuide
  /\ Serve(r, guides[request[r].key])
  /\ UNCHANGED guides

Respond(r) ==
  /\ request[r].pc = "served"
  /\ Leave(r)
  /\ UNCHANGED guides

\* The language model cannot be reached, the database is lost or the process
\* dies: the transaction is rolled back.
LoseRequest(r) ==
  /\ request[r].pc # "idle"
  /\ Leave(r)
  /\ UNCHANGED guides

Step(r) ==
  \/ CacheHit(r)
  \/ DiffNotFound(r)
  \/ CacheMiss(r)
  \/ \E text \in Texts :
       AcceptDraft(r, text) \/ RetryDraft(r, text) \/ GiveUp(r, text)
  \/ CommitGuide(r)
  \/ ServeWinner(r)
  \/ Respond(r)

Next ==
  \E r \in Requests :
    \/ \E k \in Keys : Receive(r, k)
    \/ Step(r)
    \/ LoseRequest(r)

Spec == Init /\ [][Next]_vars

\* The language model answers every call, and the process goes on.
FairSpec == Spec /\ \A r \in Requests : WF_vars(Step(r))

-----------------------------------------------------------------------------
\* "repeat calls do not invoke the LLM" (get_guide): a request for a guide
\* that was stored when it arrived never gets to call the language model.
RepeatCallsDoNotDraft ==
  \A r \in Requests : request[r].pc = "complete" => ~request[r].late

\* Every request is answered, although the model may never draft a guide that
\* parses: _run_with_retries ends.
RequestsAreAnswered ==
  \A r \in Requests : request[r].pc # "idle" ~> request[r].pc = "idle"

\* What a caller was served, as GuideCache sees it.
Answer(r) ==
  IF request[r].pc = "served" THEN request[r].guide ELSE NoGuide

\* One guide is drafted for each key, and every request is served that one,
\* also the request that loses the race (generate, lines 195-203).
Cache == INSTANCE GuideCache
           WITH Answers <- Guides, NoAnswer <- NoGuide,
                cache <- guides, answer <- [r \in Requests |-> Answer(r)]
ImplementsGuideCache == Cache!Spec
=============================================================================
