---------------------------- MODULE GuidesProofs ----------------------------
(***************************************************************************)
(* Theorems about Guides, for any number of keys, requests and texts and   *)
(* any limit of retries.                                                   *)
(***************************************************************************)
EXTENDS Guides, TLAPS

LEMMA InitTypeOK == Init => TypeOK
BY DEF Init, TypeOK

LEMMA StepTypeOK ==
  ASSUME TypeOK, NEW r \in Requests, Step(r)
  PROVE  TypeOK'
<1> USE GuidesAssumption DEF TypeOK, Set, OpenRequests
<1>1. request[r] \in {IdleRequest} \cup OpenRequests
  OBVIOUS
<1>2. CASE CacheHit(r)
  BY <1>1, <1>2 DEF CacheHit, Lookup, Serve, IdleRequest
<1>3. CASE DiffNotFound(r)
  BY <1>1, <1>3 DEF DiffNotFound, Lookup, Leave
<1>4. CASE CacheMiss(r)
  BY <1>1, <1>4 DEF CacheMiss, Lookup, Start, IdleRequest
<1>5. ASSUME NEW text \in Texts,
             AcceptDraft(r, text) \/ RetryDraft(r, text) \/ GiveUp(r, text)
      PROVE  TypeOK'
  <2>1. CASE AcceptDraft(r, text)
    BY <1>1, <2>1 DEF AcceptDraft, Complete, Guides, IdleRequest
  <2>2. CASE RetryDraft(r, text)
    BY <1>1, <2>2 DEF RetryDraft, Complete, IdleRequest
  <2>3. CASE GiveUp(r, text)
    BY <1>1, <2>3 DEF GiveUp, Complete, Leave
  <2> QED
    BY <1>5, <2>1, <2>2, <2>3
<1>6. CASE CommitGuide(r)
  BY <1>1, <1>6 DEF CommitGuide, Serve, IdleRequest
<1>7. CASE ServeWinner(r)
  BY <1>1, <1>7 DEF ServeWinner, Serve, IdleRequest
<1>8. CASE Respond(r)
  BY <1>1, <1>8 DEF Respond, Leave
<1> QED
  BY <1>2, <1>3, <1>4, <1>5, <1>6, <1>7, <1>8 DEF Step

LEMMA NextTypeOK == TypeOK /\ [Next]_vars => TypeOK'
<1> SUFFICES ASSUME TypeOK, [Next]_vars PROVE TypeOK'
  OBVIOUS
<1>1. CASE UNCHANGED vars
  BY <1>1 DEF vars, TypeOK
<1>2. ASSUME NEW r \in Requests, NEW k \in Keys, Receive(r, k)
      PROVE  TypeOK'
  BY <1>2 DEF Receive, Set, TypeOK, OpenRequests
<1>3. ASSUME NEW r \in Requests, LoseRequest(r)
      PROVE  TypeOK'
  BY <1>3 DEF LoseRequest, Leave, Set, TypeOK
<1> QED
  BY <1>1, <1>2, <1>3, StepTypeOK DEF Next

\* Every reachable state is type correct: no stored or served guide has a code
\* block that does not parse, and none took more retries than the limit.
THEOREM TypeCorrect == Spec => []TypeOK
BY InitTypeOK, NextTypeOK, PTL DEF Spec

-----------------------------------------------------------------------------
\* What a request knows about the table: it stays to be true because no step
\* rewrites a stored guide.
LateInv ==
  \A r \in Requests :
    /\ request[r].pc = "lookup" /\ request[r].late
         => guides[request[r].key] # NoGuide
    /\ request[r].pc = "complete" => ~request[r].late

LEMMA NextLateInv == TypeOK /\ LateInv /\ [Next]_vars => LateInv'
<1> SUFFICES ASSUME TypeOK, LateInv, [Next]_vars PROVE LateInv'
  OBVIOUS
<1>1. ASSUME NEW r \in Requests, NEW record, Set(r, record), UNCHANGED guides,
             record.pc # "lookup",
             record.pc = "complete" => ~record.late
      PROVE  LateInv'
  BY <1>1 DEF LateInv, Set, TypeOK
<1>2. ASSUME NEW r \in Requests, NEW k \in Keys, Receive(r, k)
      PROVE  LateInv'
  BY <1>2 DEF Receive, LateInv, Set, TypeOK
<1>3. ASSUME NEW r \in Requests, Step(r)
      PROVE  LateInv'
  <2>1. CASE CacheHit(r)
    BY <1>1, <2>1 DEF CacheHit, Lookup, Serve
  <2>2. CASE DiffNotFound(r)
    BY <1>1, <2>2 DEF DiffNotFound, Lookup, Leave, IdleRequest
  <2>3. CASE CacheMiss(r)
    BY <1>1, <2>3 DEF CacheMiss, Lookup, Start, LateInv
  <2>4. ASSUME NEW text \in Texts, AcceptDraft(r, text)
        PROVE  LateInv'
    BY <1>1, <2>4 DEF AcceptDraft, Complete
  <2>5. ASSUME NEW text \in Texts, RetryDraft(r, text)
        PROVE  LateInv'
    BY <2>5 DEF RetryDraft, Complete, LateInv, TypeOK, OpenRequests, IdleRequest
  <2>6. ASSUME NEW text \in Texts, GiveUp(r, text)
        PROVE  LateInv'
    BY <1>1, <2>6 DEF GiveUp, Complete, Leave, IdleRequest
  <2>7. CASE CommitGuide(r)
    BY <2>7, GuidesAssumption
       DEF CommitGuide, Serve, Set, LateInv, TypeOK, OpenRequests, Guides, IdleRequest
  <2>8. CASE ServeWinner(r)
    BY <1>1, <2>8 DEF ServeWinner, Serve
  <2>9. CASE Respond(r)
    BY <1>1, <2>9 DEF Respond, Leave, IdleRequest
  <2> QED
    BY <1>3, <2>1, <2>2, <2>3, <2>4, <2>5, <2>6, <2>7, <2>8, <2>9 DEF Step
<1>4. ASSUME NEW r \in Requests, LoseRequest(r)
      PROVE  LateInv'
  BY <1>1, <1>4 DEF LoseRequest, Leave, IdleRequest
<1>5. CASE UNCHANGED vars
  BY <1>5 DEF vars, LateInv
<1> QED
  BY <1>2, <1>3, <1>4, <1>5 DEF Next

\* Repeat calls do not invoke the language model (get_guide).
THEOREM RepeatCallsAreFree == Spec => []RepeatCallsDoNotDraft
<1>1. Init => LateInv
  BY DEF Init, LateInv, IdleRequest
<1>2. LateInv => RepeatCallsDoNotDraft
  BY DEF LateInv, RepeatCallsDoNotDraft
<1> QED
  BY <1>1, <1>2, InitTypeOK, NextTypeOK, NextLateInv, PTL DEF Spec

-----------------------------------------------------------------------------
answers == [r \in Requests |-> Answer(r)]

\* What replacing the record of one request does to the answers.
LEMMA SetAnswer ==
  ASSUME TypeOK, NEW r \in Requests, NEW record, Set(r, record)
  PROVE  answers' = [answers EXCEPT ![r] =
                       IF record.pc = "served" THEN record.guide ELSE NoGuide]
BY DEF TypeOK, Set, answers, Answer

LEMMA LeaveAnswer ==
  ASSUME TypeOK, NEW r \in Requests, Leave(r), UNCHANGED guides
  PROVE  Cache!Leave(r)
BY SetAnswer DEF Leave, IdleRequest, Cache!Leave, answers

LEMMA ServeStored ==
  ASSUME TypeOK, NEW r \in Requests, request[r] \in OpenRequests,
         guides[request[r].key] # NoGuide,
         Serve(r, guides[request[r].key]), UNCHANGED guides
  PROVE  Cache!Next
<1>1. request[r].key \in Keys
  BY GuidesAssumption DEF OpenRequests
<1>2. answers' = [answers EXCEPT ![r] = guides[request[r].key]]
  BY SetAnswer DEF Serve
<1> QED
  BY <1>1, <1>2 DEF Cache!Next, Cache!Serve, answers

\* Steps between two states in which r has no answer.
LEMMA NoAnswerYet ==
  ASSUME TypeOK, NEW r \in Requests, NEW record, Set(r, record),
         record.pc # "served", request[r].pc # "served"
  PROVE  answers' = answers
BY SetAnswer DEF answers, Answer

LEMMA StepImplementsCache ==
  ASSUME TypeOK, NEW r \in Requests, Step(r)
  PROVE  [Cache!Next]_<<guides, answers>>
<1>0. request[r].pc # "idle" => request[r] \in OpenRequests
  BY DEF TypeOK, IdleRequest
<1>1. CASE CacheHit(r)
  BY <1>0, <1>1, ServeStored DEF CacheHit, Lookup
<1>2. CASE DiffNotFound(r)
  BY <1>2, LeaveAnswer DEF DiffNotFound, Lookup, Cache!Next
<1>3. CASE CacheMiss(r)
  BY <1>3, NoAnswerYet DEF CacheMiss, Lookup, Start
<1>4. ASSUME NEW text \in Texts, AcceptDraft(r, text)
      PROVE  [Cache!Next]_<<guides, answers>>
  BY <1>4, NoAnswerYet DEF AcceptDraft, Complete
<1>5. ASSUME NEW text \in Texts, RetryDraft(r, text)
      PROVE  [Cache!Next]_<<guides, answers>>
  BY <1>0, <1>5 DEF RetryDraft, Complete, answers, Answer, TypeOK, OpenRequests
<1>6. ASSUME NEW text \in Texts, GiveUp(r, text)
      PROVE  [Cache!Next]_<<guides, answers>>
  BY <1>6, LeaveAnswer DEF GiveUp, Complete, Cache!Next
<1>7. CASE CommitGuide(r)
  <2>1. request[r].key \in Keys /\ request[r].guide \in Guides
    BY <1>0, <1>7 DEF CommitGuide, OpenRequests
  <2>2. answers' = [answers EXCEPT ![r] = request[r].guide]
    BY <1>7, SetAnswer DEF CommitGuide, Serve
  <2>3. guides'[request[r].key] = request[r].guide
    BY <1>7, <2>1 DEF CommitGuide, TypeOK
  <2>4. /\ guides[request[r].key] = NoGuide
        /\ guides' = [guides EXCEPT ![request[r].key] = request[r].guide]
    BY <1>7 DEF CommitGuide
  <2>5. Cache!Serve(r, request[r].key)
    BY <2>1, <2>2, <2>3, <2>4 DEF Cache!Serve, answers
  <2> QED
    BY <2>1, <2>5 DEF Cache!Next
<1>8. CASE ServeWinner(r)
  BY <1>0, <1>8, ServeStored DEF ServeWinner
<1>9. CASE Respond(r)
  BY <1>9, LeaveAnswer DEF Respond, Cache!Next
<1> QED
  BY <1>1, <1>2, <1>3, <1>4, <1>5, <1>6, <1>7, <1>8, <1>9 DEF Step

\* One guide per key, and every caller is served that one, also the loser of a
\* race (GuideService.generate).
THEOREM GuidesImplementCache == Spec => ImplementsGuideCache
<1>1. Init => Cache!Init
  BY DEF Init, Cache!Init, Answer, IdleRequest
<1>2. TypeOK /\ [Next]_vars => [Cache!Next]_<<guides, answers>>
  <2> SUFFICES ASSUME TypeOK, [Next]_vars
               PROVE  [Cache!Next]_<<guides, answers>>
    OBVIOUS
  <2>1. CASE UNCHANGED vars
    BY <2>1 DEF vars, answers, Answer
  <2>2. ASSUME NEW r \in Requests, NEW k \in Keys, Receive(r, k)
        PROVE  [Cache!Next]_<<guides, answers>>
    BY <2>2, NoAnswerYet DEF Receive
  <2>3. ASSUME NEW r \in Requests, LoseRequest(r)
        PROVE  [Cache!Next]_<<guides, answers>>
    BY <2>3, LeaveAnswer DEF LoseRequest, Cache!Next
  <2> QED
    BY <2>1, <2>2, <2>3, StepImplementsCache DEF Next
<1> QED
  BY <1>1, <1>2, InitTypeOK, NextTypeOK, PTL
     DEF Spec, ImplementsGuideCache, Cache!Spec, answers
=============================================================================
