-------------------------- MODULE CampaignsProofs --------------------------
(***************************************************************************)
(* Theorems about Campaigns, for any sets of campaigns, repositories,      *)
(* requests and workers and any bound on failures.                         *)
(***************************************************************************)
EXTENDS Campaigns, TLAPS

\* A worker that is about to commit a reminder row has a repository for it.
RemindHasRepo ==
  \A w \in Workers : worker[w].pc = "remind" => NeedsReminder(worker[w].new)

TypeInv == TypeOK /\ RemindHasRepo

-----------------------------------------------------------------------------
(* Types.                                                                  *)

\* What the pc of a worker says about the rest of its record.
LEMMA WorkerTypes ==
  ASSUME TypeOK, NEW w \in Workers
  PROVE  /\ IsEvaluating(w) => worker[w] \in Evaluations
         /\ worker[w].pc = "enqueue" => worker[w] \in Enqueuings
         /\ IsSending(w) => worker[w] \in Sendings
         /\ worker[w] \in {IdleWorker} \cup Evaluations \cup Enqueuings
                                       \cup Sendings
BY DEF TypeOK, IsEvaluating, IsSending, Evaluations, Enqueuings, Sendings,
       IdleWorker

\* What the pc of a request handler says about the rest of its record.
LEMMA RequestTypes ==
  ASSUME TypeOK, NEW r \in Requests, request[r].pc = "commit"
  PROVE  request[r] \in OpenRequests
BY DEF TypeOK, OpenRequests, IdleRequest

\* The UPDATE of a typed session yields a typed row.
LEMMA UpdatedType ==
  ASSUME NEW row \in Rows, NEW old \in Rows, NEW new \in Rows
  PROVE  Updated(row, old, new) \in Rows
BY DEF Updated, Rows

\* Evaluation yields a state of the machine, or none for a missing campaign.
LEMMA EvaluateType ==
  ASSUME NEW s \in STATES \cup {"none"}, NEW usage, NEW peak, NEW threshold
  PROVE  Evaluate(s, usage, peak, threshold) \in STATES \cup {"none"}
BY DEF Evaluate, Dest, STATES

\* Firing a trigger yields a state of the machine.
LEMMA FireType ==
  ASSUME NEW s \in STATES \cup {"none"}, NEW trigger \in Triggers,
         NEW usage, NEW peak, NEW threshold
  PROVE  Fire(trigger, s, usage, peak, threshold) \in STATES \cup {"none"}
BY DEF Fire, Dest, STATES, Triggers

\* The initial state is well typed.
LEMMA InitTypeInv == Init => TypeInv
BY ConstantsAssumption DEF Init, TypeInv, TypeOK, RemindHasRepo, Rows,
   Reminders, IdleRequest, IdleWorker, Keys

\* Every step keeps the types.
LEMMA NextTypeInv == TypeInv /\ [Next]_vars => TypeInv'
<1> SUFFICES ASSUME TypeInv, [Next]_vars PROVE TypeInv'
  OBVIOUS
<1> USE DEF TypeInv
<1>1. ASSUME NEW c \in Campaigns, NEW threshold \in Thresholds,
             NEW repo \in Repos \cup {NoRepo},
             CreateCampaign(c, threshold, repo)
      PROVE  TypeInv'
  <2>1. [state |-> "draft", peak |-> 0, threshold |-> threshold,
         repo |-> repo] \in Rows
    BY ConstantsAssumption DEF Rows, STATES
  <2> QED
    BY <1>1, <2>1 DEF CreateCampaign, TypeOK, RemindHasRepo
<1>2. ASSUME NEW r \in Requests, NEW c \in Campaigns, NEW new \in Rows,
             Load(r, c, new)
      PROVE  TypeInv'
  <2>1. [pc |-> "commit", campaign |-> c, old |-> campaign[c], new |-> new]
          \in OpenRequests
    BY DEF OpenRequests, TypeOK
  <2> QED
    BY <1>2, <2>1 DEF Load, TypeOK, RemindHasRepo
<1>3. ASSUME NEW r \in Requests, NEW c \in Campaigns, RequestStep(r, c)
      PROVE  TypeInv'
  <2> DEFINE row == campaign[c]
  <2>1. row \in Rows /\ row.state \in STATES \cup {"none"}
    BY DEF TypeOK, Rows
  <2>2. ASSUME NEW peak \in PeakValues, ActivateWithPeak(r, c, peak)
        PROVE  TypeInv'
    <3>1. [row EXCEPT !.state = Dest["activate"], !.peak = peak] \in Rows
      BY <2>1, ConstantsAssumption DEF Rows, Dest, STATES
    <3> QED
      BY <1>2, <2>2, <3>1 DEF ActivateWithPeak
  <2>3. ASSUME NEW trigger \in Triggers, FireTrigger(r, c, trigger)
        PROVE  TypeInv'
    <3>1. [row EXCEPT !.state =
             Fire(trigger, @, 0, row.peak, row.threshold)] \in Rows
      BY <2>1, FireType DEF Rows
    <3> QED
      BY <1>2, <2>3, <3>1 DEF FireTrigger
  <2>4. ASSUME NEW threshold \in Thresholds,
               NEW repo \in Repos \cup {row.repo},
               UpdateCampaign(r, c, threshold, repo)
        PROVE  TypeInv'
    <3>1. [row EXCEPT !.threshold = threshold, !.repo = repo] \in Rows
      BY <2>1, ConstantsAssumption DEF Rows
    <3> QED
      BY <1>2, <2>4, <3>1 DEF UpdateCampaign
  <2>5. ASSUME NEW usage \in UsageValues, EvaluateInline(r, c, usage)
        PROVE  TypeInv'
    <3>1. [row EXCEPT !.state =
             Evaluate(@, usage, row.peak, row.threshold)] \in Rows
      BY <2>1, EvaluateType DEF Rows
    <3> QED
      BY <1>2, <2>5, <3>1 DEF EvaluateInline
  <2> QED
    BY <1>3, <2>2, <2>3, <2>4, <2>5 DEF RequestStep
<1>4. ASSUME NEW r \in Requests, CommitRequest(r)
      PROVE  TypeInv'
  <2>1. request[r] \in OpenRequests
    BY <1>4, RequestTypes DEF CommitRequest
  <2>2. Updated(campaign[request[r].campaign], request[r].old, request[r].new)
          \in Rows
    BY <2>1, UpdatedType DEF OpenRequests, TypeOK
  <2> QED
    BY <1>4, <2>1, <2>2 DEF CommitRequest, TypeOK, RemindHasRepo
<1>5. ASSUME NEW r \in Requests, LoseRequest(r)
      PROVE  TypeInv'
  BY <1>5 DEF LoseRequest, TypeOK, RemindHasRepo
<1>6. ASSUME NEW w \in Workers, NEW c \in Campaigns, NEW usage \in UsageValues,
             ClaimCampaign(w, c, usage)
      PROVE  TypeInv'
  <2> DEFINE row == campaign[c]
             new == [row EXCEPT !.state =
                       Evaluate(@, usage, row.peak, row.threshold)]
  <2>1. row \in Rows /\ row.state \in STATES \cup {"none"}
    BY DEF TypeOK, Rows
  <2>2. new \in Rows
    BY <2>1, EvaluateType DEF Rows
  <2>3. [pc |-> "evaluate", campaign |-> c, old |-> row, new |-> new]
          \in Evaluations
    BY <2>1, <2>2 DEF Evaluations
  <2> QED
    BY <1>6, <2>3 DEF ClaimCampaign, TypeOK, RemindHasRepo
<1>7. ASSUME NEW w \in Workers, EvaluationStep(w)
      PROVE  TypeInv'
  <2>1. CASE FinishEvaluation(w)
    <3>1. worker[w] \in Evaluations
      BY <2>1, WorkerTypes DEF FinishEvaluation, IsEvaluating
    <3>2. Updated(campaign[worker[w].campaign], worker[w].old, worker[w].new)
            \in Rows
      BY <3>1, UpdatedType DEF Evaluations, TypeOK
    <3> QED
      BY <2>1, <3>1, <3>2 DEF FinishEvaluation, TypeOK, RemindHasRepo,
         IdleWorker
  <2>2. CASE AddReminder(w)
    <3>1. worker[w] \in Evaluations
      BY <2>2, WorkerTypes DEF AddReminder, IsEvaluating
    <3>2. worker' = [worker EXCEPT ![w].pc = "remind"]
      BY <2>2 DEF AddReminder
    <3>3. [worker[w] EXCEPT !.pc = "remind"] \in Evaluations
      BY <3>1 DEF Evaluations
    <3>4. worker'[w] = [worker[w] EXCEPT !.pc = "remind"]
      BY <3>2 DEF TypeOK
    <3>5. worker'[w].new = worker[w].new
      BY <3>1, <3>4 DEF Evaluations
    <3>6. TypeOK'
      BY <2>2, <3>2, <3>3 DEF AddReminder, TypeOK
    <3>7. RemindHasRepo'
      BY <2>2, <3>2, <3>5 DEF AddReminder, RemindHasRepo, TypeOK, NeedsReminder
    <3> QED
      BY <3>6, <3>7
  <2>3. CASE CommitReminder(w)
    <3> DEFINE k == <<worker[w].campaign, worker[w].new.repo>>
    <3>1. worker[w] \in Evaluations
      BY <2>3, WorkerTypes DEF CommitReminder, IsEvaluating
    <3>2. k \in Keys
      BY <2>3, <3>1 DEF CommitReminder, RemindHasRepo, NeedsReminder,
         Evaluations, Rows, Keys
    <3>3. Updated(campaign[worker[w].campaign], worker[w].old, worker[w].new)
            \in Rows
      BY <3>1, UpdatedType DEF Evaluations, TypeOK
    <3>4. [pc |-> "enqueue", key |-> k] \in Enqueuings
      BY <3>2 DEF Enqueuings
    <3>5. [reminder[k] EXCEPT !.state = "pending"] \in Reminders
      BY <3>2 DEF TypeOK, Reminders
    <3>6. campaign' \in [Campaigns -> Rows]
      BY <2>3, <3>1, <3>3 DEF CommitReminder, TypeOK, Evaluations
    <3>7. reminder' \in [Keys -> Reminders]
      BY <2>3, <3>2, <3>5 DEF CommitReminder, TypeOK
    <3>8. worker' = [worker EXCEPT ![w] = [pc |-> "enqueue", key |-> k]]
      BY <2>3 DEF CommitReminder
    <3> QED
      BY <2>3, <3>4, <3>6, <3>7, <3>8 DEF CommitReminder, TypeOK, RemindHasRepo
  <2>4. CASE ReminderConflict(w)
    BY <2>4 DEF ReminderConflict, TypeOK, RemindHasRepo, IdleWorker
  <2>5. CASE EnqueueReminder(w)
    <3>1. worker[w].key \in Keys
      BY <2>5, WorkerTypes DEF EnqueueReminder, Enqueuings
    <3> QED
      BY <2>5, <3>1 DEF EnqueueReminder, TypeOK, RemindHasRepo, IdleWorker
  <2> QED
    BY <1>7, <2>1, <2>2, <2>3, <2>4, <2>5 DEF EvaluationStep
<1>8. ASSUME NEW w \in Workers, NEW k \in Keys, StartSending(w, k)
      PROVE  TypeInv'
  <2>1. [pc |-> "list", key |-> k, pr |-> 0] \in Sendings
    BY DEF Sendings
  <2>2. CASE ClaimReminder(w, k)
    BY <2>1, <2>2 DEF ClaimReminder, TakeJob, TypeOK, RemindHasRepo
  <2>3. CASE SkipReminder(w, k)
    BY <2>3 DEF SkipReminder, TakeJob, TypeOK, RemindHasRepo
  <2>4. CASE PlaceholderConflict(w, k)
    BY <2>4 DEF PlaceholderConflict, TakeJob, TypeOK, RemindHasRepo
  <2> QED
    BY <1>8, <2>2, <2>3, <2>4 DEF StartSending
<1>9. ASSUME NEW w \in Workers, SendingStep(w)
      PROVE  TypeInv'
  <2>1. worker[w] \in Sendings /\ worker[w].key \in Keys
    BY <1>9, WorkerTypes DEF SendingStep, ListPulls, CreateBranch, CreatePull,
       RefusePull, RecordPull, IsSending, Sendings
  <2>2. pulls[worker[w].key].open \in Nat /\ pulls[worker[w].key].count \in Nat
    BY <2>1 DEF TypeOK
  <2>3. CASE ListPulls(w)
    <3> DEFINE open == pulls[worker[w].key].open
               next == [worker[w] EXCEPT
                          !.pc = IF open # 0 THEN "record" ELSE "ref",
                          !.pr = open]
    <3>1. next \in Sendings
      BY <2>1, <2>2 DEF Sendings
    <3>2. worker' = [worker EXCEPT ![w] = next]
      BY <2>3 DEF ListPulls, TypeOK
    <3>3. next.pc # "remind"
      BY <3>1 DEF Sendings
    <3> HIDE DEF next
    <3> QED
      BY <2>3, <3>1, <3>2, <3>3 DEF ListPulls, TypeOK, RemindHasRepo
  <2>4. CASE CreateBranch(w)
    <3>1. [worker[w] EXCEPT !.pc = "pull"] \in Sendings
      BY <2>1 DEF Sendings
    <3>2. [worker[w] EXCEPT !.pc = "pull"].pc # "remind"
      BY <3>1 DEF Sendings
    <3> QED
      BY <2>1, <2>4, <3>1, <3>2 DEF CreateBranch, TypeOK, RemindHasRepo
  <2>5. CASE CreatePull(w)
    <3> DEFINE n == pulls[worker[w].key].count + 1
               next == [worker[w] EXCEPT !.pc = "record", !.pr = n]
    <3>1. n \in Nat
      BY <2>2
    <3>2. next \in Sendings
      BY <2>1, <3>1 DEF Sendings
    <3>3. next.pc # "remind"
      BY <3>2 DEF Sendings
    <3>4. worker' = [worker EXCEPT ![w] = next]
      BY <2>5 DEF CreatePull, TypeOK
    <3>5. /\ pulls' = [pulls EXCEPT ![worker[w].key] = [open |-> n, count |-> n]]
          /\ UNCHANGED <<campaign, reminder, queue, failed, request, branches,
                         faults>>
      BY <2>5 DEF CreatePull
    <3> HIDE DEF next, n
    <3> QED
      BY <3>1, <3>2, <3>3, <3>4, <3>5 DEF TypeOK, RemindHasRepo
  <2>6. CASE RefusePull(w)
    BY <2>1, <2>6 DEF RefusePull, TypeOK, RemindHasRepo, IdleWorker
  <2>7. CASE RecordPull(w)
    <3>1. [state |-> "open", pr |-> worker[w].pr] \in Reminders
      BY <2>1 DEF Sendings, Reminders
    <3> QED
      BY <2>1, <2>7, <3>1 DEF RecordPull, TypeOK, RemindHasRepo, IdleWorker
  <2> QED
    BY <1>9, <2>3, <2>4, <2>5, <2>6, <2>7 DEF SendingStep
<1>10. ASSUME NEW w \in Workers, FaultStep(w)
       PROVE  TypeInv'
  <2>1. Fault => faults' \in 0..MaxFaults
    BY ConstantsAssumption DEF Fault, TypeOK
  <2>2. CASE LoseEvaluation(w)
    BY <2>1, <2>2 DEF LoseEvaluation, TypeOK, RemindHasRepo, IdleWorker
  <2>3. CASE FailSending(w)
    <3>1. worker[w].key \in Keys
      BY <2>3, WorkerTypes DEF FailSending, Sendings
    <3> QED
      BY <2>1, <2>3, <3>1 DEF FailSending, TypeOK, RemindHasRepo, IdleWorker
  <2>4. CASE RedeliverJob(w)
    <3>1. worker[w].key \in Keys
      BY <2>4, WorkerTypes DEF RedeliverJob, Sendings
    <3> QED
      BY <2>4, <3>1 DEF RedeliverJob, TypeOK, RemindHasRepo
  <2> QED
    BY <1>10, <2>2, <2>3, <2>4 DEF FaultStep
<1>11. ASSUME NEW k \in Keys, RequeueJob(k)
       PROVE  TypeInv'
  BY <1>11 DEF RequeueJob, TypeOK, RemindHasRepo
<1>12. ASSUME NEW k \in Keys, ClosePull(k)
       PROVE  TypeInv'
  <2>1. [pulls[k] EXCEPT !.open = 0] \in [open : Nat, count : Nat]
    BY DEF TypeOK
  <2> QED
    BY <1>12, <2>1 DEF ClosePull, TypeOK, RemindHasRepo
<1>13. CASE UNCHANGED vars
  BY <1>13 DEF vars, TypeOK, RemindHasRepo
<1> QED
  BY <1>1, <1>3, <1>4, <1>5, <1>6, <1>7, <1>8, <1>9, <1>10, <1>11, <1>12,
     <1>13 DEF Next

\* In every reachable state the tables, the queue and what handlers and
\* workers hold are well typed.
THEOREM TypeCorrect == Spec => []TypeOK
<1>1. Spec => []TypeInv
  BY InitTypeInv, NextTypeInv, PTL DEF Spec
<1> QED
  BY <1>1, PTL DEF TypeInv

-----------------------------------------------------------------------------
(* Row locks (PostgreSQL): the row a job claimed stays the row it read.    *)

\* A job only evaluates a campaign that exists and is not finished.
ClaimIsOpen ==
  \A w \in Workers : IsEvaluating(w) =>
    worker[w].old.state \notin TerminalStates \cup {"none"}

\* NoDoubleProcessing, worker by worker.
Exclusive ==
  \A u, v \in Workers : u # v =>
    /\ IsEvaluating(u) /\ IsEvaluating(v) =>
         worker[u].campaign # worker[v].campaign
    /\ IsSending(u) /\ IsSending(v) => worker[u].key # worker[v].key

LockInv == ClaimIsCurrent /\ ClaimIsOpen /\ Exclusive

\* Loading a campaign changes nothing but the request handler.
LEMMA RequestStepFrame ==
  ASSUME NEW r, NEW c, RequestStep(r, c)
  PROVE  UNCHANGED <<campaign, reminder, queue, failed, worker, branches,
                     pulls, faults>>
BY DEF RequestStep, ActivateWithPeak, FireTrigger, UpdateCampaign,
   EvaluateInline, Load

\* The step of one worker leaves the other workers alone.
LEMMA WorkerStepFrame ==
  ASSUME NEW w \in Workers, TypeInv,
         \/ \E c \in Campaigns, usage \in UsageValues : ClaimCampaign(w, c, usage)
         \/ \E k \in Keys : StartSending(w, k)
         \/ EvaluationStep(w) \/ SendingStep(w) \/ FaultStep(w)
  PROVE  \A v \in Workers \ {w} : worker'[v] = worker[v]
BY DEF ClaimCampaign, StartSending, EvaluationStep, SendingStep, FaultStep,
   FinishEvaluation, AddReminder, CommitReminder, ReminderConflict,
   EnqueueReminder, LoseEvaluation, TakeJob, ClaimReminder, SkipReminder,
   PlaceholderConflict, ListPulls, CreateBranch, CreatePull, RefusePull,
   RecordPull, FailSending, RedeliverJob, TypeInv, TypeOK

\* A sending step neither changes a campaign nor starts an evaluation, and it
\* keeps the key of the reminder for as long as it sends.
LEMMA SendingStepFrame ==
  ASSUME NEW w \in Workers, TypeInv, SendingStep(w) \/ FailSending(w)
  PROVE  /\ campaign' = campaign
         /\ IsSending(w)
         /\ ~IsEvaluating(w)'
         /\ IsSending(w)' => worker'[w].key = worker[w].key
<1>1. worker[w].pc \in {"list", "ref", "pull", "record"}
  BY DEF SendingStep, ListPulls, CreateBranch, CreatePull, RefusePull,
     RecordPull, FailSending, IsSending
<1>2. worker[w] \in Sendings
  BY <1>1, WorkerTypes DEF IsSending, TypeInv
<1>3. campaign' = campaign
  BY DEF SendingStep, ListPulls, CreateBranch, CreatePull, RefusePull,
     RecordPull, FailSending
<1>4. /\ worker'[w].pc \notin {"evaluate", "remind"}
      /\ worker'[w].pc \in {"list", "ref", "pull", "record"} =>
           worker'[w].key = worker[w].key
  <2>1. CASE ListPulls(w)
    BY <1>2, <2>1 DEF ListPulls, TypeInv, TypeOK, Sendings
  <2>2. CASE CreateBranch(w)
    BY <1>2, <2>2 DEF CreateBranch, TypeInv, TypeOK, Sendings
  <2>3. CASE CreatePull(w)
    BY <1>2, <2>3 DEF CreatePull, TypeInv, TypeOK, Sendings
  <2>4. CASE RefusePull(w) \/ RecordPull(w) \/ FailSending(w)
    BY <2>4 DEF RefusePull, RecordPull, FailSending, TypeInv, TypeOK,
       IdleWorker
  <2> QED
    BY <2>1, <2>2, <2>3, <2>4 DEF SendingStep
<1> QED
  BY <1>1, <1>3, <1>4 DEF IsSending, IsEvaluating

\* With row locks, every step keeps claims current and exclusive.
LEMMA NextLockInv ==
  ASSUME RowLocks = TRUE, TypeInv, LockInv, [Next]_vars
  PROVE  LockInv'
<1> USE DEF LockInv
<1>1. ASSUME worker' = worker,
             \A u \in Workers : IsEvaluating(u) =>
               campaign'[worker[u].campaign] = campaign[worker[u].campaign]
      PROVE  LockInv'
  BY <1>1 DEF ClaimIsCurrent, ClaimIsOpen, Exclusive,
     IsEvaluating, IsSending
<1>2. ASSUME NEW c \in Campaigns, NEW threshold \in Thresholds,
             NEW repo \in Repos \cup {NoRepo},
             CreateCampaign(c, threshold, repo)
      PROVE  LockInv'
  <2>1. \A u \in Workers : IsEvaluating(u) => worker[u].campaign # c
    BY <1>2 DEF CreateCampaign, Exists, ClaimIsCurrent, ClaimIsOpen
  <2> QED
    BY <1>1, <1>2, <2>1 DEF CreateCampaign, TypeInv, TypeOK
<1>3. ASSUME NEW r \in Requests, NEW c \in Campaigns, RequestStep(r, c)
      PROVE  LockInv'
  BY <1>1, <1>3, RequestStepFrame
<1>4. ASSUME NEW r \in Requests, CommitRequest(r)
      PROVE  LockInv'
  BY <1>1, <1>4 DEF CommitRequest, CampaignLocked, EvaluatesCampaign, TypeInv,
     TypeOK
<1>5. ASSUME NEW r \in Requests, LoseRequest(r)
      PROVE  LockInv'
  BY <1>1, <1>5 DEF LoseRequest
<1>6. ASSUME NEW w \in Workers, NEW c \in Campaigns, NEW usage \in UsageValues,
             ClaimCampaign(w, c, usage)
      PROVE  LockInv'
  <2>1. /\ campaign' = campaign
        /\ worker'[w].campaign = c
        /\ worker'[w].old = campaign[c]
        /\ worker'[w].pc = "evaluate"
        /\ campaign[c].state \notin TerminalStates \cup {"none"}
    BY <1>6 DEF ClaimCampaign, Exists, TypeInv, TypeOK
  <2>2. \A u \in Workers \ {w} : worker'[u] = worker[u]
    BY <1>6, WorkerStepFrame
  <2>3. \A u \in Workers : IsEvaluating(u) => worker[u].campaign # c
    BY <1>6 DEF ClaimCampaign, CampaignLocked, EvaluatesCampaign
  <2> QED
    BY <2>1, <2>2, <2>3 DEF ClaimIsCurrent, ClaimIsOpen, Exclusive,
       IsEvaluating, IsSending
<1>7. ASSUME NEW w \in Workers, EvaluationStep(w)
      PROVE  LockInv'
  <2>1. \A u \in Workers \ {w} : worker'[u] = worker[u]
    BY <1>7, WorkerStepFrame
  <2>2. ASSUME worker'[w].pc \in {"idle", "enqueue"},
               \A c \in Campaigns : campaign'[c] # campaign[c] =>
                 EvaluatesCampaign(w, c)
        PROVE  LockInv'
    <3>1. \A u \in Workers \ {w} : IsEvaluating(u) =>
            campaign'[worker[u].campaign] = campaign[worker[u].campaign]
      BY <2>2, WorkerTypes DEF Exclusive, EvaluatesCampaign,
         TypeInv, Evaluations
    <3> QED
      BY <2>1, <2>2, <3>1 DEF ClaimIsCurrent, ClaimIsOpen, Exclusive,
       IsEvaluating, IsSending
  <2>3. CASE FinishEvaluation(w)
    BY <2>2, <2>3 DEF FinishEvaluation, EvaluatesCampaign, IsEvaluating,
       IdleWorker, TypeInv, TypeOK
  <2>4. CASE AddReminder(w)
    <3>1. worker[w] \in Evaluations
      BY <2>4, WorkerTypes DEF AddReminder, IsEvaluating, TypeInv
    <3>2. /\ campaign' = campaign
          /\ IsEvaluating(w)
          /\ worker'[w].pc = "remind"
          /\ worker'[w].campaign = worker[w].campaign
          /\ worker'[w].old = worker[w].old
      BY <2>4, <3>1 DEF AddReminder, IsEvaluating, TypeInv, TypeOK, Evaluations
    <3> QED
      BY <2>1, <3>2 DEF ClaimIsCurrent, ClaimIsOpen, Exclusive,
       IsEvaluating, IsSending
  <2>5. CASE CommitReminder(w)
    BY <2>2, <2>5 DEF CommitReminder, EvaluatesCampaign, IsEvaluating,
       TypeInv, TypeOK
  <2>6. CASE ReminderConflict(w) \/ EnqueueReminder(w)
    BY <2>2, <2>6 DEF ReminderConflict, EnqueueReminder, IdleWorker, TypeInv,
       TypeOK
  <2> QED
    BY <1>7, <2>3, <2>4, <2>5, <2>6 DEF EvaluationStep
<1>8. ASSUME NEW w \in Workers, NEW k \in Keys, StartSending(w, k)
      PROVE  LockInv'
  <2>1. CASE ClaimReminder(w, k)
    <3>1. \A u \in Workers \ {w} : worker'[u] = worker[u]
      BY <1>8, WorkerStepFrame
    <3>2. \A u \in Workers : IsSending(u) => worker[u].key # k
      BY <2>1 DEF ClaimReminder, ReminderLocked, SendsReminder
    <3>3. campaign' = campaign /\ worker'[w].pc = "list" /\ worker'[w].key = k
      BY <2>1 DEF ClaimReminder, TypeInv, TypeOK
    <3> QED
      BY <3>1, <3>2, <3>3 DEF ClaimIsCurrent, ClaimIsOpen, Exclusive,
       IsEvaluating, IsSending
  <2>2. CASE SkipReminder(w, k) \/ PlaceholderConflict(w, k)
    BY <1>1, <2>2 DEF SkipReminder, PlaceholderConflict
  <2> QED
    BY <1>8, <2>1, <2>2 DEF StartSending
<1>9. ASSUME NEW w \in Workers, SendingStep(w) \/ FailSending(w)
      PROVE  LockInv'
  <2>1. \A u \in Workers \ {w} : worker'[u] = worker[u]
    BY <1>9, WorkerStepFrame DEF FaultStep
  <2> QED
    BY <1>9, <2>1, SendingStepFrame DEF ClaimIsCurrent, ClaimIsOpen,
       Exclusive,
       IsEvaluating, IsSending
<1>10. ASSUME NEW w \in Workers, LoseEvaluation(w)
       PROVE  LockInv'
  <2>1. /\ campaign' = campaign
        /\ worker'[w].pc = "idle"
        /\ \A u \in Workers \ {w} : worker'[u] = worker[u]
    BY <1>10 DEF LoseEvaluation, IdleWorker, TypeInv, TypeOK
  <2> QED
    BY <2>1 DEF ClaimIsCurrent, ClaimIsOpen, Exclusive,
       IsEvaluating, IsSending
<1>11. ASSUME NEW w \in Workers, RedeliverJob(w)
       PROVE  LockInv'
  BY <1>1, <1>11 DEF RedeliverJob
<1>12. ASSUME NEW k \in Keys, RequeueJob(k) \/ ClosePull(k)
       PROVE  LockInv'
  BY <1>1, <1>12 DEF RequeueJob, ClosePull
<1>13. CASE UNCHANGED vars
  BY <1>1, <1>13 DEF vars
<1> QED
  BY <1>2, <1>3, <1>4, <1>5, <1>6, <1>7, <1>8, <1>9, <1>10, <1>11, <1>12,
     <1>13 DEF Next, FaultStep

\* On PostgreSQL a job decides on the row the table holds until it commits
\* (evaluate_campaign's FOR UPDATE), and no two workers process the same
\* campaign or the same reminder.
THEOREM JobsAreExclusive ==
  ASSUME RowLocks = TRUE
  PROVE  Spec => [](ClaimIsCurrent /\ NoDoubleProcessing)
<1>1. Init => LockInv
  BY DEF Init, LockInv, ClaimIsCurrent, ClaimIsOpen, Exclusive,
     IsEvaluating, IsSending, IdleWorker
<1>2. TypeInv /\ LockInv /\ [Next]_vars => LockInv'
  BY NextLockInv
<1>3. Spec => [](TypeInv /\ LockInv)
  BY <1>1, <1>2, InitTypeInv, NextTypeInv, PTL DEF Spec
<1>4. LockInv => ClaimIsCurrent /\ NoDoubleProcessing
  BY DEF LockInv, Exclusive, NoDoubleProcessing, EvaluatesCampaign,
     SendsReminder
<1> QED
  BY <1>3, <1>4, PTL

-----------------------------------------------------------------------------
(* Reminder jobs, with or without row locks.                               *)

JobInv == ReminderBeforeJob /\ ScheduledOnce

\* Every step keeps reminder jobs backed by a row and scheduled only once.
LEMMA NextJobInv ==
  ASSUME TypeInv, JobInv, [Next]_vars
  PROVE  JobInv'
<1> USE DEF JobInv
<1> DEFINE Enqueues(u, k) == worker[u].pc = "enqueue" /\ worker[u].key = k
<1>0. \A u \in Workers :
        /\ IsSending(u) => worker[u].key \in Keys
        /\ worker[u].pc = "enqueue" => worker[u].key \in Keys
  BY WorkerTypes DEF Sendings, Enqueuings, TypeInv
<1>1. ASSUME UNCHANGED <<reminder, queue, failed, worker>>
      PROVE  JobInv'
  BY <1>1 DEF ReminderBeforeJob, ScheduledOnce, SendsReminder, IsSending
<1>2. ASSUME NEW w \in Workers,
             \A u \in Workers \ {w} : worker'[u] = worker[u],
             worker'[w].pc # "enqueue",
             IsSending(w)' => IsSending(w) /\ worker'[w].key = worker[w].key,
             \/ queue' = queue /\ failed' = failed
             \/ IsSending(w) /\ queue' = queue
                  /\ failed' = failed \cup {worker[w].key}
             \/ worker[w].pc = "enqueue" /\ failed' = failed
                  /\ queue' = queue \cup {worker[w].key},
             reminder' = reminder
      PROVE  JobInv'
  <2>1. ReminderBeforeJob'
    BY <1>2 DEF ReminderBeforeJob, SendsReminder, IsSending
  <2>2. ScheduledOnce'
    BY <1>0, <1>2 DEF ScheduledOnce, SendsReminder, IsSending
  <2> QED
    BY <2>1, <2>2
<1>3. ASSUME NEW w \in Workers, NEW c \in Campaigns, NEW usage \in UsageValues,
             ClaimCampaign(w, c, usage)
      PROVE  JobInv'
  <2>1. worker'[w].pc = "evaluate"
    BY <1>3 DEF ClaimCampaign, TypeInv, TypeOK
  <2> QED
    BY <1>2, <1>3, <2>1, WorkerStepFrame DEF ClaimCampaign, IsSending
<1>4. ASSUME NEW w \in Workers, EvaluationStep(w)
      PROVE  JobInv'
  <2>1. \A u \in Workers \ {w} : worker'[u] = worker[u]
    BY <1>4, WorkerStepFrame
  <2>2. CASE FinishEvaluation(w) \/ ReminderConflict(w) \/ EnqueueReminder(w)
    BY <1>2, <2>1, <2>2 DEF FinishEvaluation, ReminderConflict,
       EnqueueReminder, IdleWorker, IsSending, TypeInv, TypeOK
  <2>3. CASE AddReminder(w)
    <3>1. worker[w] \in Evaluations
      BY <2>3, WorkerTypes DEF AddReminder, IsEvaluating, TypeInv
    <3>2. worker'[w].pc = "remind"
      BY <2>3, <3>1 DEF AddReminder, TypeInv, TypeOK, Evaluations
    <3> QED
      BY <1>2, <2>1, <2>3, <3>2 DEF AddReminder, IsSending
  <2>4. CASE CommitReminder(w)
    <3> DEFINE k == <<worker[w].campaign, worker[w].new.repo>>
    <3>1. k \in Keys
      BY <2>4, WorkerTypes DEF CommitReminder, IsEvaluating, TypeInv,
         RemindHasRepo, NeedsReminder, Evaluations, Rows, Keys
    <3>2. /\ reminder[k].state = "none"
          /\ reminder' = [reminder EXCEPT ![k].state = "pending"]
          /\ worker'[w] = [pc |-> "enqueue", key |-> k]
          /\ queue' = queue /\ failed' = failed
      BY <2>4 DEF CommitReminder, TypeInv, TypeOK
    <3>3. /\ k \notin queue \cup failed
          /\ \A u \in Workers : ~SendsReminder(u, k) /\ ~Enqueues(u, k)
      BY <3>1, <3>2 DEF ReminderBeforeJob
    <3>4. /\ reminder'[k].state # "none"
          /\ \A j \in Keys : reminder[j].state # "none" =>
               reminder'[j].state # "none"
      BY <3>1, <3>2 DEF TypeInv, TypeOK, Reminders
    <3>5. /\ worker'[w].pc = "enqueue" /\ worker'[w].key = k
          /\ ~IsSending(w)'
      BY <3>2 DEF IsSending
    <3> HIDE DEF k
    <3>6. ReminderBeforeJob'
      BY <2>1, <3>1, <3>2, <3>4, <3>5 DEF ReminderBeforeJob, SendsReminder,
         IsSending
    <3>7. ScheduledOnce'
      BY <2>1, <3>1, <3>2, <3>3, <3>5 DEF ScheduledOnce, SendsReminder,
         IsSending
    <3> QED
      BY <3>6, <3>7
  <2> QED
    BY <1>4, <2>2, <2>3, <2>4 DEF EvaluationStep
<1>5. ASSUME NEW w \in Workers, NEW k \in Keys, StartSending(w, k)
      PROVE  JobInv'
  <2>1. k \in queue /\ reminder[k].state # "none"
    BY <1>5 DEF StartSending, ClaimReminder, SkipReminder,
       PlaceholderConflict, TakeJob, ReminderBeforeJob
  <2>2. \A u \in Workers : ~Enqueues(u, k)
    BY <2>1 DEF ScheduledOnce
  <2>3. CASE ClaimReminder(w, k)
    <3>1. /\ \A u \in Workers \ {w} : worker'[u] = worker[u]
          /\ worker'[w].pc = "list" /\ worker'[w].key = k
          /\ queue' = queue \ {k} /\ failed' = failed /\ reminder' = reminder
      BY <1>5, <2>3, WorkerStepFrame DEF ClaimReminder, TakeJob, TypeInv, TypeOK
    <3>2. ReminderBeforeJob'
      BY <2>1, <3>1 DEF ReminderBeforeJob, SendsReminder, IsSending
    <3>3. ScheduledOnce'
      BY <2>2, <3>1 DEF ScheduledOnce, SendsReminder, IsSending
    <3> QED
      BY <3>2, <3>3
  <2>4. CASE SkipReminder(w, k) \/ PlaceholderConflict(w, k)
    <3>1. /\ worker' = worker /\ reminder' = reminder
          /\ queue' \subseteq queue /\ failed' \subseteq failed \cup {k}
      BY <2>4 DEF SkipReminder, PlaceholderConflict, TakeJob
    <3>2. ReminderBeforeJob'
      BY <2>1, <3>1 DEF ReminderBeforeJob, SendsReminder, IsSending
    <3>3. ScheduledOnce'
      BY <2>2, <3>1 DEF ScheduledOnce, SendsReminder, IsSending
    <3> QED
      BY <3>2, <3>3
  <2> QED
    BY <1>5, <2>3, <2>4 DEF StartSending
<1>6. ASSUME NEW w \in Workers, SendingStep(w) \/ FailSending(w)
      PROVE  JobInv'
  <2>1. /\ \A u \in Workers \ {w} : worker'[u] = worker[u]
        /\ IsSending(w)
        /\ IsSending(w)' => worker'[w].key = worker[w].key
    BY <1>6, WorkerStepFrame, SendingStepFrame DEF FaultStep
  <2>2. worker'[w].pc # "enqueue"
    BY <1>6, <2>1, WorkerTypes DEF SendingStep, ListPulls, CreateBranch,
       CreatePull, RefusePull, RecordPull, FailSending, IdleWorker, TypeInv,
       TypeOK, Sendings
  <2>3. CASE RecordPull(w)
    <3>1. /\ queue' = queue /\ failed' = failed
          /\ worker'[w].pc = "idle"
          /\ \A j \in Keys : reminder[j].state # "none" =>
               reminder'[j].state # "none"
      BY <2>3 DEF RecordPull, IdleWorker, TypeInv, TypeOK
    <3>2. ReminderBeforeJob'
      BY <2>1, <3>1 DEF ReminderBeforeJob, SendsReminder, IsSending
    <3>3. ScheduledOnce'
      BY <2>1, <3>1 DEF ScheduledOnce, SendsReminder, IsSending
    <3> QED
      BY <3>2, <3>3
  <2>4. CASE ~RecordPull(w)
    <3>1. /\ reminder' = reminder /\ queue' = queue
          /\ failed' = failed \/ failed' = failed \cup {worker[w].key}
      BY <1>6, <2>4 DEF SendingStep, ListPulls, CreateBranch, CreatePull,
         RefusePull, FailSending
    <3> QED
      BY <1>2, <2>1, <2>2, <3>1
  <2> QED
    BY <2>3, <2>4
<1>7. ASSUME NEW w \in Workers, LoseEvaluation(w)
      PROVE  JobInv'
  BY <1>2, <1>7, WorkerStepFrame DEF FaultStep, LoseEvaluation, IdleWorker,
     IsSending, TypeInv, TypeOK
<1>8. ASSUME NEW w \in Workers, RedeliverJob(w)
      PROVE  JobInv'
  <2>1. /\ SendsReminder(w, worker[w].key)
        /\ queue' = queue \cup {worker[w].key}
        /\ UNCHANGED <<reminder, failed, worker>>
    BY <1>8 DEF RedeliverJob, SendsReminder
  <2>2. ReminderBeforeJob'
    BY <2>1 DEF ReminderBeforeJob, SendsReminder, IsSending
  <2>3. ScheduledOnce'
    BY <2>1 DEF ScheduledOnce, SendsReminder, IsSending
  <2> QED
    BY <2>2, <2>3
<1>9. ASSUME NEW k \in Keys, RequeueJob(k)
      PROVE  JobInv'
  BY <1>9 DEF RequeueJob, ReminderBeforeJob, ScheduledOnce, SendsReminder,
     IsSending
<1>10. ASSUME NEW k \in Keys, ClosePull(k)
       PROVE  JobInv'
  BY <1>1, <1>10 DEF ClosePull
<1>11. ASSUME \/ \E c \in Campaigns, threshold \in Thresholds,
                    repo \in Repos \cup {NoRepo} :
                   CreateCampaign(c, threshold, repo)
              \/ \E r \in Requests, c \in Campaigns : RequestStep(r, c)
              \/ \E r \in Requests : CommitRequest(r) \/ LoseRequest(r)
              \/ UNCHANGED vars
       PROVE  JobInv'
  BY <1>1, <1>11, RequestStepFrame DEF CreateCampaign, CommitRequest,
     LoseRequest, vars
<1> QED
  BY <1>3, <1>4, <1>5, <1>6, <1>7, <1>8, <1>9, <1>10, <1>11 DEF Next, FaultStep

\* A reminder job never runs, waits or fails without its committed row, and
\* no evaluation schedules a reminder that is already on its way: the commit
\* before the enqueue and the unique key are enough, row locks or not.
THEOREM ReminderJobsAreBacked == Spec => [](ReminderBeforeJob /\ ScheduledOnce)
<1>1. Init => JobInv
  BY DEF Init, JobInv, ReminderBeforeJob, ScheduledOnce, SendsReminder,
     IsSending, IdleWorker
<1>2. TypeInv /\ JobInv /\ [Next]_vars => JobInv'
  BY NextJobInv
<1> QED
  BY <1>1, <1>2, InitTypeInv, NextTypeInv, PTL DEF Spec, JobInv

\* The unique key of the reminder rows alone schedules each reminder once, also
\* where no row lock keeps two evaluations of a campaign apart.
THEOREM RemindersAreScheduledOnce == Spec => []ScheduledOnce
BY ReminderJobsAreBacked, PTL

-----------------------------------------------------------------------------
(* Delivery of reminders with row locks: the argument follows one key. The *)
(* lock makes its sender unique, so the pull requests of the key grow only *)
(* while its row is pending, and one at a time.                            *)

Recording(k) ==
  \E w \in Workers : worker[w].pc = "record" /\ worker[w].key = k

DeliveryInv ==
  /\ \A w \in Workers : IsSending(w) =>
       reminder[worker[w].key].state = "pending"
  /\ \A w \in Workers : worker[w].pc = "record" =>
       worker[w].pr # 0 /\ worker[w].pr = pulls[worker[w].key].count
  /\ \A k \in Keys :
       /\ pulls[k].open \in {0, pulls[k].count}
       /\ reminder[k].state = "open" =>
            reminder[k].pr # 0 /\ reminder[k].pr = pulls[k].count
       /\ reminder[k].state = "none" => pulls[k].count = 0
       /\ reminder[k].state = "pending" /\ ~Recording(k) =>
            pulls[k].count <= faults
       /\ pulls[k].count <= faults + 1

\* With row locks, every step keeps rows, senders and pull requests in line,
\* and leaves a recorded reminder and its pull requests alone.
LEMMA NextDeliveryInv ==
  ASSUME RowLocks = TRUE, TypeInv, TypeInv', LockInv, DeliveryInv, [Next]_vars
  PROVE  /\ DeliveryInv'
         /\ \A k \in Keys : reminder[k].state = "open" =>
              reminder'[k] = reminder[k] /\ pulls'[k].count = pulls[k].count
<1> DEFINE Final ==
      \A k \in Keys : reminder[k].state = "open" =>
        reminder'[k] = reminder[k] /\ pulls'[k].count = pulls[k].count
<1>0. /\ \A u \in Workers : IsSending(u) => worker[u].key \in Keys
      /\ \A k \in Keys : /\ pulls[k].open \in Nat /\ pulls[k].count \in Nat
                         /\ reminder[k] \in Reminders
      /\ faults \in Nat
  BY WorkerTypes, ConstantsAssumption DEF Sendings, TypeInv, TypeOK
<1>1. ASSUME reminder' = reminder, pulls' = pulls, faults' = faults,
             \A u \in Workers : IsSending(u)' \/ IsSending(u) =>
               worker'[u] = worker[u]
      PROVE  DeliveryInv' /\ Final
  BY <1>1 DEF DeliveryInv, Recording, IsSending
<1>2. ASSUME NEW c \in Campaigns, NEW threshold \in Thresholds,
             NEW repo \in Repos \cup {NoRepo},
             CreateCampaign(c, threshold, repo)
      PROVE  DeliveryInv' /\ Final
  BY <1>1, <1>2 DEF CreateCampaign
<1>3. ASSUME NEW r \in Requests, NEW c \in Campaigns, RequestStep(r, c)
      PROVE  DeliveryInv' /\ Final
  BY <1>1, <1>3, RequestStepFrame
<1>4. ASSUME NEW r \in Requests, CommitRequest(r) \/ LoseRequest(r)
      PROVE  DeliveryInv' /\ Final
  BY <1>1, <1>4 DEF CommitRequest, LoseRequest
<1>5. ASSUME NEW w \in Workers, NEW c \in Campaigns, NEW usage \in UsageValues,
             ClaimCampaign(w, c, usage)
      PROVE  DeliveryInv' /\ Final
  <2>1. worker'[w].pc = "evaluate" /\ worker[w].pc = "idle"
    BY <1>5 DEF ClaimCampaign, TypeInv, TypeOK
  <2> QED
    BY <1>1, <1>5, <2>1, WorkerStepFrame DEF ClaimCampaign, IsSending
<1>6. ASSUME NEW w \in Workers, EvaluationStep(w)
      PROVE  DeliveryInv' /\ Final
  <2>1. \A u \in Workers \ {w} : worker'[u] = worker[u]
    BY <1>6, WorkerStepFrame
  <2>2. ~IsSending(w) /\ ~IsSending(w)'
    <3>1. ~IsSending(w)
      BY <1>6 DEF EvaluationStep, FinishEvaluation, AddReminder,
         CommitReminder, ReminderConflict, EnqueueReminder, IsSending
    <3>2. CASE AddReminder(w)
      <4>1. worker[w] \in Evaluations
        BY <3>2, WorkerTypes DEF AddReminder, IsEvaluating, TypeInv
      <4>2. worker'[w].pc = "remind"
        BY <3>2, <4>1 DEF AddReminder, TypeInv, TypeOK, Evaluations
      <4> QED
        BY <3>1, <4>2 DEF IsSending
    <3>3. CASE ~AddReminder(w)
      BY <1>6, <3>1, <3>3 DEF EvaluationStep, FinishEvaluation,
         CommitReminder, ReminderConflict, EnqueueReminder, IdleWorker,
         IsSending, TypeInv, TypeOK
    <3> QED
      BY <3>2, <3>3
  <2>3. CASE CommitReminder(w)
    <3> DEFINE k == <<worker[w].campaign, worker[w].new.repo>>
    <3>1. k \in Keys
      BY <2>3, WorkerTypes DEF CommitReminder, IsEvaluating, TypeInv,
         RemindHasRepo, NeedsReminder, Evaluations, Rows, Keys
    <3>2. /\ reminder[k].state = "none"
          /\ reminder' = [reminder EXCEPT ![k].state = "pending"]
          /\ pulls' = pulls /\ faults' = faults
      BY <2>3 DEF CommitReminder
    <3>3. /\ reminder'[k].state = "pending"
          /\ \A j \in Keys \ {k} : reminder'[j] = reminder[j]
      BY <3>1, <3>2 DEF TypeInv, TypeOK, Reminders
    <3>4. \A u \in Workers : IsSending(u) => worker[u].key # k
      BY <3>2 DEF DeliveryInv
    <3>5. \A j \in Keys : Recording(j)' <=> Recording(j)
      BY <2>1, <2>2 DEF Recording, IsSending
    <3>6. pulls[k].count = 0
      BY <3>1, <3>2 DEF DeliveryInv
    <3> HIDE DEF k
    <3>7. Final
      BY <3>1, <3>2, <3>3
    <3>8. DeliveryInv'
      BY <1>0, <2>1, <2>2, <3>1, <3>2, <3>3, <3>4, <3>5, <3>6
         DEF DeliveryInv, IsSending
    <3> QED
      BY <3>7, <3>8
  <2>4. CASE ~CommitReminder(w)
    BY <1>1, <1>6, <2>1, <2>2, <2>4 DEF EvaluationStep, FinishEvaluation,
       AddReminder, ReminderConflict, EnqueueReminder
  <2> QED
    BY <2>3, <2>4
<1>7. ASSUME NEW w \in Workers, NEW k \in Keys, StartSending(w, k)
      PROVE  DeliveryInv' /\ Final
  <2>1. CASE ClaimReminder(w, k)
    <3>1. /\ \A u \in Workers \ {w} : worker'[u] = worker[u]
          /\ worker[w].pc = "idle"
          /\ worker'[w].pc = "list" /\ worker'[w].key = k
          /\ reminder[k].state = "pending"
          /\ reminder' = reminder /\ pulls' = pulls /\ faults' = faults
      BY <1>7, <2>1, WorkerStepFrame DEF ClaimReminder, TakeJob, TypeInv, TypeOK
    <3>2. \A j \in Keys : Recording(j)' <=> Recording(j)
      BY <3>1 DEF Recording
    <3> QED
      BY <3>1, <3>2 DEF DeliveryInv, IsSending
  <2>2. CASE SkipReminder(w, k) \/ PlaceholderConflict(w, k)
    BY <1>1, <2>2 DEF SkipReminder, PlaceholderConflict
  <2> QED
    BY <1>7, <2>1, <2>2 DEF StartSending
<1>8. ASSUME NEW w \in Workers, SendingStep(w) \/ FailSending(w)
      PROVE  DeliveryInv' /\ Final
  <2>0. PICK key \in Keys : key = worker[w].key
    BY <1>0, <1>8, SendingStepFrame
  <2>1. /\ \A u \in Workers \ {w} : worker'[u] = worker[u]
        /\ IsSending(w) /\ worker[w].key = key /\ worker[w] \in Sendings
        /\ IsSending(w)' => worker'[w].key = key
        /\ reminder[key].state = "pending"
    BY <1>8, <2>0, WorkerStepFrame, SendingStepFrame, WorkerTypes
       DEF FaultStep, DeliveryInv, TypeInv
  <2>2. \A u \in Workers \ {w} : IsSending(u) => worker[u].key # key
    BY <2>1 DEF LockInv, Exclusive
  <2>3. \A j \in Keys \ {key} : Recording(j)' <=> Recording(j)
    BY <2>1 DEF Recording, IsSending
  <2>4. Recording(key) <=> worker[w].pc = "record"
    BY <2>1, <2>2 DEF Recording, IsSending
  <2>5. Recording(key)' <=> worker'[w].pc = "record"
    BY <2>1, <2>2 DEF Recording, IsSending
  <2>6. CASE ListPulls(w)
    <3>1. /\ worker'[w].pc = IF pulls[key].open # 0 THEN "record" ELSE "ref"
          /\ worker'[w].pr = pulls[key].open
          /\ worker[w].pc = "list"
          /\ reminder' = reminder /\ pulls' = pulls /\ faults' = faults
      BY <2>1, <2>6 DEF ListPulls, TypeInv, TypeOK, Sendings
    <3> QED
      BY <1>0, <2>1, <2>2, <2>3, <2>4, <2>5, <3>1 DEF DeliveryInv, IsSending
  <2>7. CASE CreateBranch(w)
    <3>1. /\ worker'[w].pc = "pull" /\ worker[w].pc = "ref"
          /\ reminder' = reminder /\ pulls' = pulls /\ faults' = faults
      BY <2>1, <2>7 DEF CreateBranch, TypeInv, TypeOK, Sendings
    <3> QED
      BY <1>0, <2>1, <2>2, <2>3, <2>4, <2>5, <3>1 DEF DeliveryInv, IsSending
  <2>8. CASE CreatePull(w)
    <3> DEFINE n == pulls[key].count + 1
    <3>1. /\ worker'[w].pc = "record" /\ worker[w].pc = "pull"
          /\ worker'[w].pr = n
          /\ reminder' = reminder /\ faults' = faults
          /\ pulls' = [pulls EXCEPT ![key] = [open |-> n, count |-> n]]
      BY <2>1, <2>8 DEF CreatePull, TypeInv, TypeOK, Sendings
    <3>2. /\ pulls'[key].open = n /\ pulls'[key].count = n
          /\ \A j \in Keys \ {key} : pulls'[j] = pulls[j]
      BY <2>1, <3>1 DEF TypeInv, TypeOK
    <3>3. n # 0 /\ n <= faults + 1
      BY <1>0, <2>1, <2>4, <3>1 DEF DeliveryInv
    <3>4. Final
      BY <2>1, <3>1, <3>2
    <3> HIDE DEF n
    <3>5. DeliveryInv'
      BY <1>0, <2>1, <2>2, <2>3, <2>4, <2>5, <3>1, <3>2, <3>3
         DEF DeliveryInv, IsSending
    <3> QED
      BY <3>4, <3>5
  <2>9. CASE RefusePull(w)
    <3>1. /\ worker'[w].pc = "idle" /\ worker[w].pc = "pull"
          /\ reminder' = reminder /\ pulls' = pulls /\ faults' = faults
      BY <2>1, <2>9 DEF RefusePull, IdleWorker, TypeInv, TypeOK
    <3> QED
      BY <1>0, <2>1, <2>2, <2>3, <2>4, <2>5, <3>1 DEF DeliveryInv, IsSending
  <2>10. CASE RecordPull(w)
    <3>1. /\ worker'[w].pc = "idle" /\ worker[w].pc = "record"
          /\ reminder'[key].state = "open" /\ reminder'[key].pr = worker[w].pr
          /\ \A j \in Keys \ {key} : reminder'[j] = reminder[j]
          /\ pulls' = pulls /\ faults' = faults
      BY <2>1, <2>10 DEF RecordPull, IdleWorker, TypeInv, TypeOK
    <3>2. Final
      BY <2>1, <3>1
    <3>3. DeliveryInv'
      BY <1>0, <2>1, <2>2, <2>3, <2>4, <2>5, <3>1 DEF DeliveryInv, IsSending
    <3> QED
      BY <3>2, <3>3
  <2>11. CASE FailSending(w)
    <3>1. /\ worker'[w].pc = "idle"
          /\ reminder' = reminder /\ pulls' = pulls /\ faults' = faults + 1
      BY <2>1, <2>11 DEF FailSending, Fault, IdleWorker, TypeInv, TypeOK
    <3> QED
      BY <1>0, <2>1, <2>2, <2>3, <2>4, <2>5, <3>1 DEF DeliveryInv, IsSending
  <2> QED
    BY <1>8, <2>6, <2>7, <2>8, <2>9, <2>10, <2>11 DEF SendingStep
<1>9. ASSUME NEW w \in Workers, LoseEvaluation(w)
      PROVE  DeliveryInv' /\ Final
  <2>1. /\ \A u \in Workers \ {w} : worker'[u] = worker[u]
        /\ worker'[w].pc = "idle"
        /\ worker[w].pc \notin {"list", "ref", "pull", "record"}
        /\ reminder' = reminder /\ pulls' = pulls /\ faults' = faults + 1
    BY <1>9 DEF LoseEvaluation, Fault, IsEvaluating, IdleWorker, TypeInv, TypeOK
  <2>2. \A j \in Keys : Recording(j)' <=> Recording(j)
    BY <2>1 DEF Recording
  <2> QED
    BY <1>0, <2>1, <2>2 DEF DeliveryInv, IsSending
<1>10. ASSUME NEW w \in Workers, RedeliverJob(w)
       PROVE  DeliveryInv' /\ Final
  BY <1>1, <1>10 DEF RedeliverJob
<1>11. ASSUME NEW k \in Keys, RequeueJob(k)
       PROVE  DeliveryInv' /\ Final
  BY <1>1, <1>11 DEF RequeueJob
<1>12. ASSUME NEW k \in Keys, ClosePull(k)
       PROVE  DeliveryInv' /\ Final
  <2>1. /\ pulls'[k].open = 0
        /\ \A j \in Keys : pulls'[j].count = pulls[j].count
        /\ \A j \in Keys \ {k} : pulls'[j] = pulls[j]
        /\ worker' = worker /\ reminder' = reminder /\ faults' = faults
    BY <1>12 DEF ClosePull, TypeInv, TypeOK
  <2>2. \A j \in Keys : Recording(j)' <=> Recording(j)
    BY <2>1 DEF Recording
  <2> QED
    BY <1>0, <2>1, <2>2 DEF DeliveryInv, IsSending
<1>13. CASE UNCHANGED vars
  BY <1>1, <1>13 DEF vars
<1> QED
  BY <1>2, <1>3, <1>4, <1>5, <1>6, <1>7, <1>8, <1>9, <1>10, <1>11, <1>12,
     <1>13 DEF Next, FaultStep

\* On PostgreSQL, whatever is retried or delivered twice: a recorded reminder
\* names the pull request that is open, each extra pull request costs a
\* failure, and a client is left alone once its reminder is recorded.
THEOREM RemindersAreIdempotent ==
  ASSUME RowLocks = TRUE
  PROVE  Spec => /\ [](RowNamesTheOpenPull /\ PullsCostFaults)
                 /\ RecordedReminderIsFinal
<1> DEFINE Inv == TypeInv /\ LockInv /\ DeliveryInv
<1>1. Init => Inv
  <2>1. Init => LockInv
    BY DEF Init, LockInv, ClaimIsCurrent, ClaimIsOpen, Exclusive,
       IsEvaluating, IsSending, IdleWorker
  <2>2. Init => DeliveryInv
    BY DEF Init, DeliveryInv, Recording, IsSending, IdleWorker
  <2> QED
    BY <2>1, <2>2, InitTypeInv
<1>2. Inv /\ [Next]_vars => Inv'
  BY NextTypeInv, NextLockInv, NextDeliveryInv
<1>3. Inv => RowNamesTheOpenPull /\ PullsCostFaults
  <2> SUFFICES ASSUME Inv, NEW k \in Keys
               PROVE  /\ reminder[k].state = "open" =>
                           /\ reminder[k].pr \in 1..pulls[k].count
                           /\ pulls[k].open \in {0, reminder[k].pr}
                      /\ pulls[k].count <= faults + 1
    BY DEF RowNamesTheOpenPull, PullsCostFaults
  <2>1. pulls[k].count \in Nat
    BY DEF TypeInv, TypeOK
  <2> QED
    BY <2>1 DEF DeliveryInv
<1>4. Inv /\ [Next]_vars =>
        [\A k \in Keys : reminder[k].state = "open" =>
           /\ reminder'[k] = reminder[k]
           /\ pulls'[k].count = pulls[k].count]_vars
  BY NextTypeInv, NextDeliveryInv
<1> HIDE DEF Inv
<1>5. Spec => []Inv
  BY <1>1, <1>2, PTL DEF Spec
<1> QED
  BY <1>3, <1>4, <1>5, PTL DEF Spec, RecordedReminderIsFinal

\* A recorded reminder names a pull request that was opened for its key, and
\* no other one is open: a retry that finds its branch or its pull request
\* from an earlier attempt records that one.
THEOREM RowsNameTheOpenPull ==
  ASSUME RowLocks = TRUE
  PROVE  Spec => []RowNamesTheOpenPull
<1>1. Spec => [](RowNamesTheOpenPull /\ PullsCostFaults)
  <2>1. Spec => /\ [](RowNamesTheOpenPull /\ PullsCostFaults)
                /\ RecordedReminderIsFinal
    BY RemindersAreIdempotent
  <2> QED
    BY <2>1, PTL
<1> QED
  BY <1>1, PTL

-----------------------------------------------------------------------------
(* The life cycle, with row locks and API requests that do not overlap.    *)
(* A request may still be stale: jobs move the campaign while it is in     *)
(* flight. Drift says how far they can move it.                            *)

SerialRequests == \A q, r \in Requests : q = r

Drift(old, current) ==
  \/ current = old
  \/ old = "active" /\ current \in {"decaying", "ready_to_remove"}
  \/ old = "decaying" /\ current = "ready_to_remove"

\* The moves a job makes.
JobEdges ==
  {<<"active", "decaying">>, <<"decaying", "ready_to_remove">>}

RequestRows ==
  \A r \in Requests : request[r].pc = "commit" =>
    LET q == request[r]
    IN /\ q.old.state # "none"
       /\ Drift(q.old.state, campaign[q.campaign].state)
       /\ \/ q.new.state = q.old.state
          \/ <<q.old.state, q.new.state>> \in Lifecycle!DocumentedEdges
       /\ q.new.peak # q.old.peak =>
            q.old.state = "draft" /\ q.new.state = "active"

WorkerRows ==
  \A w \in Workers : IsEvaluating(w) =>
    /\ worker[w].new.peak = worker[w].old.peak
    /\ \/ worker[w].new.state = worker[w].old.state
       \/ <<worker[w].old.state, worker[w].new.state>> \in JobEdges

LifecycleInv ==
  /\ RequestRows
  /\ WorkerRows
  /\ ReminderOnlyAfterDecay
  /\ \A c \in Campaigns : campaign[c].state = "none" => campaign[c].peak = 0

\* What one step may do to a campaign row.
AllowedMove(from, to) ==
  /\ \/ to.state = from.state
     \/ from.state = "none" /\ to.state = "draft"
     \/ <<from.state, to.state>> \in Lifecycle!Edges
  /\ to.peak # from.peak => from.state = "draft" /\ to.state = "active"

CampaignMove ==
  \/ campaign' = campaign
  \/ \E c \in Campaigns : \E row \in Rows :
       /\ campaign' = [campaign EXCEPT ![c] = row]
       /\ AllowedMove(campaign[c], row)

\* The automatic evaluation takes at most one edge.
LEMMA EvaluateMoves ==
  ASSUME NEW s, NEW usage, NEW peak, NEW threshold
  PROVE  LET t == Evaluate(s, usage, peak, threshold)
         IN t = s \/ <<s, t>> \in JobEdges
BY DEF Evaluate, Fires, Permitted, Sources, Dest, JobEdges

\* A permitted trigger takes a documented edge or none.
LEMMA FireMoves ==
  ASSUME NEW s, NEW trigger \in Triggers, Permitted(trigger, s),
         NEW usage, NEW peak, NEW threshold
  PROVE  LET t == Fire(trigger, s, usage, peak, threshold)
         IN t = s \/ <<s, t>> \in Lifecycle!DocumentedEdges
BY DEF Fire, Permitted, Sources, Dest, Triggers, Lifecycle!DocumentedEdges

\* Moves of jobs are moves of the documented life cycle.
LEMMA JobEdgesDocumented == JobEdges \subseteq Lifecycle!DocumentedEdges
BY DEF JobEdges, Lifecycle!DocumentedEdges

\* What a request computed from the row it loaded.
LEMMA RequestComputes ==
  ASSUME TypeInv, NEW r \in Requests, NEW c \in Campaigns, RequestStep(r, c)
  PROVE  LET q == request'[r]
         IN /\ request' = [request EXCEPT ![r] = q]
            /\ q.pc = "commit" /\ q.campaign = c /\ q.old = campaign[c]
            /\ q.old.state # "none"
            /\ \/ q.new.state = q.old.state
               \/ <<q.old.state, q.new.state>> \in Lifecycle!DocumentedEdges
            /\ q.new.peak # q.old.peak =>
                 q.old.state = "draft" /\ q.new.state = "active"
<1> DEFINE row == campaign[c]
           Computed(new) ==
             /\ \/ new.state = row.state
                \/ <<row.state, new.state>> \in Lifecycle!DocumentedEdges
             /\ new.peak # row.peak =>
                  row.state = "draft" /\ new.state = "active"
<1>1. row \in Rows
  BY DEF TypeInv, TypeOK
<1>2. \E new : Load(r, c, new) /\ Computed(new)
  <2>1. ASSUME NEW peak \in PeakValues, ActivateWithPeak(r, c, peak)
        PROVE  \E new : Load(r, c, new) /\ Computed(new)
    <3> DEFINE new == [row EXCEPT !.state = Dest["activate"], !.peak = peak]
    <3>1. row.state = "draft"
      BY <2>1 DEF ActivateWithPeak, Permitted, Sources
    <3>2. new.state = "active"
      BY <1>1 DEF Rows, Dest
    <3>3. Computed(new)
      BY <3>1, <3>2 DEF Lifecycle!DocumentedEdges
    <3> QED
      BY <2>1, <3>3 DEF ActivateWithPeak
  <2>2. ASSUME NEW trigger \in Triggers, FireTrigger(r, c, trigger)
        PROVE  \E new : Load(r, c, new) /\ Computed(new)
    <3> DEFINE new == [row EXCEPT !.state =
                         Fire(trigger, @, 0, row.peak, row.threshold)]
    <3>1. /\ new.state = Fire(trigger, row.state, 0, row.peak, row.threshold)
          /\ new.peak = row.peak
      BY <1>1 DEF Rows
    <3>2. Computed(new)
      BY <2>2, <3>1, FireMoves DEF FireTrigger
    <3> QED
      BY <2>2, <3>2 DEF FireTrigger
  <2>3. ASSUME NEW threshold \in Thresholds,
               NEW repo \in Repos \cup {campaign[c].repo},
               UpdateCampaign(r, c, threshold, repo)
        PROVE  \E new : Load(r, c, new) /\ Computed(new)
    <3> DEFINE new == [row EXCEPT !.threshold = threshold, !.repo = repo]
    <3>1. new.state = row.state /\ new.peak = row.peak
      BY <1>1 DEF Rows
    <3> QED
      BY <2>3, <3>1 DEF UpdateCampaign
  <2>4. ASSUME NEW usage \in UsageValues, EvaluateInline(r, c, usage)
        PROVE  \E new : Load(r, c, new) /\ Computed(new)
    <3> DEFINE new == [row EXCEPT !.state =
                         Evaluate(@, usage, row.peak, row.threshold)]
    <3>1. /\ new.state = Evaluate(row.state, usage, row.peak, row.threshold)
          /\ new.peak = row.peak
      BY <1>1 DEF Rows
    <3>2. Computed(new)
      BY <3>1, EvaluateMoves, JobEdgesDocumented
    <3> QED
      BY <2>4, <3>2 DEF EvaluateInline
  <2> QED
    BY <2>1, <2>2, <2>3, <2>4 DEF RequestStep
<1> QED
  BY <1>2 DEF Load, Exists, TypeInv, TypeOK

\* Committing the job's evaluation of a current row is one of its moves.
LEMMA JobCommit ==
  ASSUME NEW row \in Rows, NEW new \in Rows, new.peak = row.peak,
         new.state = row.state \/ <<row.state, new.state>> \in JobEdges
  PROVE  LET next == Updated(row, row, new)
         IN /\ next \in Rows
            /\ next.state = new.state
            /\ AllowedMove(row, next)
<1>1. Updated(row, row, new) \in Rows
  BY UpdatedType
<1> QED
  BY <1>1, JobEdgesDocumented DEF Updated, AllowedMove, Lifecycle!Edges

\* With row locks and one request at a time, every step keeps to the life
\* cycle, up to the one move a stale request can make.
LEMMA NextLifecycleInv ==
  ASSUME RowLocks = TRUE, SerialRequests, TypeInv, LockInv, JobInv,
         LifecycleInv, [Next]_vars
  PROVE  LifecycleInv' /\ CampaignMove
<1>0. \A c \in Campaigns : campaign[c] \in Rows
  BY DEF TypeInv, TypeOK
<1>1. ASSUME UNCHANGED <<campaign, reminder, request>>,
             \A u \in Workers : IsEvaluating(u)' => worker'[u] = worker[u]
      PROVE  LifecycleInv' /\ CampaignMove
  BY <1>1 DEF LifecycleInv, RequestRows, WorkerRows, ReminderOnlyAfterDecay,
     CampaignMove, IsEvaluating
<1>2. ASSUME NEW c \in Campaigns, NEW threshold \in Thresholds,
             NEW repo \in Repos \cup {NoRepo},
             CreateCampaign(c, threshold, repo)
      PROVE  LifecycleInv' /\ CampaignMove
  <2> DEFINE row == [state |-> "draft", peak |-> 0, threshold |-> threshold,
                     repo |-> repo]
  <2>1. row \in Rows
    BY ConstantsAssumption DEF Rows, STATES
  <2>2. /\ campaign[c].state = "none" /\ campaign[c].peak = 0
        /\ campaign' = [campaign EXCEPT ![c] = row]
        /\ UNCHANGED <<reminder, request, worker>>
    BY <1>2 DEF CreateCampaign, Exists, LifecycleInv
  <2>3. CampaignMove
    BY <2>1, <2>2 DEF CampaignMove, AllowedMove
  <2>4. \A r \in Requests : request[r].pc = "commit" =>
          request[r].campaign # c
    BY <2>2 DEF LifecycleInv, RequestRows, Drift
  <2>5. \A k \in Repos : reminder[<<c, k>>].state = "none"
    BY <2>2 DEF LifecycleInv, ReminderOnlyAfterDecay, TerminalStates
  <2>6. /\ \A d \in Campaigns \ {c} : campaign'[d] = campaign[d]
        /\ campaign'[c].state = "draft"
    BY <1>0, <2>2 DEF TypeInv, TypeOK
  <2>7. RequestRows'
    BY <2>2, <2>4, <2>6, RequestTypes DEF LifecycleInv, RequestRows,
       OpenRequests, TypeInv
  <2>8. WorkerRows'
    BY <2>2 DEF LifecycleInv, WorkerRows, IsEvaluating
  <2>9. ReminderOnlyAfterDecay'
    BY <2>2, <2>5, <2>6 DEF LifecycleInv, ReminderOnlyAfterDecay
  <2> QED
    BY <2>3, <2>6, <2>7, <2>8, <2>9 DEF LifecycleInv
<1>3. ASSUME NEW r \in Requests, NEW c \in Campaigns, RequestStep(r, c)
      PROVE  LifecycleInv' /\ CampaignMove
  <2>1. UNCHANGED <<campaign, reminder, worker>>
    BY <1>3, RequestStepFrame
  <2>2. RequestRows'
    <3> DEFINE q == request'[r]
    <3>1. /\ request' = [request EXCEPT ![r] = q]
          /\ q.pc = "commit" /\ q.campaign = c /\ q.old = campaign[c]
          /\ q.old.state # "none"
          /\ \/ q.new.state = q.old.state
             \/ <<q.old.state, q.new.state>> \in Lifecycle!DocumentedEdges
          /\ q.new.peak # q.old.peak =>
               q.old.state = "draft" /\ q.new.state = "active"
      BY <1>3, RequestComputes
    <3>2. \A u \in Requests \ {r} : request'[u] = request[u]
      BY <3>1 DEF TypeInv, TypeOK
    <3>3. Drift(q.old.state, campaign'[q.campaign].state)
      BY <2>1, <3>1 DEF Drift
    <3> HIDE DEF q
    <3>4. q = request'[r]
      BY DEF q
    <3> QED
      BY <2>1, <3>1, <3>2, <3>3, <3>4 DEF LifecycleInv, RequestRows
  <2> QED
    BY <2>1, <2>2 DEF LifecycleInv, WorkerRows, ReminderOnlyAfterDecay,
       CampaignMove, IsEvaluating
<1>4. ASSUME NEW r \in Requests, CommitRequest(r)
      PROVE  LifecycleInv' /\ CampaignMove
  <2> DEFINE q == request[r]
             row == campaign[q.campaign]
             next == Updated(row, q.old, q.new)
  <2>1. q \in OpenRequests /\ q.pc = "commit"
    BY <1>4, RequestTypes DEF CommitRequest, TypeInv
  <2>2. /\ q.campaign \in Campaigns /\ row \in Rows /\ next \in Rows
        /\ q.old \in Rows /\ q.new \in Rows
    BY <1>0, <2>1, UpdatedType DEF OpenRequests
  <2>3. /\ campaign' = [campaign EXCEPT ![q.campaign] = next]
        /\ request' = [request EXCEPT ![r] = IdleRequest]
        /\ UNCHANGED <<reminder, worker>>
    BY <1>4 DEF CommitRequest
  <2>4. /\ q.old.state # "none" /\ row.state # "none"
        /\ Drift(q.old.state, row.state)
        /\ \/ q.new.state = q.old.state
           \/ <<q.old.state, q.new.state>> \in Lifecycle!DocumentedEdges
        /\ q.new.peak # q.old.peak =>
             q.old.state = "draft" /\ q.new.state = "active"
    BY <2>1 DEF LifecycleInv, RequestRows, Drift
  <2>5. /\ next.state = IF q.new.state # q.old.state THEN q.new.state
                                                     ELSE row.state
        /\ next.peak = IF q.new.peak # q.old.peak THEN q.new.peak ELSE row.peak
    BY DEF Updated
  <2> HIDE DEF next
  <2>6. AllowedMove(row, next)
    BY <2>4, <2>5 DEF AllowedMove, Drift, Lifecycle!Edges,
       Lifecycle!DocumentedEdges
  <2>7. CampaignMove
    BY <2>2, <2>3, <2>6 DEF CampaignMove
  <2>8. /\ campaign'[q.campaign] = next
        /\ \A d \in Campaigns \ {q.campaign} : campaign'[d] = campaign[d]
    BY <2>2, <2>3 DEF TypeInv, TypeOK
  <2>9. RequestRows'
    BY <2>3 DEF SerialRequests, RequestRows, IdleRequest, TypeInv, TypeOK
  <2>10. next.state # "none"
    BY <2>4, <2>5 DEF Lifecycle!DocumentedEdges
  <2>11. row.state \in {"decaying", "ready_to_remove"} \cup TerminalStates =>
           next.state \in {"decaying", "ready_to_remove"} \cup TerminalStates
    BY <2>4, <2>5 DEF Drift, Lifecycle!DocumentedEdges, TerminalStates
  <2>12. ReminderOnlyAfterDecay'
    BY <2>3, <2>8, <2>11 DEF LifecycleInv, ReminderOnlyAfterDecay
  <2> QED
    BY <2>3, <2>7, <2>8, <2>9, <2>10, <2>12 DEF LifecycleInv, WorkerRows,
       IsEvaluating
<1>5. ASSUME NEW r \in Requests, LoseRequest(r)
      PROVE  LifecycleInv' /\ CampaignMove
  BY <1>5 DEF LoseRequest, LifecycleInv, RequestRows, WorkerRows,
     ReminderOnlyAfterDecay, CampaignMove, IsEvaluating, IdleRequest, TypeInv,
     TypeOK
<1>6. ASSUME NEW w \in Workers, NEW c \in Campaigns, NEW usage \in UsageValues,
             ClaimCampaign(w, c, usage)
      PROVE  LifecycleInv' /\ CampaignMove
  <2> DEFINE row == campaign[c]
             new == [row EXCEPT !.state =
                       Evaluate(@, usage, row.peak, row.threshold)]
  <2>1. /\ worker'[w].old = row /\ worker'[w].new = new
        /\ UNCHANGED <<campaign, reminder, request>>
    BY <1>6 DEF ClaimCampaign, TypeInv, TypeOK
  <2>2. /\ new.state = Evaluate(row.state, usage, row.peak, row.threshold)
        /\ new.peak = row.peak
    BY <1>0 DEF Rows
  <2>3. \A u \in Workers \ {w} : worker'[u] = worker[u]
    BY <1>6, WorkerStepFrame
  <2> HIDE DEF new
  <2>4. WorkerRows'
    BY <2>1, <2>2, <2>3, EvaluateMoves DEF LifecycleInv, WorkerRows,
       IsEvaluating
  <2> QED
    BY <2>1, <2>4 DEF LifecycleInv, RequestRows, ReminderOnlyAfterDecay,
       CampaignMove
<1>7. ASSUME NEW w \in Workers, FinishEvaluation(w) \/ CommitReminder(w)
      PROVE  LifecycleInv' /\ CampaignMove
  <2> DEFINE e == worker[w]
             row == campaign[e.campaign]
             next == Updated(row, e.old, e.new)
  <2>1. IsEvaluating(w) /\ e \in Evaluations
    BY <1>7, WorkerTypes DEF FinishEvaluation, CommitReminder, IsEvaluating,
       TypeInv
  <2>2. /\ e.campaign \in Campaigns /\ row \in Rows /\ e.new \in Rows
        /\ e.old = row
        /\ row.state \notin TerminalStates \cup {"none"}
    BY <1>0, <2>1 DEF Evaluations, LockInv, ClaimIsCurrent, ClaimIsOpen
  <2>3. /\ e.new.peak = row.peak
        /\ e.new.state = row.state \/ <<row.state, e.new.state>> \in JobEdges
    BY <2>1, <2>2 DEF LifecycleInv, WorkerRows
  <2>4. /\ next \in Rows /\ next.state = e.new.state
        /\ AllowedMove(row, next)
    BY <2>2, <2>3, JobCommit
  <2>5. /\ campaign' = [campaign EXCEPT ![e.campaign] = next]
        /\ request' = request
    BY <1>7 DEF FinishEvaluation, CommitReminder
  <2> HIDE DEF next
  <2>6. CampaignMove
    BY <2>2, <2>4, <2>5 DEF CampaignMove
  <2>7. /\ campaign'[e.campaign] = next
        /\ \A d \in Campaigns \ {e.campaign} : campaign'[d] = campaign[d]
    BY <2>2, <2>5 DEF TypeInv, TypeOK
  <2>8. RequestRows'
    <3> SUFFICES ASSUME NEW r \in Requests, request[r].pc = "commit"
                 PROVE  Drift(request[r].old.state,
                              campaign'[request[r].campaign].state)
      BY <2>5 DEF LifecycleInv, RequestRows
    <3>1. /\ request[r].campaign \in Campaigns
          /\ Drift(request[r].old.state, campaign[request[r].campaign].state)
      BY RequestTypes DEF LifecycleInv, RequestRows, OpenRequests, TypeInv
    <3> QED
      BY <2>3, <2>4, <2>7, <3>1 DEF Drift, JobEdges
  <2>9. WorkerRows'
    <3>1. worker'[w].pc \in {"idle", "enqueue"}
      BY <1>7 DEF FinishEvaluation, CommitReminder, IdleWorker, TypeInv, TypeOK
    <3>2. \A u \in Workers \ {w} : worker'[u] = worker[u]
      BY <1>7, WorkerStepFrame DEF EvaluationStep
    <3> QED
      BY <3>1, <3>2 DEF LifecycleInv, WorkerRows, IsEvaluating
  <2>10. row.state \in {"decaying", "ready_to_remove"} \cup TerminalStates =>
           next.state \in {"decaying", "ready_to_remove"} \cup TerminalStates
    BY <2>3, <2>4 DEF JobEdges
  <2>11. next.state # "none"
    BY <2>2, <2>3, <2>4 DEF JobEdges
  <2>12. ReminderOnlyAfterDecay'
    <3>1. CASE reminder' = reminder
      BY <2>7, <2>10, <3>1 DEF LifecycleInv, ReminderOnlyAfterDecay
    <3>2. CASE CommitReminder(w)
      <4>1. next.state = "decaying"
        BY <2>4, <3>2 DEF CommitReminder, TypeInv, RemindHasRepo, NeedsReminder
      <4>2. reminder' = [reminder EXCEPT
                           ![<<e.campaign, e.new.repo>>].state = "pending"]
        BY <3>2 DEF CommitReminder
      <4>3. \A d \in Campaigns \ {e.campaign}, repo \in Repos :
              reminder'[<<d, repo>>] = reminder[<<d, repo>>]
        BY <4>2 DEF TypeInv, TypeOK, Keys
      <4> QED
        BY <2>7, <4>1, <4>3 DEF LifecycleInv, ReminderOnlyAfterDecay
    <3> QED
      BY <1>7, <3>1, <3>2 DEF FinishEvaluation
  <2> QED
    BY <2>6, <2>7, <2>8, <2>9, <2>11, <2>12 DEF LifecycleInv
<1>8. ASSUME NEW w \in Workers, AddReminder(w)
      PROVE  LifecycleInv' /\ CampaignMove
  <2>1. worker[w] \in Evaluations /\ IsEvaluating(w)
    BY <1>8, WorkerTypes DEF AddReminder, IsEvaluating, TypeInv
  <2>2. /\ UNCHANGED <<campaign, reminder, request>>
        /\ worker'[w].old = worker[w].old /\ worker'[w].new = worker[w].new
    BY <1>8, <2>1 DEF AddReminder, TypeInv, TypeOK, Evaluations
  <2>3. \A u \in Workers \ {w} : worker'[u] = worker[u]
    BY <1>8, WorkerStepFrame DEF EvaluationStep
  <2> QED
    BY <2>1, <2>2, <2>3 DEF LifecycleInv, RequestRows, WorkerRows,
       ReminderOnlyAfterDecay, CampaignMove, IsEvaluating
<1>9. ASSUME NEW w \in Workers,
             \/ ReminderConflict(w) \/ EnqueueReminder(w) \/ LoseEvaluation(w)
             \/ RedeliverJob(w)
      PROVE  LifecycleInv' /\ CampaignMove
  BY <1>1, <1>9 DEF ReminderConflict, EnqueueReminder, LoseEvaluation,
     RedeliverJob, IsEvaluating, IdleWorker, TypeInv, TypeOK
<1>10. ASSUME NEW w \in Workers, NEW k \in Keys, StartSending(w, k)
       PROVE  LifecycleInv' /\ CampaignMove
  BY <1>1, <1>10 DEF StartSending, ClaimReminder, SkipReminder,
     PlaceholderConflict, TakeJob, IsEvaluating, TypeInv, TypeOK
<1>11. ASSUME NEW w \in Workers, SendingStep(w) \/ FailSending(w)
       PROVE  LifecycleInv' /\ CampaignMove
  <2>1. /\ \A u \in Workers \ {w} : worker'[u] = worker[u]
        /\ ~IsEvaluating(w)'
        /\ campaign' = campaign
    BY <1>11, WorkerStepFrame, SendingStepFrame DEF FaultStep
  <2>2. CASE RecordPull(w)
    <3>1. /\ request' = request
          /\ \A k \in Keys : reminder'[k].state # "none" =>
               reminder[k].state # "none"
      <4>1. worker[w].key \in Keys /\ SendsReminder(w, worker[w].key)
        BY <2>2, WorkerTypes DEF RecordPull, IsSending, SendsReminder,
           Sendings, TypeInv
      <4>2. reminder[worker[w].key].state # "none"
        BY <4>1 DEF JobInv, ReminderBeforeJob
      <4> QED
        BY <2>2, <4>2 DEF RecordPull, TypeInv, TypeOK
    <3> QED
      BY <2>1, <3>1 DEF LifecycleInv, RequestRows, WorkerRows,
         ReminderOnlyAfterDecay, CampaignMove, IsEvaluating, Keys
  <2>3. CASE ~RecordPull(w)
    BY <1>1, <1>11, <2>1, <2>3 DEF SendingStep, ListPulls, CreateBranch,
       CreatePull, RefusePull, FailSending, IsEvaluating
  <2> QED
    BY <2>2, <2>3
<1>12. ASSUME NEW k \in Keys, RequeueJob(k) \/ ClosePull(k)
       PROVE  LifecycleInv' /\ CampaignMove
  BY <1>1, <1>12 DEF RequeueJob, ClosePull
<1>13. CASE UNCHANGED vars
  BY <1>1, <1>13 DEF vars
<1> QED
  BY <1>2, <1>3, <1>4, <1>5, <1>6, <1>7, <1>8, <1>9, <1>10, <1>11, <1>12,
     <1>13 DEF Next, EvaluationStep, FaultStep

\* The invariant behind the theorems below, in every reachable state.
LEMMA LifecycleInvariant ==
  ASSUME RowLocks = TRUE, SerialRequests
  PROVE  Spec => [](TypeInv /\ LockInv /\ JobInv /\ LifecycleInv)
<1> DEFINE Inv == TypeInv /\ LockInv /\ JobInv /\ LifecycleInv
<1>1. Init => Inv
  <2>1. Init => LockInv /\ JobInv
    BY DEF Init, LockInv, ClaimIsCurrent, ClaimIsOpen, Exclusive, JobInv,
       ReminderBeforeJob, ScheduledOnce, SendsReminder, IsEvaluating,
       IsSending, IdleWorker
  <2>2. Init => LifecycleInv
    BY DEF Init, LifecycleInv, RequestRows, WorkerRows,
       ReminderOnlyAfterDecay, IsEvaluating, IdleWorker, IdleRequest, Keys
  <2> QED
    BY <2>1, <2>2, InitTypeInv
<1>2. Inv /\ [Next]_vars => Inv'
  BY NextTypeInv, NextLockInv, NextJobInv, NextLifecycleInv
<1> HIDE DEF Inv
<1>3. Spec => []Inv
  BY <1>1, <1>2, PTL DEF Spec
<1> QED
  BY <1>3 DEF Inv

\* On PostgreSQL, as long as API requests do not overlap one another: a
\* completed or aborted campaign is never revived, the baseline of the guards
\* is set by activation alone, and only campaigns that have decayed have
\* reminders, whatever the jobs do in the meantime.
THEOREM FinishedCampaignsStayFinished ==
  ASSUME RowLocks = TRUE, SerialRequests
  PROVE  Spec => /\ []ReminderOnlyAfterDecay
                 /\ TerminalIsFinal
                 /\ PeakIsSetByActivation
<1> DEFINE Inv == TypeInv /\ LockInv /\ JobInv /\ LifecycleInv
           Step == \A c \in Campaigns :
             /\ campaign[c].state \in TerminalStates =>
                  campaign'[c].state = campaign[c].state
             /\ campaign'[c].peak # campaign[c].peak =>
                  campaign[c].state = "draft" /\ campaign'[c].state = "active"
<1>1. Inv /\ [Next]_vars => Step
  <2> SUFFICES ASSUME Inv, CampaignMove PROVE Step
    BY NextLifecycleInv
  <2>1. \A c \in Campaigns : campaign'[c] = campaign[c]
                               \/ AllowedMove(campaign[c], campaign'[c])
    BY DEF CampaignMove, TypeInv, TypeOK
  <2> QED
    BY <2>1 DEF AllowedMove, TerminalStates, Lifecycle!Edges,
       Lifecycle!DocumentedEdges
<1>2. Inv => ReminderOnlyAfterDecay
  BY DEF LifecycleInv
<1>3. Inv /\ [Next]_vars =>
        /\ [\A c \in Campaigns : campaign[c].state \in TerminalStates =>
              campaign'[c].state = campaign[c].state]_vars
        /\ [\A c \in Campaigns : campaign'[c].peak # campaign[c].peak =>
              campaign[c].state = "draft" /\ campaign'[c].state = "active"]_vars
  BY <1>1
<1>4. Spec => []Inv
  BY LifecycleInvariant
<1> HIDE DEF Inv
<1> QED
  BY <1>2, <1>3, <1>4, PTL DEF Spec, TerminalIsFinal, PeakIsSetByActivation

\* Under the same conditions a client repository has a reminder only if its
\* campaign has decayed: no evaluation schedules one for a state that the
\* commit of a request or of another job takes back to active.
THEOREM RemindersFollowDecay ==
  ASSUME RowLocks = TRUE, SerialRequests
  PROVE  Spec => []ReminderOnlyAfterDecay
<1> DEFINE Inv == TypeInv /\ LockInv /\ JobInv /\ LifecycleInv
<1>1. Inv => ReminderOnlyAfterDecay
  BY DEF LifecycleInv
<1>2. Spec => []Inv
  BY LifecycleInvariant
<1> HIDE DEF Inv
<1> QED
  BY <1>1, <1>2, PTL

\* Under the same conditions handlers and jobs together implement the life
\* cycle, extended by the one stale move from ready_to_remove to decaying.
THEOREM CampaignsImplementLifecycle ==
  ASSUME RowLocks = TRUE, SerialRequests
  PROVE  Spec => ImplementsLifecycle
<1> DEFINE Inv == TypeInv /\ LockInv /\ JobInv /\ LifecycleInv
           st == [c \in Campaigns |-> campaign[c].state]
<1>1. Init => Lifecycle!Init
  BY DEF Init, Lifecycle!Init
<1>2. Inv /\ [Next]_vars => [Lifecycle!Next]_st
  <2> SUFFICES ASSUME Inv, CampaignMove, st' # st PROVE Lifecycle!Next
    BY NextLifecycleInv
  <2>1. PICK c \in Campaigns, row \in Rows :
          /\ campaign' = [campaign EXCEPT ![c] = row]
          /\ AllowedMove(campaign[c], row)
    BY DEF CampaignMove
  <2>2. st' = [st EXCEPT ![c] = row.state] /\ st[c] = campaign[c].state
    BY <2>1 DEF TypeInv, TypeOK
  <2>3. CASE row.state = campaign[c].state
    BY <2>2, <2>3
  <2>4. CASE campaign[c].state = "none" /\ row.state = "draft"
    <3>1. Lifecycle!Create(c)
      BY <2>2, <2>4 DEF Lifecycle!Create
    <3> QED
      BY <3>1 DEF Lifecycle!Next
  <2>5. CASE <<campaign[c].state, row.state>> \in Lifecycle!Edges
    <3>1. Lifecycle!Move(c)
      BY <2>2, <2>5 DEF Lifecycle!Move
    <3> QED
      BY <3>1 DEF Lifecycle!Next
  <2> QED
    BY <2>1, <2>3, <2>4, <2>5 DEF AllowedMove
<1>3. Spec => []Inv
  BY LifecycleInvariant
<1> HIDE DEF Inv
<1> QED
  BY <1>1, <1>2, <1>3, PTL DEF Spec, ImplementsLifecycle, Lifecycle!Spec
=============================================================================
