----------------------------- MODULE Campaigns -----------------------------
(***************************************************************************)
(* The campaign orchestrator: API request handlers (apps/api/routes/       *)
(* campaigns.py) and RQ worker processes (guardian_campaigns/jobs.py)      *)
(* share the campaigns and reminder_prs tables, the RQ reminder queue and  *)
(* the client repositories on GitHub.                                      *)
(*                                                                         *)
(* A handler or a job is one database transaction: it reads the campaign   *)
(* row, computes on its private copy and writes the changed columns when   *)
(* it commits. Only jobs take the row lock, and only on PostgreSQL.        *)
(*                                                                         *)
(* Usage is the environment's: an evaluation reads any value of            *)
(* UsageValues. campaign_metrics rows influence no transition and are left *)
(* to the module Decay.                                                    *)
(***************************************************************************)
EXTENDS CampaignFSM

CONSTANTS
  Campaigns,        \* campaign ids
  Repos,            \* client repositories
  NoRepo,           \* github_repo is None
  Requests,         \* API request handlers that may be in flight at once
  Workers,          \* RQ worker processes
  TokenWorkers,     \* the workers whose environment has GITHUB_TOKEN
  UsageValues,      \* rolling usage an evaluation may sample
  PeakValues,       \* peak_usage an activate request may carry
  Thresholds,       \* usage_threshold_pct, in hundredths of a percent
  RowLocks,         \* TRUE on PostgreSQL: FOR UPDATE SKIP LOCKED
  MaxFaults         \* bound on injected failures

ASSUME ConstantsAssumption ==
  /\ NoRepo \notin Repos
  /\ TokenWorkers \subseteq Workers
  /\ UsageValues \subseteq Nat
  /\ PeakValues \subseteq Nat
  /\ Thresholds \subseteq Nat
  /\ RowLocks \in BOOLEAN
  /\ MaxFaults \in Nat

VARIABLES
  campaign,   \* the campaigns table
  reminder,   \* the reminder_prs table, by its unique key
  queue,      \* reminder jobs waiting in campaigns-default
  failed,     \* reminder jobs in RQ's FailedJobRegistry
  request,    \* what each API handler holds
  worker,     \* what each worker holds
  branches,   \* guardian/deprecate-<campaign> branches on the client repos
  pulls,      \* pull requests for those branches: the open one, how many ever
  faults      \* failures injected so far

vars == <<campaign, reminder, queue, failed, request, worker, branches, pulls,
          faults>>

Keys == Campaigns \X Repos

\* "none" is a campaign that has not been created.
Rows == [state     : STATES \cup {"none"},
         peak      : Nat,
         threshold : Nat,
         repo      : Repos \cup {NoRepo}]

\* pr_state takes no other value in the code; 0 is a pr_number of NULL.
Reminders == [state : {"none", "pending", "open"}, pr : Nat]

IdleRequest == [pc |-> "idle"]
OpenRequests == [pc : {"commit"}, campaign : Campaigns, old : Rows, new : Rows]

IdleWorker == [pc |-> "idle"]
Evaluations ==
  [pc : {"evaluate", "remind"}, campaign : Campaigns, old : Rows, new : Rows]
Enqueuings == [pc : {"enqueue"}, key : Keys]
Sendings == [pc : {"list", "ref", "pull", "record"}, key : Keys, pr : Nat]

TypeOK ==
  /\ campaign \in [Campaigns -> Rows]
  /\ reminder \in [Keys -> Reminders]
  /\ queue \subseteq Keys
  /\ failed \subseteq Keys
  /\ request \in [Requests -> {IdleRequest} \cup OpenRequests]
  /\ worker \in [Workers -> {IdleWorker} \cup Evaluations \cup Enqueuings
                                         \cup Sendings]
  /\ branches \subseteq Keys
  /\ pulls \in [Keys -> [open : Nat, count : Nat]]
  /\ faults \in 0..MaxFaults

Init ==
  /\ campaign = [c \in Campaigns |->
       [state |-> "none", peak |-> 0, threshold |-> 0, repo |-> NoRepo]]
  /\ reminder = [k \in Keys |-> [state |-> "none", pr |-> 0]]
  /\ queue = {}
  /\ failed = {}
  /\ request = [r \in Requests |-> IdleRequest]
  /\ worker = [w \in Workers |-> IdleWorker]
  /\ branches = {}
  /\ pulls = [k \in Keys |-> [open |-> 0, count |-> 0]]
  /\ faults = 0

-----------------------------------------------------------------------------
(* Sessions and row locks.                                                 *)

\* The UPDATE a session emits names the columns that differ from the values
\* it loaded; the other columns keep what the table holds by then.
Updated(row, old, new) ==
  [state     |-> IF new.state # old.state THEN new.state ELSE row.state,
   peak      |-> IF new.peak # old.peak THEN new.peak ELSE row.peak,
   threshold |-> IF new.threshold # old.threshold THEN new.threshold
                                                  ELSE row.threshold,
   repo      |-> IF new.repo # old.repo THEN new.repo ELSE row.repo]

IsEvaluating(w) == worker[w].pc \in {"evaluate", "remind"}
IsSending(w) == worker[w].pc \in {"list", "ref", "pull", "record"}

EvaluatesCampaign(w, c) == IsEvaluating(w) /\ worker[w].campaign = c
SendsReminder(w, k) == IsSending(w) /\ worker[w].key = k

\* A plausible slip: the SELECT of a job does not ask for the row lock.
CampaignNeverLocked(c) == FALSE

\* A job holds the lock of the row it claimed until its transaction ends.
CampaignLocked(c) == RowLocks /\ \E w \in Workers : EvaluatesCampaign(w, c)
ReminderLocked(k) == RowLocks /\ \E w \in Workers : SendsReminder(w, k)

Exists(c) == campaign[c].state # "none"

Fault ==
  /\ faults < MaxFaults
  /\ faults' = faults + 1

-----------------------------------------------------------------------------
(* API request handlers. Loading a campaign takes no lock.                 *)

CreateCampaign(c, threshold, repo) ==
  /\ ~Exists(c)
  /\ campaign' = [campaign EXCEPT ![c] =
       [state |-> "draft", peak |-> 0, threshold |-> threshold, repo |-> repo]]
  /\ UNCHANGED <<reminder, queue, failed, request, worker, branches, pulls,
                 faults>>

Load(r, c, new) ==
  /\ request[r].pc = "idle"
  /\ Exists(c)
  /\ request' = [request EXCEPT ![r] =
       [pc |-> "commit", campaign |-> c, old |-> campaign[c], new |-> new]]
  /\ UNCHANGED <<campaign, reminder, queue, failed, worker, branches, pulls,
                 faults>>

\* activate with a peak_usage in the request body.
ActivateWithPeak(r, c, peak) ==
  /\ Permitted("activate", campaign[c].state)
  /\ Load(r, c, [campaign[c] EXCEPT !.state = Dest["activate"], !.peak = peak])

\* Any trigger without one. The FSM is new, so its usage is still 0; a
\* trigger that is not permitted answers 422 and changes nothing.
FireTrigger(r, c, trigger) ==
  /\ Permitted(trigger, campaign[c].state)
  /\ Load(r, c, [campaign[c] EXCEPT !.state =
       Fire(trigger, @, 0, campaign[c].peak, campaign[c].threshold)])

UpdateCampaign(r, c, threshold, repo) ==
  Load(r, c, [campaign[c] EXCEPT !.threshold = threshold, !.repo = repo])

\* POST /campaigns/{id}/evaluate: evaluates like the job, schedules nothing.
EvaluateInline(r, c, usage) ==
  /\ campaign[c].state \notin TerminalStates
  /\ Load(r, c, [campaign[c] EXCEPT !.state =
       Evaluate(@, usage, campaign[c].peak, campaign[c].threshold)])

\* The UPDATE waits for a job that holds the row.
CommitRequest(r) ==
  /\ request[r].pc = "commit"
  /\ LET q == request[r]
         c == q.campaign
     IN /\ ~CampaignLocked(c)
        /\ campaign' = [campaign EXCEPT ![c] = Updated(@, q.old, q.new)]
  /\ request' = [request EXCEPT ![r] = IdleRequest]
  /\ UNCHANGED <<reminder, queue, failed, worker, branches, pulls, faults>>

\* The server process dies, or the connection: the transaction is lost.
LoseRequest(r) ==
  /\ request[r].pc = "commit"
  /\ request' = [request EXCEPT ![r] = IdleRequest]
  /\ UNCHANGED <<campaign, reminder, queue, failed, worker, branches, pulls,
                 faults>>

-----------------------------------------------------------------------------
(* The evaluate_campaign job. A missing, locked or terminal campaign is    *)
(* skipped without a change of state.                                      *)

ClaimCampaign(w, c, usage) ==
  /\ worker[w].pc = "idle"
  /\ Exists(c)
  /\ ~CampaignLocked(c)
  /\ campaign[c].state \notin TerminalStates
  /\ LET row == campaign[c]
         new == [row EXCEPT !.state =
                   Evaluate(@, usage, row.peak, row.threshold)]
     IN worker' = [worker EXCEPT ![w] =
          [pc |-> "evaluate", campaign |-> c, old |-> row, new |-> new]]
  /\ UNCHANGED <<campaign, reminder, queue, failed, request, branches, pulls,
                 faults>>

\* A plausible slip: reminders go out as soon as the campaign is active.
NeedsReminderWhileActive(row) ==
  row.state \in {"active", "decaying"} /\ row.repo # NoRepo

NeedsReminder(row) == row.state = "decaying" /\ row.repo # NoRepo

\* A plausible slip: the lookup forgets the client repository.
TrackedForAnyRepo(k) ==
  \E repo \in Repos : reminder[<<k[1], repo>>].state \in {"pending", "open"}

Tracked(k) == reminder[k].state \in {"pending", "open"}

\* No reminder wanted, or one is on record already: commit at scope exit.
FinishEvaluation(w) ==
  /\ worker[w].pc = "evaluate"
  /\ LET e == worker[w]
         c == e.campaign
     IN /\ NeedsReminder(e.new) => Tracked(<<c, e.new.repo>>)
        /\ campaign' = [campaign EXCEPT ![c] = Updated(@, e.old, e.new)]
  /\ worker' = [worker EXCEPT ![w] = IdleWorker]
  /\ UNCHANGED <<reminder, queue, failed, request, branches, pulls, faults>>

\* A plausible slip: the job is queued before the transaction commits.
AddReminderEnqueuesFirst(w) ==
  /\ worker[w].pc = "evaluate"
  /\ LET e == worker[w]
         k == <<e.campaign, e.new.repo>>
     IN /\ NeedsReminder(e.new) /\ ~Tracked(k)
        /\ queue' = queue \cup {k}
  /\ worker' = [worker EXCEPT ![w].pc = "remind"]
  /\ UNCHANGED <<campaign, reminder, failed, request, branches, pulls, faults>>

\* The lookup found nothing; a new reminder row joins the transaction.
AddReminder(w) ==
  /\ worker[w].pc = "evaluate"
  /\ LET e == worker[w]
     IN NeedsReminder(e.new) /\ ~Tracked(<<e.campaign, e.new.repo>>)
  /\ worker' = [worker EXCEPT ![w].pc = "remind"]
  /\ UNCHANGED <<campaign, reminder, queue, failed, request, branches, pulls,
                 faults>>

\* A plausible slip: no unique key on (campaign_id, client_repo).
CommitReminderAgain(w) ==
  /\ worker[w].pc = "remind"
  /\ LET e == worker[w]
         c == e.campaign
         k == <<c, e.new.repo>>
     IN /\ campaign' = [campaign EXCEPT ![c] = Updated(@, e.old, e.new)]
        /\ reminder' = [reminder EXCEPT ![k].state = "pending"]
        /\ worker' = [worker EXCEPT ![w] = [pc |-> "enqueue", key |-> k]]
  /\ UNCHANGED <<queue, failed, request, branches, pulls, faults>>

\* State and reminder row are committed together, before the job is queued.
CommitReminder(w) ==
  /\ worker[w].pc = "remind"
  /\ LET e == worker[w]
         c == e.campaign
         k == <<c, e.new.repo>>
     IN /\ reminder[k].state = "none"
        /\ campaign' = [campaign EXCEPT ![c] = Updated(@, e.old, e.new)]
        /\ reminder' = [reminder EXCEPT ![k].state = "pending"]
        /\ worker' = [worker EXCEPT ![w] = [pc |-> "enqueue", key |-> k]]
  /\ UNCHANGED <<queue, failed, request, branches, pulls, faults>>

\* uq_reminder_prs_campaign_repo: the whole transaction is rolled back.
ReminderConflict(w) ==
  /\ worker[w].pc = "remind"
  /\ reminder[<<worker[w].campaign, worker[w].new.repo>>].state # "none"
  /\ worker' = [worker EXCEPT ![w] = IdleWorker]
  /\ UNCHANGED <<campaign, reminder, queue, failed, request, branches, pulls,
                 faults>>

EnqueueReminder(w) ==
  /\ worker[w].pc = "enqueue"
  /\ queue' = queue \cup {worker[w].key}
  /\ worker' = [worker EXCEPT ![w] = IdleWorker]
  /\ UNCHANGED <<campaign, reminder, failed, request, branches, pulls, faults>>

\* The worker is killed, a statement fails, or Redis is unreachable (which
\* schedule_reminder_pr logs and ignores). What was not committed is gone.
LoseEvaluation(w) ==
  /\ IsEvaluating(w) \/ worker[w].pc = "enqueue"
  /\ Fault
  /\ worker' = [worker EXCEPT ![w] = IdleWorker]
  /\ UNCHANGED <<campaign, reminder, queue, failed, request, branches, pulls>>

-----------------------------------------------------------------------------
(* The send_reminder_pr job. Each GitHub call is a step of its own.        *)

TakeJob(w, k) ==
  /\ worker[w].pc = "idle"
  /\ k \in queue
  /\ queue' = queue \ {k}

\* A plausible slip: no early return for a reminder that is already open.
ClaimRecordedReminder(w, k) ==
  /\ TakeJob(w, k)
  /\ ~ReminderLocked(k)
  /\ reminder[k].state \in {"pending", "open"}
  /\ w \in TokenWorkers
  /\ worker' = [worker EXCEPT ![w] = [pc |-> "list", key |-> k, pr |-> 0]]
  /\ UNCHANGED <<campaign, reminder, failed, request, branches, pulls, faults>>

\* The row is pending and this worker can talk to GitHub.
ClaimReminder(w, k) ==
  /\ TakeJob(w, k)
  /\ ~ReminderLocked(k)
  /\ reminder[k].state = "pending"
  /\ w \in TokenWorkers
  /\ worker' = [worker EXCEPT ![w] = [pc |-> "list", key |-> k, pr |-> 0]]
  /\ UNCHANGED <<campaign, reminder, failed, request, branches, pulls, faults>>

\* The row is already done, or GITHUB_TOKEN is not set: the job succeeds.
SkipReminder(w, k) ==
  /\ TakeJob(w, k)
  /\ ~ReminderLocked(k)
  /\ \/ reminder[k].state = "open"
     \/ reminder[k].state = "pending" /\ w \notin TokenWorkers
  /\ UNCHANGED <<campaign, reminder, failed, request, worker, branches, pulls,
                 faults>>

\* A locked row is not returned; inserting the placeholder hits the unique
\* key and the job fails. (Without a row it would succeed: ReminderBeforeJob
\* says that no job runs without one.)
PlaceholderConflict(w, k) ==
  /\ TakeJob(w, k)
  /\ ReminderLocked(k)
  /\ failed' = failed \cup {k}
  /\ UNCHANGED <<campaign, reminder, request, worker, branches, pulls, faults>>

\* get_pulls(state="open", head=...): an open pull request is reused.
ListPulls(w) ==
  /\ worker[w].pc = "list"
  /\ LET open == pulls[worker[w].key].open
     IN worker' = [worker EXCEPT
          ![w].pc = IF open # 0 THEN "record" ELSE "ref",
          ![w].pr = open]
  /\ UNCHANGED <<campaign, reminder, queue, failed, request, branches, pulls,
                 faults>>

\* A plausible slip: a branch that exists already is an error.
CreateNewBranchOnly(w) ==
  /\ worker[w].pc = "ref"
  /\ LET k == worker[w].key
     IN IF k \in branches
        THEN /\ failed' = failed \cup {k}
             /\ worker' = [worker EXCEPT ![w] = IdleWorker]
             /\ UNCHANGED branches
        ELSE /\ branches' = branches \cup {k}
             /\ worker' = [worker EXCEPT ![w].pc = "pull"]
             /\ UNCHANGED failed
  /\ UNCHANGED <<campaign, reminder, queue, request, pulls, faults>>

\* create_git_ref; 422 (the branch is left from an earlier run) is ignored.
CreateBranch(w) ==
  /\ worker[w].pc = "ref"
  /\ branches' = branches \cup {worker[w].key}
  /\ worker' = [worker EXCEPT ![w].pc = "pull"]
  /\ UNCHANGED <<campaign, reminder, queue, failed, request, pulls, faults>>

\* create_pull. The pull requests of a branch are numbered 1, 2, ...
CreatePull(w) ==
  /\ worker[w].pc = "pull"
  /\ LET k == worker[w].key
         n == pulls[k].count + 1
     IN /\ pulls[k].open = 0
        /\ pulls' = [pulls EXCEPT ![k] = [open |-> n, count |-> n]]
        /\ worker' = [worker EXCEPT ![w].pc = "record", ![w].pr = n]
  /\ UNCHANGED <<campaign, reminder, queue, failed, request, branches, faults>>

\* GitHub refuses a second open pull request for a branch: the job fails.
RefusePull(w) ==
  /\ worker[w].pc = "pull"
  /\ pulls[worker[w].key].open # 0
  /\ failed' = failed \cup {worker[w].key}
  /\ worker' = [worker EXCEPT ![w] = IdleWorker]
  /\ UNCHANGED <<campaign, reminder, queue, request, branches, pulls, faults>>

\* A plausible slip: the number is stored, pr_state is not set to "open".
RecordPullNumber(w) ==
  /\ worker[w].pc = "record"
  /\ reminder' = [reminder EXCEPT ![worker[w].key].pr = worker[w].pr]
  /\ worker' = [worker EXCEPT ![w] = IdleWorker]
  /\ UNCHANGED <<campaign, queue, failed, request, branches, pulls, faults>>

RecordPull(w) ==
  /\ worker[w].pc = "record"
  /\ reminder' = [reminder EXCEPT ![worker[w].key] =
                    [state |-> "open", pr |-> worker[w].pr]]
  /\ worker' = [worker EXCEPT ![w] = IdleWorker]
  /\ UNCHANGED <<campaign, queue, failed, request, branches, pulls, faults>>

\* A GitHub call or the commit fails, or the worker is killed.
FailSending(w) ==
  /\ IsSending(w)
  /\ Fault
  /\ failed' = failed \cup {worker[w].key}
  /\ worker' = [worker EXCEPT ![w] = IdleWorker]
  /\ UNCHANGED <<campaign, reminder, queue, request, branches, pulls>>

-----------------------------------------------------------------------------
(* The environment: RQ's registries and the client's GitHub repository.    *)

\* An operator requeues a failed job.
RequeueJob(k) ==
  /\ k \in failed
  /\ failed' = failed \ {k}
  /\ queue' = queue \cup {k}
  /\ UNCHANGED <<campaign, reminder, request, worker, branches, pulls, faults>>

\* RQ loses the heartbeat of a worker that is still running the job and the
\* job is delivered once more.
RedeliverJob(w) ==
  /\ IsSending(w)
  /\ queue' = queue \cup {worker[w].key}
  /\ UNCHANGED <<campaign, reminder, failed, request, worker, branches, pulls,
                 faults>>

\* The client merges or closes the pull request.
ClosePull(k) ==
  /\ pulls[k].open # 0
  /\ pulls' = [pulls EXCEPT ![k].open = 0]
  /\ UNCHANGED <<campaign, reminder, queue, failed, request, worker, branches,
                 faults>>

-----------------------------------------------------------------------------
RequestStep(r, c) ==
  \/ \E peak \in PeakValues : ActivateWithPeak(r, c, peak)
  \/ \E trigger \in Triggers : FireTrigger(r, c, trigger)
  \/ \E threshold \in Thresholds, repo \in Repos \cup {campaign[c].repo} :
       UpdateCampaign(r, c, threshold, repo)
  \/ \E usage \in UsageValues : EvaluateInline(r, c, usage)

EvaluationStep(w) ==
  \/ FinishEvaluation(w)
  \/ AddReminder(w)
  \/ CommitReminder(w)
  \/ ReminderConflict(w)
  \/ EnqueueReminder(w)

StartSending(w, k) ==
  \/ ClaimReminder(w, k)
  \/ SkipReminder(w, k)
  \/ PlaceholderConflict(w, k)

SendingStep(w) ==
  \/ ListPulls(w)
  \/ CreateBranch(w)
  \/ CreatePull(w)
  \/ RefusePull(w)
  \/ RecordPull(w)

FaultStep(w) ==
  \/ LoseEvaluation(w)
  \/ FailSending(w)
  \/ RedeliverJob(w)

Next ==
  \/ \E c \in Campaigns, threshold \in Thresholds, repo \in Repos \cup {NoRepo} :
       CreateCampaign(c, threshold, repo)
  \/ \E r \in Requests, c \in Campaigns : RequestStep(r, c)
  \/ \E r \in Requests : CommitRequest(r) \/ LoseRequest(r)
  \/ \E w \in Workers, c \in Campaigns, usage \in UsageValues :
       ClaimCampaign(w, c, usage)
  \/ \E w \in Workers, k \in Keys : StartSending(w, k)
  \/ \E w \in Workers : EvaluationStep(w) \/ SendingStep(w) \/ FaultStep(w)
  \/ \E k \in Keys : RequeueJob(k) \/ ClosePull(k)

Spec == Init /\ [][Next]_vars

(***************************************************************************)
(* Fairness. A running worker finishes the job it took; RQ hands a queued  *)
(* reminder to some idle worker (strong, since workers alternate between   *)
(* idle and busy); and whatever drives enqueue_evaluate keeps evaluating   *)
(* every campaign ("periodically sampled via RQ jobs", models.py). Nothing *)
(* is assumed of requests, operators, clients or faults.                   *)
(***************************************************************************)
EvaluatesCampaignSomewhere(c) ==
  \E w \in Workers, usage \in UsageValues : ClaimCampaign(w, c, usage)

Fairness ==
  /\ \A w \in Workers : WF_vars(EvaluationStep(w)) /\ WF_vars(SendingStep(w))
  /\ \A k \in Keys : SF_vars(\E w \in Workers : StartSending(w, k))
  /\ \A c \in Campaigns : SF_vars(EvaluatesCampaignSomewhere(c))

FairSpec == Spec /\ Fairness

-----------------------------------------------------------------------------
(* Safety on PostgreSQL, for any number of handlers, workers and faults.   *)

\* A job that holds a campaign's row decides on what the table says: nobody
\* changes the row between evaluate_campaign's SELECT and its commit.
ClaimIsCurrent ==
  \A w \in Workers : IsEvaluating(w) =>
    campaign[worker[w].campaign] = worker[w].old

\* No campaign is evaluated, and no reminder sent, by two workers at once
\* (jobs.py, "multiple workers can run in parallel without double-processing").
NoDoubleProcessing ==
  \A v, w \in Workers : v # w =>
    /\ \A c \in Campaigns : ~(EvaluatesCampaign(v, c) /\ EvaluatesCampaign(w, c))
    /\ \A k \in Keys : ~(SendsReminder(v, k) /\ SendsReminder(w, k))

\* Nothing is queued, running, failed or about to be queued for a reminder
\* whose row is not committed (jobs.py, _maybe_schedule_reminder commits
\* before it enqueues). It is why send_reminder_pr never needs a placeholder.
ReminderBeforeJob ==
  \A k \in Keys :
    (\/ k \in queue \cup failed
     \/ \E w \in Workers : SendsReminder(w, k)
     \/ \E w \in Workers : worker[w].pc = "enqueue" /\ worker[w].key = k)
    => reminder[k].state # "none"

\* A reminder job is put in the queue once: no second evaluation enqueues it
\* while it is on its way, queued, running or failed.
ScheduledOnce ==
  \A w \in Workers : worker[w].pc = "enqueue" =>
    LET k == worker[w].key
    IN /\ k \notin queue \cup failed
       /\ \A v \in Workers \ {w} :
            ~SendsReminder(v, k) /\ ~(worker[v].pc = "enqueue" /\ worker[v].key = k)

\* A pull request that is still open on the client repository is the one the
\* reminder row names, once the row says "open".
RowNamesTheOpenPull ==
  \A k \in Keys : reminder[k].state = "open" =>
    /\ reminder[k].pr \in 1..pulls[k].count
    /\ pulls[k].open \in {0, reminder[k].pr}

\* Retries are idempotent: every pull request after the first costs a
\* failure between create_pull and the commit of the row; delivering a job
\* twice does not open a second one.
PullsCostFaults == \A k \in Keys : pulls[k].count <= faults + 1

\* A client that closed or merged its reminder is not sent another one, and
\* the recorded number never changes.
RecordedReminderIsFinal ==
  [][\A k \in Keys : reminder[k].state = "open" =>
       /\ reminder'[k] = reminder[k]
       /\ pulls'[k].count = pulls[k].count]_vars

-----------------------------------------------------------------------------
(* Safety on PostgreSQL when API requests do not overlap one another.      *)

\* A completed or aborted campaign stays so: no job or request that read it
\* earlier writes another state over it.
TerminalIsFinal ==
  [][\A c \in Campaigns : campaign[c].state \in TerminalStates =>
       campaign'[c].state = campaign[c].state]_vars

\* The baseline of the decay guards is set by activation and by nothing else.
PeakIsSetByActivation ==
  [][\A c \in Campaigns : campaign'[c].peak # campaign[c].peak =>
       campaign[c].state = "draft" /\ campaign'[c].state = "active"]_vars

\* Only a campaign whose usage has decayed has reminders: no client of a
\* draft or active campaign is asked to migrate.
ReminderOnlyAfterDecay ==
  \A c \in Campaigns, repo \in Repos :
    reminder[<<c, repo>>].state # "none" =>
      campaign[c].state \in {"decaying", "ready_to_remove"} \cup TerminalStates

\* The one undocumented move: a request that read "active" fires start_decay
\* and commits after jobs took the campaign to "ready_to_remove".
Lifecycle ==
  INSTANCE CampaignLifecycle WITH
    status <- [c \in Campaigns |-> campaign[c].state],
    StaleEdges <- {<<"ready_to_remove", "decaying">>}

\* Jobs and requests together move campaigns as CampaignLifecycle allows.
ImplementsLifecycle == Lifecycle!Spec

-----------------------------------------------------------------------------
(* Liveness, under FairSpec: what is promised as long as no failure        *)
(* happens in the meantime, whatever failed before.                        *)

\* A queued reminder ends up recorded: what earlier attempts left behind (a
\* branch, an open pull request) is no obstacle to the retry.
QueuedReminderIsRecorded ==
  \A k \in Keys, n \in 0..MaxFaults :
    (k \in queue /\ TokenWorkers = Workers /\ faults = n)
      ~> (reminder[k].state = "open" \/ faults # n)

\* However a campaign came to be decaying, its client repository gets a
\* reminder row unless the campaign or the repository changes first.
DecayingIsTracked ==
  \A c \in Campaigns, repo \in Repos, n \in 0..MaxFaults :
    (campaign[c].state = "decaying" /\ campaign[c].repo = repo /\ faults = n)
      ~> \/ reminder[<<c, repo>>].state # "none"
         \/ campaign[c].state # "decaying"
         \/ campaign[c].repo # repo
         \/ faults # n

-----------------------------------------------------------------------------
(* What the repository says of the program and the code does not do.       *)

\* jobs.py, 162-163: "If the enqueue below fails, the pending row is
\* reconciled on the next evaluate."
PendingIsReconciled ==
  \A c \in Campaigns, repo \in Repos :
    reminder[<<c, repo>>].state = "pending"
      ~> \/ <<c, repo>> \in queue
         \/ reminder[<<c, repo>>].state = "open"
         \/ campaign[c].state # "decaying"
=============================================================================
