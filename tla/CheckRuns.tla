----------------------------- MODULE CheckRuns -----------------------------
(***************************************************************************)
(* The GitHub App (apps/github_app/src) on one pull request: webhooks      *)
(* carry a snapshot of the pull request, a handler turns each into a check *)
(* run and a comment and posts the run to the backend (module CiRuns).     *)
(* Handlers are asynchronous functions: every await is a step, and any     *)
(* number of them may be in progress. The request that webhook handler h   *)
(* sends is post[h]; it may outlive a handler that dies.                   *)
(*                                                                         *)
(* The base branch does not move here, so the report is a property of the  *)
(* head SHA.                                                               *)
(***************************************************************************)
EXTENDS CiRuns, SequencesExt

CONSTANTS
  BreakingShas,  \* heads whose specification breaks the one of the base
  SpeclessShas,  \* heads that have no file at GUARDIAN_SPEC_PATH
  MaxEvents,     \* bound on changes of the pull request
  MaxFaults      \* bound on failed GitHub calls

ASSUME ChecksAssumption ==
  /\ BreakingShas \subseteq Shas
  /\ SpeclessShas \subseteq Shas
  /\ MaxEvents \in Nat
  /\ MaxFaults \in Nat

VARIABLES
  pull,      \* the pull request: its head and whether the bypass label is set
  changes,   \* how often the pull request changed
  webhooks,  \* events on their way, oldest first
  handler,   \* what each webhook handler holds
  checks,    \* the check runs on GitHub; the position is the check_run_id
  faults,    \* failures injected so far
  mixed      \* history: webhooks came in another order, or overlapped

appVars == <<pull, changes, webhooks, handler, checks, faults, mixed>>
vars == <<runVars, appVars>>

Snapshots == [head : Shas, bypass : BOOLEAN]

IdleHandler == [pc |-> "idle"]
Handlers ==
  [pc : {"fetch", "create", "diff", "complete", "crashed", "comment", "persist",
         "posted"},
   head : Shas, bypass : BOOLEAN, check : Nat]

Statuses == {"in_progress", "success", "failure", "action_required"}

TypeOK ==
  /\ RunsTypeOK
  /\ pull \in Snapshots
  /\ changes \in 0..MaxEvents
  /\ webhooks \in Seq(Snapshots)
  /\ handler \in [Posts -> {IdleHandler} \cup Handlers]
  /\ checks \in Seq([sha : Shas, status : Statuses])
  /\ faults \in 0..MaxFaults
  /\ mixed \in BOOLEAN

\* The pull request is opened: its first webhook is on its way.
Init ==
  /\ RunsInit
  /\ pull \in Snapshots
  /\ changes = 0
  /\ webhooks = <<pull>>
  /\ handler = [h \in Posts |-> IdleHandler]
  /\ checks = <<>>
  /\ faults = 0
  /\ mixed = FALSE

-----------------------------------------------------------------------------
\* A push ("synchronize"), or the bypass label is set or removed.
ChangePull(snapshot) ==
  /\ changes < MaxEvents
  /\ snapshot # pull
  /\ snapshot.head = pull.head \/ snapshot.bypass = pull.bypass
  /\ pull' = snapshot
  /\ changes' = changes + 1
  /\ webhooks' = Append(webhooks, snapshot)
  /\ UNCHANGED <<runVars, handler, checks, faults, mixed>>

IsBusy(h) == handler[h].pc # "idle" \/ post[h].pc # "idle"

\* Webhooks come in any order, and while others are handled.
Deliver(h, i) ==
  /\ ~IsBusy(h)
  /\ mixed' = (mixed \/ i # 1 \/ \E g \in Posts : IsBusy(g))
  /\ webhooks' = RemoveAt(webhooks, i)
  /\ handler' = [handler EXCEPT ![h] =
       [pc |-> "fetch", head |-> webhooks[i].head,
        bypass |-> webhooks[i].bypass, check |-> 0]]
  /\ UNCHANGED <<runVars, pull, changes, checks, faults>>

\* The step of a handler from one await to the next.
Await(h, from, to) ==
  /\ handler[h].pc = from
  /\ handler' = [handler EXCEPT ![h].pc = to]
  /\ UNCHANGED <<runVars, pull, changes, webhooks, faults, mixed>>

Return(h) == handler' = [handler EXCEPT ![h] = IdleHandler]

FetchSpecs(h) ==
  /\ Await(h, "fetch", "create")
  /\ handler[h].head \notin SpeclessShas
  /\ UNCHANGED checks

\* fetchSpecs answers null: the event is ignored.
SkipEvent(h) ==
  /\ handler[h].pc = "fetch"
  /\ handler[h].head \in SpeclessShas
  /\ Return(h)
  /\ UNCHANGED <<runVars, pull, changes, webhooks, checks, faults, mixed>>

CreateCheck(h) ==
  /\ handler[h].pc = "create"
  /\ checks' = Append(checks, [sha |-> handler[h].head,
                               status |-> "in_progress"])
  /\ handler' = [handler EXCEPT ![h].pc = "diff",
                                ![h].check = Len(checks) + 1]
  /\ UNCHANGED <<runVars, pull, changes, webhooks, faults, mixed>>

\* guardian diff reports, or it crashes.
RunDiff(h) ==
  /\ \/ Await(h, "diff", "complete")
     \/ Await(h, "diff", "crashed")
  /\ UNCHANGED checks

\* A plausible slip: the label only chooses the wording of the comment.
VerdictWithoutLabel(h) ==
  Run(handler[h].head \in BreakingShas, FALSE, handler[h].check)

Verdict(h) ==
  Run(handler[h].head \in BreakingShas, handler[h].bypass, handler[h].check)

CompleteCheck(h) ==
  /\ Await(h, "complete", "comment")
  /\ checks' = [checks EXCEPT ![handler[h].check].status =
                                Verdict(h).conclusion]

\* A plausible slip: the catch block only logs.
LogCrashed(h) ==
  /\ handler[h].pc = "crashed"
  /\ Return(h)
  /\ UNCHANGED <<runVars, pull, changes, webhooks, checks, faults, mixed>>

CompleteCrashed(h) ==
  /\ handler[h].pc = "crashed"
  /\ checks' = [checks EXCEPT ![handler[h].check].status = "action_required"]
  /\ Return(h)
  /\ UNCHANGED <<runVars, pull, changes, webhooks, faults, mixed>>

CreateComment(h) ==
  /\ Await(h, "comment", "persist")
  /\ UNCHANGED checks

\* A plausible slip: the head is read again instead of taken from the webhook.
PersistRunOfCurrentHead(h) ==
  /\ handler[h].pc = "persist"
  /\ ReadRun(h, pull.head, Verdict(h))
  /\ handler' = [handler EXCEPT ![h].pc = "posted"]
  /\ UNCHANGED <<pull, changes, webhooks, checks, faults, mixed>>

\* postRun sends the request; the backend looks the run up.
PersistRun(h) ==
  /\ handler[h].pc = "persist"
  /\ ReadRun(h, handler[h].head, Verdict(h))
  /\ handler' = [handler EXCEPT ![h].pc = "posted"]
  /\ UNCHANGED <<pull, changes, webhooks, checks, faults, mixed>>

BackendStep(h) ==
  /\ EndPost(h)
  /\ UNCHANGED appVars

\* The backend answered, with whatever status: postRun's errors are logged.
FinishRun(h) ==
  /\ handler[h].pc = "posted"
  /\ post[h].pc = "idle"
  /\ Return(h)
  /\ UNCHANGED <<runVars, pull, changes, webhooks, checks, faults, mixed>>

\* A GitHub call is rejected, fetchSpecs or postRun fails, or the App dies:
\* nothing completes the check run any more, and no webhook is sent again.
FailHandler(h) ==
  /\ handler[h].pc # "idle"
  /\ faults < MaxFaults
  /\ faults' = faults + 1
  /\ Return(h)
  /\ UNCHANGED <<runVars, pull, changes, webhooks, checks, mixed>>

FailBackend(h) ==
  /\ faults < MaxFaults
  /\ faults' = faults + 1
  /\ LosePost(h)
  /\ UNCHANGED <<pull, changes, webhooks, handler, checks, mixed>>

HandlerStep(h) ==
  \/ FetchSpecs(h)
  \/ SkipEvent(h)
  \/ CreateCheck(h)
  \/ RunDiff(h)
  \/ CompleteCheck(h)
  \/ CompleteCrashed(h)
  \/ CreateComment(h)
  \/ PersistRun(h)
  \/ FinishRun(h)

Next ==
  \/ \E snapshot \in Snapshots : ChangePull(snapshot)
  \/ \E h \in Posts :
       \/ \E i \in DOMAIN webhooks : Deliver(h, i)
       \/ HandlerStep(h)
       \/ BackendStep(h)
       \/ FailHandler(h)
       \/ FailBackend(h)

Spec == Init /\ [][Next]_vars

\* Every await of a handler returns. Nothing is assumed of GitHub's users.
FairSpec == Spec /\ \A h \in Posts : WF_vars(HandlerStep(h))

-----------------------------------------------------------------------------
\* GitHub shows the check run of a head that was created last.
NewestCheck(sha) ==
  {i \in DOMAIN checks :
     /\ checks[i].sha = sha
     /\ \A j \in DOMAIN checks : checks[j].sha = sha => j <= i}

Quiet == webhooks = <<>> /\ \A h \in Posts : ~IsBusy(h)

\* As long as webhooks are handled one after the other, the stored conclusion is
\* the one that the stored report and label call for, whatever fails in between.
SerialVerdictsFit == ~mixed => VerdictFitsReport

\* A run is only stored for a check run of its head that GitHub shows completed,
\* whatever fails or overlaps; and its conclusion is that of the check run as long
\* as webhooks are handled one after the other. (Two posts that overlap can leave
\* the check_run_id of a failed check run with the conclusion of another.)
RunMatchesCheck ==
  \A id \in Ids :
    LET run == rows[id]
    IN /\ run.data.check \in DOMAIN checks
       /\ checks[run.data.check].sha = run.sha
       /\ checks[run.data.check].status \in {"success", "failure"}
       /\ ~mixed => checks[run.data.check].status = run.data.conclusion

\* When webhooks came one after the other, nothing failed and nothing is on its
\* way, the backend's run for the head is the one of the check run GitHub shows,
\* unless the diff crashed.
HistoryIsCurrent ==
  Quiet /\ faults = 0 /\ ~mixed =>
    \A i \in NewestCheck(pull.head) :
      \/ checks[i].status = "action_required"
      \/ \E id \in Ids : rows[id].sha = pull.head /\ rows[id].data.check = i

\* apps/github_app/README.md, 6-10: the check of the head fails when breaking
\* changes are present and the label is not set on the pull request; as long as
\* webhooks are handled one after the other.
VerdictFollowsLabel ==
  Quiet /\ faults = 0 /\ ~mixed =>
    \A i \in NewestCheck(pull.head) :
      \/ checks[i].status = "action_required"
      \/ checks[i].status =
           Conclusion(pull.head \in BreakingShas, pull.bypass)

\* No check run stays in progress as long as no call fails, although the diff
\* may crash.
ChecksAreCompleted ==
  \A i \in 1..(MaxEvents + 1) :
    (i \in DOMAIN checks /\ faults = 0)
      ~> \/ i \in DOMAIN checks /\ checks[i].status # "in_progress"
         \/ faults # 0
=============================================================================
