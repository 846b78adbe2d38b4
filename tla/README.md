# Verification of the API contract guardian

TLA+ models of the guardian's core logic, model-checked with TLC on small
instances, with theorems checked by TLAPS for every value of the constants.
Paths are relative to the repository root. `PROJECT.json` maps every definition
to the lines it models.

## 1. Inventory

| Component | State it keeps | Operations | Talks to |
|---|---|---|---|
| Campaign state machine (`guardian_campaigns/state_machine.py`) | none of its own: `campaigns.state`, `peak_usage`, `usage_threshold_pct` are passed in | five triggers, two guards, `evaluate` | called by jobs and API |
| Campaign jobs and reminder delivery (`jobs.py`, `scheduler.py`, `github_pr.py`) | `campaigns`, `campaign_metrics`, `reminder_prs`; RQ queues in Redis; branches and pull requests on client repositories | `evaluate_campaign`, `_maybe_schedule_reminder`, `schedule_reminder_pr`, `send_reminder_pr`, `open_reminder_pr` | PostgreSQL or SQLite, RQ, GitHub |
| Campaign API (`apps/api/routes/campaigns.py`) | the same tables | create, update, transition, inline evaluate | shares rows with the jobs |
| Decay curve (`decay.py`) | `campaign_metrics` | `record_metric`, `compute_ewma`, `get_rolling_usage` | reads `usages` |
| CI runs (`routes/ci.py`) | `ci_runs` | upsert by `(repo, pr_number, head_sha)`, latest run | called by the GitHub App |
| GitHub App (`apps/github_app`) | a check run per webhook | `handlePullRequest` | GitHub, diff CLI, CI runs |
| Migration guides (`guardian_guides`, `routes/guides.py`) | `guides`, a cache by prompt hash | `generate` with bounded retries | LLM, `contract_diffs`, mined call sites |
| Contract registry (`routes/services.py`, `hashing.py`) | `services`, `contracts`, `contract_versions` | create, upload by content hash, list latest | read by ingest |
| Traffic ingest (`traffic/`, `routes/ingest.py`) | `ingest_batches`, `observed_endpoints`, `field_usages`, `defacto_contracts` | `ingest_traffic` | registry |
| Static miner (`mining/`, `guardian mine`) | `inferred_endpoints` | `mine_repo` with the Python and JavaScript visitors, `persist_call_sites` | the clients' checkouts; read by diff and guides |
| Diff engine (`guardian_diff`, `routes/diff.py`) | none; `contract_diffs` by the route | diff, classify, affected clients | miner's table; read by guides and the GitHub App |
| `guardian diff` (`apps/cli`) | none | diff with an exit code | the diff engine; run by the GitHub action |
| Rest of the CLI, dashboard, API shell, reporting | none | formatting, wiring | all of the above |

What is hard:

* **Concurrency.** Workers and API handlers share rows. Only jobs take a row
  lock, only on PostgreSQL, and with `SKIP LOCKED`; handlers read unlocked,
  compute, and write. Sessions do not autoflush and an UPDATE names only the
  columns that changed, so two commits can be merged column by column.
* **Failure.** A worker may die between its commit, the enqueue, each GitHub
  call and the final commit. Redis errors are logged and ignored. Jobs are
  requeued from the failed registry and delivered again when a heartbeat is
  lost.
* **Ordering.** The pending reminder row is committed before its job exists;
  webhooks, posts and uploads overtake each other.
* **Numbers.** Percent guards with an epsilon, a peak of 0, an EWMA that is
  rounded at every step and fed back.
* **Meaning.** The verdict of a change says whether clients break. The walkers
  look at some parts of a contract and not at others, rules can be replaced,
  and most changes are not joined with the calls they concern. The join compares
  the names that two programs give to one operation: the specification, and what
  a visitor reads out of a client's source. Observed traffic is summed up in
  schemas that are merged from ingest to ingest.

What makes each component correct, in one line each: a campaign moves only
along its life cycle and a finished one stays finished; at most one worker
handles a campaign or a reminder; a reminder is backed by a committed row,
sent at most once per failure and final once recorded; the EWMA stays within
its samples and settles; the stored CI run is the one of the latest check;
a guide request returns the one cached text; an upload is idempotent and the
latest version never goes back; ingesting a client's batch again changes no
usage; an observed URL is counted under the operation that serves it, and the
stored schema accepts what was observed; a change names the clients that call
the operation; what the deploy gate lets pass breaks no client. `PROJECT.json` lists the hazards at their
lines with the properties that cover them.

## 2. Modules

| Module | Models |
|---|---|
| `CampaignFSM` | states, triggers, guards and `evaluate` as operators |
| `CampaignLifecycle` | abstract: what an observer of a campaign is promised |
| `Campaigns` | API handlers, workers, tables, queue and GitHub together |
| `CampaignsProofs` | the theorems about `Campaigns` |
| `MCCampaigns` | instances of `Campaigns` for TLC |
| `Decay` | one campaign's usage, metrics and guards over time |
| `DecayProofs` | the theorem about `Decay` |
| `CiRuns` | the `ci_runs` rows of one pull request and `POST /ci/runs` |
| `CheckRuns` | the GitHub App on that pull request; extends `CiRuns` |
| `CheckRunsProofs` | the theorems about `CiRuns`, and on top of them those about `CheckRuns` |
| `MCCheckRuns` | instances of both for TLC |
| `GuideCache` | abstract: what callers of the guide service are promised |
| `Guides` | `GET /guides` with the service's cache and retry loop |
| `GuidesProofs` | the theorems about `Guides` |
| `Registry` | contracts and versions of one service, and overlapping uploads |
| `RegistryProofs` | the theorems about `Registry` |
| `UrlPaths` | URLs and path templates: `path_normalize.py` |
| `RouteTree` | the trie of a specification's paths and the template of a URL |
| `SchemaMerge` | inferred JSON schemas, their merge, and the de-facto contract |
| `Ingest` | traffic ingests of several API processes; extends `Registry` and `RouteTree` |
| `DefactoContracts` | what ingests come to: stored schemas and de-facto contracts; extends `Ingest` and `SchemaMerge` |
| `IngestProofs` | the theorems about `Ingest`, on top of those about `Registry` |
| `MCRegistry`, `MCIngest` | instances of `Registry` and `DefactoContracts` for TLC |
| `CallSites` | the Python and JavaScript visitors as operators on a file |
| `ClientCalls` | which requests the calls of a file make when it runs, and which calls the visitors are made for; extends `CallSites` |
| `Catalogue` | scans of checkouts, the join of changes with calls, observed URLs; extends `RouteTree` |
| `CatalogueProofs` | the theorems about `RouteTree` and `Catalogue` |
| `MCCatalogue` | `Catalogue` over the definitions of `CallSites` and `ClientCalls`, files and specifications for TLC |
| `RawChanges` | a difference between two contracts |
| `OpenApiDiff`, `ProtoDiff` | the walkers as operators, and what a contract means to its clients |
| `RuleSet` | the default rules, classification and merging |
| `SpecDiff` | `POST /diff`, `guardian diff`, the mined calls, and what a guide shows |
| `SpecDiffProofs` | the theorems about `OpenApiDiff`, `ProtoDiff`, `RuleSet` and `SpecDiff` |
| `MCSpecDiff` | instances of `SpecDiff` for TLC |

### Campaigns

A handler or job is a database transaction: it reads the row (`old`), computes
its new value (`new`) and commits the columns that differ (`Updated`).

* A request is two steps, the unlocked read with the computation (`Load` in
  `ActivateWithPeak`, `FireTrigger`, `UpdateCampaign`, `EvaluateInline`) and
  `CommitRequest`, which waits for a job that holds the row. A trigger the table
  does not permit answers 422 and is no step.
* `evaluate_campaign` is `ClaimCampaign`, then either `FinishEvaluation`, or
  `AddReminder`, `CommitReminder` (state and reminder row together) and
  `EnqueueReminder`. `ReminderConflict` is the unique key on SQLite. An inline
  evaluation and a manual `start_decay` schedule nothing.
* `send_reminder_pr` is `ClaimReminder`, `ListPulls`, `CreateBranch`,
  `CreatePull` or `RefusePull`, `RecordPull`. `SkipReminder` is a row that is
  done, or a worker without a token. When the row is locked, `SKIP LOCKED`
  returns nothing and the placeholder insert hits the unique key
  (`PlaceholderConflict`). Without any row the placeholder would be inserted;
  `ReminderBeforeJob` shows that no job runs in that situation.
* Faults: `LoseRequest`, `LoseEvaluation`, `FailSending` (also a commit that
  fails), `RedeliverJob`. The environment: `RequeueJob`, `ClosePull`.

`campaign_metrics` influences no transition in the code, so it is left to
`Decay`. Usage is chosen by the environment at each evaluation. RQ's queue is a
set: the job id is derived from the campaign and repository, so a second
enqueue of a queued job overwrites it. The delayed path of
`schedule_reminder_pr` has no caller and is left out; so are `description` and
`decay_window_days`. GitHub is external: one open pull request per branch, as
`open_reminder_pr` relies on; that it may also refuse a branch without
commits is a `FailSending`.

The 5-second transition lock does not appear: it is a field of the FSM
instance and every caller builds a new instance for each evaluation.

### Decay

An evaluation is `Sample` (the usage, the campaign and the latest metrics row
are read, and the new EWMA and state are computed) and `CommitSample`. Jobs
exclude each other, but `POST /campaigns/{id}/evaluate` takes no lock: up to
`MaxOpen` evaluations overlap, each reads the rows committed so far, and the
latest row is the one with the greatest `sampled_at`, whenever it is committed
(`overtaken`). The state is written only if a trigger fired, so an evaluation that
commits late can undo the move of another one. The new EWMA is in integers (units
of 1/`Precision`) and the guards decide on the raw sample, as `jobs.py` does.
`Rounded` gives either neighbour on a tie, because Python rounds a binary
approximation. `lowest` and `highest` are history variables.
`max(1, decay_window_days)` is the assumption `Window # 0`.

### CiRuns and CheckRuns

`upsert_ci_run` is two steps: the lookup (`FindRun`, `FindNothing`) and the
commit (`CommitUpdate`, `CommitInsert`, or `RefuseInsert` for the 409).
`Merged` is the UPDATE of the columns that differ from what was read.
`LosePost` is an API process that dies in between. The report is reduced to
whether it counts a breaking change and `base_sha` is left out. A row's
position stands for its id. `get_latest_ci_run` changes nothing. Payloads are those the App computes: the conclusion
fits report and label.

In `CheckRuns` a webhook is a snapshot of the pull request (head and label) at
the time of its event. `handlePullRequest` goes from await to await:
`FetchSpecs` or `SkipEvent`, `CreateCheck`, `RunDiff`, `CompleteCheck` or
`CompleteCrashed`, `CreateComment`, `PersistRun`, `FinishRun`. The backend's
commit is `BackendStep`, and outlives a handler that dies (`FailHandler`: a
GitHub call is rejected or the App stops; nothing retries). The base branch
does not move, so whether a report has breaking changes is a constant of its
head. Which check run GitHub shows (`NewestCheck`) is external.

### Guides

`GuideService.generate` is `CacheHit`, `DiffNotFound` (404) or `CacheMiss`,
then calls of the language model (`AcceptDraft`, `RetryDraft`, `GiveUp` for the
502), then the commit (`CommitGuide`) or, when the unique key refuses the row,
`ServeWinner`. `LoseRequest` is a model or database that cannot be reached.
The key stands for the hash of diff, client, prompt version and model. A text
is reduced to whether its code blocks parse; which prompt is rendered follows
from the number of attempts, so it is no state of its own. `late` is a history
field. `GuideCache` is the promise: a write-once entry per key, and every
answer is the entry. `answer` is mapped to what a request is about to respond.

### Registry and Ingest

An upload is `BeginUpload` (the canonical text), `FindVersion`, `FindContract`
(or the 409 for another kind), `InsertContract` (the flush, which waits for the
name), `FlushVersion` (which waits for the hash, and takes `created_at`) and
`CommitUpload`. A violated key rolls the upload back: in `FlushVersion` with a
409, in `InsertContract` with an uncaught 500. Texts stand for hashes of
canonical JSON or descriptors. `clock` orders `created_at`.

`ingest_traffic` is one transaction: `FindBatch`, `InsertBatch` or
`BatchConflict`, `Group` (the latest OpenAPI version is read and the records are
grouped), then `ReadEndpoint` and `WriteEndpoint` (or `EndpointConflict`) for
each group, and `CommitIngest` with the usages and the `record_count`. The groups
are written in the order in which the records first name them: `Target` is that of
the first record whose group is not written. Reads take no lock, so a write stores a value computed from
an older row; writes wait for the holder of the row, and `BreakDeadlock` is
PostgreSQL ending a cycle. The route never awaits between its first write and
its commit: one API process runs one ingest at a time, and only several
processes overlap. `overlapped` is a history variable that tells the two apart;
`committed` remembers which payload was committed for whom under which
specification, `counted` and `posted` how many records that were.

What a schema is makes no difference to these transactions. `Ingest` takes
`infer_schema` and `merge_json_schemas` as the operators `InferSchema` and
`MergeSchemas`; the run gives it those of `SchemaMerge`, and `DefactoContracts`
says what comes of them.

A payload is the sequence of its records: a URL, and the body that came back if
it is JSON. `Template` resolves URLs with `RouteTree` under the specification that
was read, or by the heuristic without one. The field counts of an ingest stand
for each endpoint as the count of the root. `WriteEndpoint` merges the inferred
schema into the stored one, and `CommitIngest` writes a schema only if it changed.
The de-facto contract is an operator (`Contract`), because nothing reads it back.
Left out: `last_seen_at`, the schemas of request bodies (merged by the same
function) and arrays.

### RouteTree, SchemaMerge

`build_route_tree` is the trie in closed form: its nodes are the root and what the
positions of the templates begin with, and a node is its path from the root.
`Reached` is where the walk along a path ends, `match` the template it returns.
`Candidates` and `Preferred` say which operation serves a
request (a concrete path before a templated one), and `Hides` and `Shares` name
the two blind spots of the trie: a literal segment hides the template beside it
even if it leads nowhere (`url_match.py:59`), and templates that differ in names
only share a node, whose template is the last one (`url_match.py:49`). A path item
without methods is taken for GET.

`SchemaMerge` has genson's builder (`to_schema`), the detection of enums,
`merge_json_schemas` and `build_defacto_contract`, and gives schemas a meaning
(`Accepts`). The properties of `DefactoContracts` hold up to these blind spots, which
are named in them and without which TLC finds a counterexample:

* a field that one ingest requires stays required beside an ingest that requires
  none, because genson omits an empty `required` and the merge takes an absent
  one for no opinion (`_merge.py:48-61`);
* of two leaves the incoming keywords win, so a type or an enum of an older
  ingest is replaced or kept beside a value that it does not have;
* fields of the specification below a schema without `type: object`, or in the
  place of which an ingest saw something else, are lost from the de-facto
  contract, although `defacto.py:13-14` promises that none is deleted.

### CallSites, ClientCalls, Catalogue

A file is given by its bindings and its calls, the parts of the syntax tree that
the visitors look at. `CallSites` translates both visitors: the collecting pass,
which knows no scopes and lets the last binding of a name win, and the
inspection of each call for requests, httpx, gRPC stubs, axios and fetch, with
the rendering of URLs from constants and interpolations. `UrlPaths` is the
normalisation they share.

In `Catalogue` a scan is `DetectCommit`, `MineRepo`, `LookupRows`, and
`PersistRows` or `ScanConflict` (the unique key); `LoseScan` is a file or a
process that fails, and `Edit` changes the checkout at any time. `Observe`
resolves a request as an ingest does. What the visitors find in a file (`Mined`),
what its calls send (`Sent`) and whether the visitors are made for a call
(`MadeFor`) are parameters of the module, so that it can be proved about; the run
gives them `visit`, `Sends` and `IsPlain`, and TLC evaluates for every file of the
run what the module assumes of them (`VisitorsAssumption`). `ClientCalls` says what
a file means when it runs (`Meaning`, `Sends`), by the scopes of its language, and
which calls the visitors are made for (`IsPlain`): the library is imported as a
module, names are bound once and where the call sees them, and the URL is
written in place or by constants. For these the mined name is the one the client
sends. Outside, TLC finds a call that is stored under another name or missed: a
base URL hidden by a local of the same name, a host in a variable, whose label
shifts to the path (`path_normalize.py:59-62`), two slots of one name, a `from`
import taken for the module.

Further limits that the module shows: the join takes rows of any commit
(`clients.py:80`), so a client is named that called the operation once; slots
must have the same name in the specification and in the client; directories are
ignored by any part of the absolute path (`repo_scanner.py:71`), so a checkout
under `build/` or `dist/` is not mined at all; HEAD is looked up before the files
are read. And no RPC change ever names a client: the join looks for method POST
and template `service.method` (`clients.py:51-57`, and its docstring says that
this is what is mined), while the visitor stores method RPC and template
`/package.Service/Method` (`python_visitor.py:365-382`).

### SpecDiff

`PostDiff` is the whole route, which commits once; `GuardianDiff` is the whole
command, with the fallback without a database that leaves out the clients;
`PersistCallSites` is the miner's insert-if-absent, of which only repository
and call matter here (`Catalogue` has the scan). Both diffs call `diff_contracts`, which walks the
contracts (`DiffOpenapi`, `DiffProto`), classifies each change by the last rule
that matches and joins it with the mined calls.

A contract is a nest of functions: paths to methods to operations, components
to schemas, messages to numbers to fields, services to methods. A schema is a
record that may lack any key, like the JSON object; `Resolve` follows one
reference. A set of changes stands for the list: no two agree in all they say
(a field `value` tells the values of one enum apart). A glob is the set of
locations it matches. A default rule is named by its kind, of which each has
one. Left out: parameters of a whole path item, media types other than JSON and nested schemas, which
the walker does not look at either, so that a break inside them passes unseen;
enum values, oneofs and streaming in
protobuf, likewise; the Spectral linter; malformed input, which is answered 400
or 422 and stores nothing.

The properties give contracts a meaning of their own: `Accepts` is a strict
server, `Sends` a client that follows its specification, `Reads` what it takes
from an answer, `DecodesAlike` the protobuf wire format. The gate is sound up
to these blind spots, which are named in the properties and without which TLC
finds a break:

* an enum that only the new side has, and properties behind a reference to
  another component or to one whose type changed, and a required name that is not
  among the properties (`SeesBody`);
* a protobuf field that takes the number of another one
  (`MovesOntoUsedNumber`): `proto.py:135-140` says that the move was reported,
  but it was not;
* custom rules: one that takes the id of a default rule and is limited to some
  locations unclassifies the rest; one that takes the id of a default rule of
  another kind stands at that rule's place, so a later default rule overrules it
  (`Earlier` in `CustomRulesDecide`); and `guardian diff --ruleset` does not
  merge at all (`GateRules`), although `apps/cli/main.py:209` says "Optional YAML
  ruleset to merge over the shipped defaults": with custom rules that match
  nothing every breaking change is behavioral and the exit code is 0.

## 3. Runs

| Run | Instance | Shows |
|---|---|---|
| `campaign_safety` | 1 campaign, 2 repos, 1 request, 2 workers, 2 faults, row locks | a job decides on the current row; reminders only after decay; finished campaigns stay so; `CampaignLifecycle` is implemented; row before job, idempotent retries |
| `without_row_locks` | SQLite: 1 repo, 3 workers of which two have a token, 1 fault | the unique key alone keeps scheduling single |
| `reminder_progress` | fair, 2 repos, 1 worker, 1 fault | a decaying campaign gets its reminder row, also after `github_repo` changed; a queued reminder is recorded |
| `decay_curve` | fair, window 7, threshold 0.01 %, 3 usage levels, 2 evaluations at once | the EWMA stays within the samples and settles, although overlapping evaluations lose samples; an unused campaign becomes ready |
| `checks` | fair, 3 heads (one breaking, one without specification), 2 handlers, any webhook order, 2 changes, 1 fault | a run is stored only for a completed check run of its head; without overlap, it never contradicts it, and when all is quiet check, run and label agree; no check run stays in progress unless a call fails |
| `guide_cache` | fair, 2 keys of which one is unknown, 2 requests, 3 texts of which one does not parse | one guide per key, which every caller is served; retries within the limit; every request is answered |
| `registry` | 2 uploads, 2 names, 3 texts of 2 kinds, 3 flushes | every contract has versions of its own kind |
| `ingest` | fair, 2 processes, 2 payloads with opposite orders and bodies of different shapes, 1 client and an anonymous caller, 3 ingests, 1 specification that is uploaded meanwhile | a client's usages are whole and counted once; counters are exact without overlap and invent nothing with it; the stored schema accepts what was seen; the contract keeps the specification; every ingest ends |
| `spec_diff` | 1 report or gate run, 2 client repositories, 2 mined calls, contracts that vary in one part each: paths and methods, a parameter, a body with one property that may be a reference or an enum, responses, two operations at once, a message with two numbers, a service; up to two custom rules, also under the id of another kind's rule | the gate lets nothing pass that breaks requests, readers or payloads, outside the blind spots; no protobuf difference is silent; guides show what breaks a client's mined calls; custom rules decide what they match |
| `catalogue` | 2 repositories (one under an ignored directory), 13 files of every form the visitors know, 5 specifications, 2 scans at once, 1 edit, 1 observed request of 5 | a change names the clients that call the operation and no others; a URL is counted under the operation that serves it |

Two runs refute what a comment, a test or a docstring says; the findings in
`PROJECT.json` quote the lines:

| Run | Refutes |
|---|---|
| `pending_reconciled` | "the pending row is reconciled on the next evaluate" |
| `overlapping_requests` | terminal states accept no further transition (two overlapping requests) |

More disagreements are visible in the models without a run of their own:
those of `SpecDiff` above; `README.md:243-245` promises that field usages do not
double when a payload is posted again, and for an anonymous caller they do
(`UsagesAfter` in `Ingest`; `UsagesAreWhole` is about named clients);
the guards see the raw usage and not the EWMA (`Decay`, `Sample`),
and a campaign activated without a peak becomes ready in full use; an RPC change
names no client (`Catalogue`). With overlapping webhooks `VerdictFollowsLabel`
fails, and two overlapping posts can leave the check run of a failed check beside
the conclusion "success", since an UPDATE names only the columns that changed
(`ci.py:49`; `RunMatchesCheck`).

**Bounds.** One campaign is enough for the safety properties: campaigns share
nothing but the workers. Two repositories let a campaign change its client
while the first reminder is on its way. Two workers are the least that
compete; a third waits or skips like the second. `MaxFaults` bounds injected
failures; 2 lets a retry fail again. Usage levels are one value for each
outcome of the guards (0, 4 % and 100 % of the peak). Requests that carry
another threshold are not enumerated (one threshold). `Window`, `Precision`
and the levels of `Decay` are small, with a window of 7 because its weights
(1/4, 3/4) make rounding stall visibly.

For posts and webhooks two of each are the least that overlap; `MaxEvents`
bounds the changes of the pull request, a push and a label for example. Three ingests are a first one and two that overlap with it or with each
other; one specification that moves a URL to another endpoint is enough for a
batch that is grouped differently when it is sent again. The bodies of the two
payloads differ in type, in what is required and in what looks like an enum, with
and without the specification. Two scans are the least that overlap; the files of
`MCCatalogue` hold every form of binding, call and URL once in a place where the
visitors are right, and every way they are known to be wrong, and a scan reads
one file at a time, so pairs of files add nothing but edits. `MaxClock` bounds the
versions flushed, with one for each text. One report is enough for `SpecDiff`: reports do not read each other,
and the calls are mined before it or after it in every order. Contracts vary in
one part at a time because the walkers treat the parts independently; every
two that vary in the same part are compared, in both directions.
`campaign_safety`, `without_row_locks`, `spec_diff` and `catalogue` use symmetry; the values they
permute are not told apart by any definition, and no liveness run uses it.

**Fairness** (`FairSpec`). A worker finishes the job it holds (weak fairness of
its steps), RQ hands a queued reminder to an idle worker in the end (strong,
since workers alternate between idle and busy), and every campaign is
evaluated again and again ("periodically sampled via RQ jobs", `models.py`;
`enqueue_evaluate` has no caller in the repository, so this one is an
assumption about the deployment); in `Decay` likewise, and an evaluation commits. In `CheckRuns` every await of a handler
returns (weak fairness of `HandlerStep`), and in `Guides` every call of the
language model and the database does. In `Ingest` a process goes on with its
transaction (weak fairness of `IngestStep`), and PostgreSQL ends deadlocks. Requests, operators, clients, users
of GitHub and faults are never forced to happen. The liveness properties promise progress as long as no
further fault happens, whatever failed before.

The runs of `Campaigns` do not check deadlock: a finished campaign without
open jobs really stops. Neither do those of `CheckRuns`, where the bound on
changes, and in the code a pull request that nobody touches, ends the run, nor
`spec_diff` and `catalogue`, which end when their bounds are used up.

## 4. Proofs

| Theorem | Assumes | Says |
|---|---|---|
| `TypeCorrect` | nothing | `[]TypeOK` |
| `JobsAreExclusive` | row locks | `[](ClaimIsCurrent /\ NoDoubleProcessing)` |
| `ReminderJobsAreBacked`, `RemindersAreScheduledOnce` | nothing | `[](ReminderBeforeJob /\ ScheduledOnce)`, `[]ScheduledOnce` |
| `RemindersAreIdempotent`, `RowsNameTheOpenPull` | row locks | `RowNamesTheOpenPull`, `PullsCostFaults`, `RecordedReminderIsFinal` |
| `FinishedCampaignsStayFinished`, `RemindersFollowDecay` | row locks, one request at a time | `ReminderOnlyAfterDecay`, `TerminalIsFinal`, `PeakIsSetByActivation` |
| `CampaignsImplementLifecycle` | row locks, one request at a time | `ImplementsLifecycle` |
| `OneRunPerSha` | nothing | `[]OneRowPerSha` |
| `RunsStay` | nothing | `RunsAreKept` |
| `SerialRunsAreConsistent` | one post at a time | `[]VerdictFitsReport` |
| `ChecksAreTyped` | GitHub's ids are the positive numbers | `[](TypeOK /\ OneRowPerSha)` of `CheckRuns` |
| `RunsMatchChecks` | the same | `[]RunMatchesCheck` |
| `SerialVerdicts` | the same | `[]SerialVerdictsFit` |
| `HistoryStaysCurrent` | the same | `[]HistoryIsCurrent` |
| `VerdictIsOfTheLabel` | the same | `[]VerdictFollowsLabel` |
| `GuidesImplementCache` | nothing | `ImplementsGuideCache` |
| `GuidesProofs!TypeCorrect` | nothing | `[]TypeOK` of `Guides` |
| `RepeatCallsAreFree` | nothing | `[]RepeatCallsDoNotDraft` |
| `RegistryIsTyped` | nothing | `[]RegistryTypeOK` |
| `ContractsStayBacked` | nothing | `[]ContractsAreBacked` |
| `VersionsStay` | nothing | `VersionsAreKept` |
| `WireBreaksAreReported` | field numbers, names, types and labels of any kind | a message that decodes differently has a breaking kind of change, or a field moved onto a used number |
| `ReportsMissNothing` | contracts that protoc accepts | `[]NoChangeIsSilent` |
| `RequestsSurviveOpenGate` | reports are finite | `[]OpenGateKeepsRequests` |
| `ReadersSurviveOpenGate` | reports are finite | `[]OpenGateKeepsReaders` |
| `PayloadsSurviveOpenGate` | contracts that protoc accepts | `[]OpenGateKeepsPayloads` |
| `GuidesNameAllThatBreaks` | a mined call with a path of two parts is an RPC | `[]GuidesNameWhatBreaks` |
| `CustomRulesDecideAll` | custom rules are a list | `[]CustomRulesDecide` |
| `IngestIsTyped` | no endpoint is left out of `Endpoints`; `None` is no number | `[]TypeOK` of `Ingest` |
| `UsagesStayWhole` | the same; no client is called like the anonymous one | `[]UsagesAreWhole` |
| `SerialCountsStayExact`, `CountsStayBounded` | the same as the first | `[]SerialCountsAreExact`, `[]CountsAreBounded` |
| `RequestsFindTheirRoutes` | no segment of a path is empty | `[]RoutesAreFound` |
| `RowsStayOfScans` | nothing | `[]RowsAreOfScans`: stored are exactly the call sites that successful scans found |
| `CallersAreNamed` | the visitors are right about each file by itself | `[]AffectedAreTheCallers` |
| `DecayProofs!TypeCorrect` | nothing | `[]TypeOK` of `Decay` |
| `EwmaIsBounded` | nothing | `[]EwmaWithinSamples` |

They hold for any number of campaigns, repositories, workers, posts, webhooks, head SHAs,
cache keys, requests, retries, faults, contracts, clients, rules, processes, payloads,
endpoints, scans, files and specifications, and those about `Ingest` for any
`InferSchema` and `MergeSchemas`. The two with `SerialRequests` are sharp: `overlapping_requests`
shows that without it `TerminalIsFinal` fails. So is the one with
`SerialPosts`: two posts for one row that read it at the same time each write
the columns they changed, and the conclusion may be of one and the label of the
other.

The argument goes up in layers. `TypeInv` strengthens `TypeOK` by what an open
request or job refers to. `LockInv` says that the holder of a row is unique and
its copy is the row; it is inductive because `CommitRequest` waits for the
holder. `JobInv` says that a reminder job (queued, running, failed or about to
be queued) is unique and has a row; the unique key makes it inductive without
locks. `DeliveryInv` relates a running job to GitHub: which pull request it is
about to record, and that every pull request beyond the first was paid for by
a fault. `LifecycleInv` bounds how far a pending request can be behind the
row: since only jobs move the campaign meanwhile, a request that wants to
write a live state finds the row at most two automatic moves ahead and never
terminal. The refinement then is one case per action, and the only case that
needs the stale edge is `CommitRequest`. For `CiRuns`, `PostsRefer` says that a post that
found a row still has it; for the verdict, `VerdictInv` adds that the only
open post holds the current row, so that merging its changes stores the payload
whole. For `CheckRuns`, `HandlersOwnChecks` says that a handler has a check run
for itself, which is in progress until the handler completes it, so a completed
check run never changes; `RunsNameChecks` and `SerialInv` carry that over to
the request and the row. `QuietInv` adds what is left at the end: without
overlap the last webhook, or the handler that took it, holds the current pull
request and creates the newest check run, and without failures its request is
awaited. That the ids are all positive numbers (`AnyCheckId`) only types the
column; TLC's instance has as many as there are webhooks. For `Guides`, type correctness already says that drafts parse and stay
within the limit; `LateInv` adds that a stored guide stays stored, and the
refinement is one case per action, of which only `CacheHit`, `CommitGuide` and
`ServeWinner` are not a `Leave` or a stutter. For `Registry`, `UploadsAgree` says
that what an upload found still holds when it writes, since whoever inserts a
name or a text keeps the others waiting; without it a second upload could give
a contract another kind. For
`SpecDiff`, `StoredInv` says that every report is the one its comparison gives,
and lemmas go up from a message (`SilentMessage`) and a service to the whole
contract: if no change is reported, nothing differs. For the gate, `StoredInv`
turns a verdict into a kind (`BreakingKinds`): what the default rules call
breaking is what has one of these kinds, so a report that passes has none of them,
and a lemma for each part of an operation (its parameters, body, answers and
schemas) shows that without such a change the new part takes or gives what the old
one did. The guides need the converse for one call: whatever breaks it is told by a
change of a breaking kind that its client's guide shows. For custom rules,
`MergedInv` follows the merge from one override to the next: at every place stands
the last override with the id of that place, or the default rule. For `Ingest`,
`BoundedBy` says that what a transaction read is no more than what was committed,
and what it wrote no more than that with its own records; both stay so when others
commit, since the history counters only grow. `AloneIsExact` says that a
transaction that never had company read what is still there. A commit then adds the
same to a counter and to its history, or less; that every endpoint with a record is
written before the commit (`BoundedBy` at `"commit"`) makes it the whole. For `Catalogue`, a scan that is about to write holds
a part of what it found, and the rest is in the table already (`Pending`); the
table only grows, so a commit makes the scan whole whatever the others stored
meanwhile, and `RowsAreOfScans` carries what `VisitorsAssumption` says of one file
over to the join. For the routes nothing depends on the interleaving: the nodes of
the trie are what the positions begin with (`NodesArePrefixes`), so a child by a
literal is due to an item with that literal (`LiteralChild`), which hides the
templates beside it; an item that nothing hides is reached, two walks cannot part
(`OneEnd`, by the first place where they would), and an element of the node that
is reached is the segment or a slot for it (`ReachedElements`). For `Decay`, a convex combination of
integers within the range rounds to an integer within the range, and every open
evaluation holds one, whatever commits before it.

Proved without a run of their own, since what the runs check is close to them:
`NoDoubleProcessing`, `RecordedReminderIsFinal`, `PeakIsSetByActivation`,
`OneRowPerSha`, `VerdictFitsReport` (a part of `SerialVerdictsFit`), `RunsAreKept`,
`VersionsAreKept` and the type invariants of `Decay` and `Registry` (TLC checks
the latter as a part of `TypeOK` of `Ingest`). The typing of `SpecDiff` is
`StoredInv`. Only model-checked: the properties of `DefactoContracts`, which are about
`SchemaMerge`, and that the visitors of `CallSites` are right about a file
(schemas and expressions are recursive data, which the prover cannot do
induction over); that the segments of a URL are never empty, which
`CatalogueAssumption` says of the requests and TLC evaluates (the split at the
slashes is a fold); the liveness properties (fairness is out of the prover's reach)
and the refuted ones.

## 5. Not modelled

Left out for good: HAR and gRPC parsing and tree-sitter's syntax trees (text
processing without state), canonicalisation, formatting, the linter subprocess,
the rest of the CLI, the dashboard, migrations and health checks.
